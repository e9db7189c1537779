--------------------------- MODULE SysVSemProofs ----------------------------
(***************************************************************************)
(* Proofs about SysVSem for any finite set of processes, any number of     *)
(* slots and any number of polls.                                          *)
(***************************************************************************)
EXTENDS SysVSem, FiniteSetTheorems, TLAPS

CreatorPCs == InitPCs \cup {"killedInit"}
HolderPCs  == {"job", "killedHolding"}

(* Nobody has done anything before the set exists, and a process that has  *)
(* not left the poll loop has turns left.                                  *)
NothingBeforeSet ==
  ~exists => \A p \in Procs : pc[p] \in {"start", "killed"}
TurnsLeft ==
  \A p \in Procs : pc[p] \in {"start", "open", "poll"} => tries[p] < MaxTries

(* The inductive invariant: UnitsConserved needs to know that there is one *)
(* creator (else a second SETVAL could follow an acquisition) and that the *)
(* set exists as soon as anybody has got past semget.                      *)
IInv ==
  /\ TypeOK
  /\ TurnsLeft
  /\ NothingBeforeSet
  /\ OneCreator
  /\ UnitsConserved
-----------------------------------------------------------------------------
(* The processes that hold a unit are finitely many. *)
LEMMA HoldersFinite == IsFiniteSet(Holders)
<1>1. Holders \in SUBSET Procs
  BY DEF Holders
<1> QED
  BY <1>1, ConstantsOK, FS_Subset

(* In the initial state the set does not exist and no unit does. *)
LEMMA InitIInv == Init => IInv
<1> SUFFICES ASSUME Init PROVE IInv
  OBVIOUS
<1>1. TypeOK /\ TurnsLeft
  <2>1. exists \in BOOLEAN /\ otime \in BOOLEAN
    BY DEF Init
  <2> QED
    BY <2>1, ConstantsOK DEF Init, TypeOK, TurnsLeft, PCs, AlivePCs
<1>2. NothingBeforeSet /\ OneCreator
  BY DEF Init, NothingBeforeSet, OneCreator, InitPCs
<1>3. UnitsConserved
  BY DEF Init, UnitsConserved, Holders
<1> QED
  BY <1>1, <1>2, <1>3 DEF IInv

(* Every step keeps the state well formed and the poll loop bounded. *)
LEMMA TypeStep ==
  ASSUME TypeOK, TurnsLeft, Next
  PROVE  TypeOK' /\ TurnsLeft'
<1> USE ConstantsOK DEF TypeOK, TurnsLeft, Goto, PCs, AlivePCs, KilledPCs, InitPCs
<1>1. ASSUME NEW p \in Procs, SemgetExcl(p) PROVE TypeOK' /\ TurnsLeft'
  BY <1>1 DEF SemgetExcl
<1>2. ASSUME NEW p \in Procs, Create(p) PROVE TypeOK' /\ TurnsLeft'
  <2>1. exists' \in BOOLEAN /\ otime' \in BOOLEAN
    BY <1>2, Zenon DEF Create, SetvalZero, SemopZero, SetvalSlots
  <2> QED
    BY <1>2, <2>1 DEF Create, SetvalZero, SemopZero, SetvalSlots
<1>3. ASSUME NEW p \in Procs, SemgetOpen(p) PROVE TypeOK' /\ TurnsLeft'
  BY <1>3 DEF SemgetOpen
<1>4. ASSUME NEW p \in Procs, PollOtime(p) PROVE TypeOK' /\ TurnsLeft'
  BY <1>4 DEF PollOtime
<1>5. ASSUME NEW p \in Procs, Work(p) PROVE TypeOK' /\ TurnsLeft'
  <2>1. exists' \in BOOLEAN /\ otime' \in BOOLEAN
    BY <1>5, Zenon DEF Work, CheckOtime, Acquire, Release
  <2> QED
    BY <1>5, <2>1 DEF Work, CheckOtime, Acquire, Release
<1>6. ASSUME NEW p \in Procs, Kill(p) PROVE TypeOK' /\ TurnsLeft'
  BY <1>6 DEF Kill
<1> QED
  BY <1>1, <1>2, <1>3, <1>4, <1>5, <1>6 DEF Next, Step, Follow

(* semget(IPC_EXCL) elects one creator, and nobody is past it before the   *)
(* set exists.                                                             *)
LEMMA CreatorStep ==
  ASSUME TypeOK, NothingBeforeSet, OneCreator, Next
  PROVE  NothingBeforeSet' /\ OneCreator'
<1> USE DEF TypeOK, NothingBeforeSet, OneCreator, Goto, InitPCs, AlivePCs
<1>1. ASSUME NEW p \in Procs, SemgetExcl(p) PROVE NothingBeforeSet' /\ OneCreator'
  BY <1>1 DEF SemgetExcl
<1>2. ASSUME NEW p \in Procs, Create(p) PROVE NothingBeforeSet' /\ OneCreator'
  BY <1>2 DEF Create, SetvalZero, SemopZero, SetvalSlots
<1>3. ASSUME NEW p \in Procs, Follow(p) PROVE NothingBeforeSet' /\ OneCreator'
  BY <1>3 DEF Follow, SemgetOpen, PollOtime
<1>4. ASSUME NEW p \in Procs, Work(p) PROVE NothingBeforeSet' /\ OneCreator'
  BY <1>4 DEF Work, CheckOtime, Acquire, Release
<1>5. ASSUME NEW p \in Procs, Kill(p) PROVE NothingBeforeSet' /\ OneCreator'
  BY <1>5 DEF Kill
<1> QED
  BY <1>1, <1>2, <1>3, <1>4, <1>5 DEF Next, Step

(* A step that moves one process without making it, or stopping it from    *)
(* being, a creator or a holder leaves the accounts alone.                 *)
LEMMA QuietMove ==
  ASSUME TypeOK, UnitsConserved, NEW p \in Procs, NEW l,
         pc' = [pc EXCEPT ![p] = l], semval' = semval, exists' = exists,
         pc[p] \in CreatorPCs <=> l \in CreatorPCs,
         pc[p] \in HolderPCs <=> l \in HolderPCs
  PROVE  UnitsConserved'
<1>1. Holders' = Holders
  BY DEF Holders, HolderPCs, TypeOK
<1>2. Initialising' <=> Initialising
  BY DEF Initialising, CreatorPCs, TypeOK
<1> QED
  BY <1>1, <1>2 DEF UnitsConserved
-----------------------------------------------------------------------------
(* The creator's last SETVAL turns an account of nothing into one of Slots *)
(* units.                                                                  *)
LEMMA SetvalSlotsUnits ==
  ASSUME IInv, NEW p \in Procs, SetvalSlots(p)
  PROVE  UnitsConserved'
<1> USE DEF IInv, TypeOK, Goto
<1>1. Initialising /\ Holders = {}
  BY DEF SetvalSlots, UnitsConserved, Initialising, InitPCs
<1>2. Holders' = {}
  BY <1>1 DEF SetvalSlots, Holders
<1>3. ~Initialising'
  BY DEF SetvalSlots, Initialising, OneCreator, InitPCs
<1>4. exists'
  BY DEF SetvalSlots, NothingBeforeSet
<1>5. Cardinality(Holders') = 0
  BY <1>2, FS_EmptySet
<1> QED
  BY <1>3, <1>4, <1>5, ConstantsOK DEF UnitsConserved, SetvalSlots

(* Acquire moves a unit from the value to a holder. *)
LEMMA AcquireUnits ==
  ASSUME IInv, NEW p \in Procs, Acquire(p)
  PROVE  UnitsConserved'
<1> USE DEF IInv, TypeOK, Goto
<1>1. exists /\ ~Initialising /\ semval + Cardinality(Holders) = Slots
  BY DEF Acquire, UnitsConserved
<1>2. Holders' = Holders \cup {p} /\ p \notin Holders
  BY DEF Acquire, Holders
<1>3. Cardinality(Holders') = Cardinality(Holders) + 1 /\ Cardinality(Holders) \in Nat
  BY <1>2, HoldersFinite, FS_AddElement, FS_CardinalityType
<1>4. exists' /\ ~Initialising'
  BY <1>1 DEF Acquire, Initialising, InitPCs
<1> QED
  BY <1>1, <1>3, <1>4, ConstantsOK DEF UnitsConserved, Acquire

(* Release moves it back. *)
LEMMA ReleaseUnits ==
  ASSUME IInv, NEW p \in Procs, Release(p)
  PROVE  UnitsConserved'
<1> USE DEF IInv, TypeOK, Goto
<1>1. p \in Holders
  BY DEF Release, Holders
<1>2. exists /\ ~Initialising /\ semval + Cardinality(Holders) = Slots
  BY <1>1 DEF UnitsConserved
<1>3. Holders' = Holders \ {p}
  BY <1>1 DEF Release, Holders
<1>4. Cardinality(Holders') = Cardinality(Holders) - 1 /\ Cardinality(Holders) \in Nat
  BY <1>1, <1>3, HoldersFinite, FS_RemoveElement, FS_CardinalityType
<1>5. exists' /\ ~Initialising'
  BY <1>2 DEF Release, Initialising, InitPCs
<1> QED
  BY <1>2, <1>4, <1>5, ConstantsOK DEF UnitsConserved, Release

(* Every step keeps the accounts. *)
LEMMA UnitsStep ==
  ASSUME IInv, Next
  PROVE  UnitsConserved'
<1> USE DEF Goto, CreatorPCs, HolderPCs, InitPCs
<1>1. ASSUME NEW p \in Procs, SemgetExcl(p) PROVE UnitsConserved'
  <2>1. CASE exists
    BY <1>1, <2>1, QuietMove DEF SemgetExcl, IInv
  <2>2. CASE ~exists
    <3>1. semval = 0 /\ Holders = {}
      BY <2>2 DEF IInv, UnitsConserved
    <3>2. Initialising' /\ Holders' = {}
      BY <1>1, <2>2, <3>1 DEF SemgetExcl, Initialising, Holders, IInv, TypeOK
    <3> QED
      BY <1>1, <3>1, <3>2 DEF UnitsConserved, SemgetExcl
  <2> QED
    BY <2>1, <2>2
<1>2. ASSUME NEW p \in Procs, SetvalZero(p) PROVE UnitsConserved'
  <2>1. Initialising
    BY <1>2 DEF SetvalZero, Initialising
  <2>2. semval' = semval
    BY <1>2, <2>1 DEF SetvalZero, IInv, UnitsConserved
  <2> QED
    BY <1>2, <2>2, QuietMove DEF SetvalZero, IInv
<1>3. ASSUME NEW p \in Procs, SemopZero(p) PROVE UnitsConserved'
  BY <1>3, QuietMove DEF SemopZero, IInv
<1>4. ASSUME NEW p \in Procs, Follow(p) PROVE UnitsConserved'
  BY <1>4, QuietMove DEF Follow, SemgetOpen, PollOtime, IInv
<1>5. ASSUME NEW p \in Procs, CheckOtime(p) PROVE UnitsConserved'
  BY <1>5, QuietMove DEF CheckOtime, IInv
<1>6. ASSUME NEW p \in Procs, Kill(p) PROVE UnitsConserved'
  BY <1>6, QuietMove DEF Kill, AlivePCs, IInv
<1> QED
  BY <1>1, <1>2, <1>3, <1>4, <1>5, <1>6,
     SetvalSlotsUnits, AcquireUnits, ReleaseUnits
     DEF Next, Step, Create, Work

(* The inductive step. *)
LEMMA NextIInv == IInv /\ [Next]_vars => IInv'
<1>1. ASSUME IInv, Next PROVE IInv'
  BY <1>1, TypeStep, CreatorStep, UnitsStep DEF IInv
<1>2. ASSUME IInv, UNCHANGED vars PROVE IInv'
  BY <1>2 DEF IInv, vars, TypeOK, TurnsLeft, NothingBeforeSet, OneCreator,
              UnitsConserved, Holders, Initialising
<1> QED
  BY <1>1, <1>2
-----------------------------------------------------------------------------
(* The inductive invariant holds in every reachable state. *)
THEOREM Invariance == Spec => []IInv
BY InitIInv, NextIInv, PTL DEF Spec

(* ipc_systemv_sem.c keeps its state well formed. *)
THEOREM TypeCorrect == Spec => []TypeOK
<1>1. IInv => TypeOK
  BY DEF IInv
<1> QED
  BY <1>1, Invariance, PTL

(* Lines 40-119: the value plus the units held is Slots from the end of    *)
(* the initialisation on, for any number of processes and kills.           *)
THEOREM Conservation == Spec => []UnitsConserved
<1>1. IInv => UnitsConserved
  BY DEF IInv
<1> QED
  BY <1>1, Invariance, PTL

(* Line 62: at most Slots processes are in the job.                        *)
THEOREM JobIsBounded == Spec => []AtMostSlots
<1>1. ASSUME IInv PROVE AtMostSlots
  <2> DEFINE J == {p \in Procs : pc[p] = "job"}
  <2>1. J \in SUBSET Holders
    BY DEF Holders
  <2>2. Cardinality(J) <= Cardinality(Holders) /\ Cardinality(J) \in Nat
    BY <2>1, HoldersFinite, FS_Subset, FS_CardinalityType
  <2>3. Cardinality(Holders) <= Slots /\ Cardinality(Holders) \in Nat
    BY <1>1, HoldersFinite, FS_EmptySet, FS_CardinalityType, ConstantsOK
       DEF IInv, UnitsConserved, TypeOK
  <2>4. Cardinality(J) <= Slots
    BY <2>2, <2>3, ConstantsOK
  <2> QED
    BY <2>4 DEF AtMostSlots
<1> QED
  BY <1>1, Invariance, PTL
-----------------------------------------------------------------------------
Inside == {p \in Procs : pc[p] = "job"}
Lost   == {p \in Procs : pc[p] = "killedHolding"}

(* A step of one process that is neither into nor out of the job is a      *)
(* stutter of the abstract lock.                                           *)
LEMMA LockStutter ==
  ASSUME TypeOK, NEW p \in Procs, NEW l, pc' = [pc EXCEPT ![p] = l],
         pc[p] \notin HolderPCs, l \notin HolderPCs
  PROVE  Inside' = Inside /\ Lost' = Lost
BY DEF TypeOK, Inside, Lost, HolderPCs

(* Every step of the sample is a step of the abstract lock or a stutter.   *)
LEMMA LockStep == IInv /\ [Next]_vars => [Lock!Next]_<<Inside, Lost>>
<1> SUFFICES ASSUME IInv, [Next]_vars
             PROVE  Lock!Next \/ (Inside' = Inside /\ Lost' = Lost)
  BY DEF Inside, Lost
<1> USE DEF Goto, HolderPCs, IInv, TypeOK
<1>1. ASSUME NEW p \in Procs, Acquire(p) PROVE Lock!Enter(p)
  <2>1. exists /\ ~Initialising /\ semval + Cardinality(Holders) = Slots
    BY <1>1 DEF Acquire, UnitsConserved
  <2>2. Cardinality(Holders) \in Nat
    BY HoldersFinite, FS_CardinalityType
  <2>3. Cardinality(Holders) < Slots
    BY <1>1, <2>1, <2>2, ConstantsOK DEF Acquire
  <2>4. Inside \cup Lost = Holders
    BY DEF Inside, Lost, Holders
  <2>5. p \notin Inside \cup Lost /\ Inside' = Inside \cup {p} /\ Lost' = Lost
    BY <1>1 DEF Acquire, Inside, Lost
  <2> QED
    <3>1. Cardinality(Inside \cup Lost) < Slots
      BY <2>3, <2>4
    <3> HIDE DEF TypeOK, IInv
    <3> QED
      BY <3>1, <2>5, Zenon DEF Lock!Enter, Lock!Cardinality, Cardinality, Inside, Lost
<1>2. ASSUME NEW p \in Procs, Release(p) PROVE Lock!Leave(p)
  BY <1>2 DEF Release, Lock!Leave
<1>3. ASSUME NEW p \in Procs, Kill(p), pc[p] = "job" PROVE Lock!Die(p)
  BY <1>3 DEF Kill, Lock!Die, InitPCs
<1>4. ASSUME NEW p \in Procs, Kill(p), pc[p] # "job"
      PROVE  Inside' = Inside /\ Lost' = Lost
  BY <1>4 DEF Kill, Inside, Lost, AlivePCs, InitPCs
<1>5. ASSUME NEW p \in Procs,
             SemgetExcl(p) \/ Create(p) \/ Follow(p) \/ CheckOtime(p)
      PROVE  Inside' = Inside /\ Lost' = Lost
  BY <1>5, LockStutter
     DEF SemgetExcl, Create, SetvalZero, SemopZero, SetvalSlots,
         Follow, SemgetOpen, PollOtime, CheckOtime
<1>6. ASSUME UNCHANGED vars PROVE Inside' = Inside /\ Lost' = Lost
  BY <1>6 DEF vars, Inside, Lost
<1> QED
  BY <1>1, <1>2, <1>3, <1>4, <1>5, <1>6 DEF Next, Step, Work, Lock!Next

(* ipc_systemv_sem.c implements a lock with Slots slots in which a process *)
(* killed in the job keeps its slot.                                       *)
THEOREM Refinement == Spec => ImplementsLock
<1>1. Init => Lock!Init
  BY DEF Init, Lock!Init
<1>2. IInv /\ [Next]_vars => [Lock!Next]_(Lock!vars)
  BY LockStep DEF Inside, Lost, Lock!vars
<1> QED
  BY <1>1, <1>2, Invariance, PTL DEF Spec, Lock!Spec, ImplementsLock
=============================================================================
