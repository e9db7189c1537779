------------------------------ MODULE SysVSem -------------------------------
(***************************************************************************)
(* LinuxAPI2/ipc_systemv_sem.c: unrelated processes that all run           *)
(* ipc_systemv_sem() against one System V semaphore.  Whoever wins         *)
(* semget(IPC_CREAT|IPC_EXCL) initialises it in three system calls; the    *)
(* others poll sem_otime to learn that the initialisation has happened.    *)
(* Then each takes a unit, does the job and gives the unit back.  A        *)
(* process may be killed between any two system calls (SIGINT in the       *)
(* comment at line 104); the semaphore outlives it.                        *)
(***************************************************************************)
EXTENDS Naturals, FiniteSets

CONSTANTS Procs,     \* processes that run the sample
          Slots,     \* arg.val of the last SETVAL (2 in the code)
          MaxTries   \* MAX_TRIES (10 in the code)

ASSUME ConstantsOK ==
  /\ IsFiniteSet(Procs)
  /\ Slots \in Nat \ {0}
  /\ MaxTries \in Nat \ {0}

VARIABLES exists,   \* the set with this key exists in the kernel
          semval,   \* value of semaphore 0
          otime,    \* sem_otime # 0: some semop has been done
          pc,       \* next system call of each process
          ds,       \* each process's local ds.sem_otime
          tries     \* loop counter j

vars == <<exists, semval, otime, pc, ds, tries>>

InitPCs   == {"setval0", "semop0", "setvalN"}
AlivePCs  == InitPCs \cup {"start", "open", "poll", "check", "wait", "job"}
KilledPCs == {"killed", "killedInit", "killedBlocked", "killedHolding"}
PCs       == AlivePCs \cup KilledPCs \cup {"done", "fatal"}

(* State of every process is well formed; sem_otime in ds is uninitialised *)
(* until IPC_STAT fills it.                                                *)
TypeOK ==
  /\ exists \in BOOLEAN
  /\ semval \in Nat
  /\ otime \in BOOLEAN
  /\ pc \in [Procs -> PCs]
  /\ ds \in [Procs -> {"uninit", "zero", "set"}]
  /\ tries \in [Procs -> 0..MaxTries]

Init ==
  /\ exists = FALSE
  /\ semval = 0
  /\ otime = FALSE
  /\ pc = [p \in Procs |-> "start"]
  /\ ds = [p \in Procs |-> "uninit"]
  /\ tries = [p \in Procs |-> 0]

Goto(p, l) == pc' = [pc EXCEPT ![p] = l]
-----------------------------------------------------------------------------
(* semget(key, 1, IPC_CREAT | IPC_EXCL | perms): one process creates the   *)
(* set, with value 0 and sem_otime 0; all others get EEXIST.               *)
SemgetExcl(p) ==
  /\ pc[p] = "start"
  /\ exists' = TRUE
  /\ Goto(p, IF exists THEN "open" ELSE "setval0")
  /\ UNCHANGED <<semval, otime, ds, tries>>

\* The creator: SETVAL 0, a semop that only stamps sem_otime, SETVAL Slots.
SetvalZero(p) ==
  /\ pc[p] = "setval0"
  /\ semval' = 0
  /\ Goto(p, "semop0")
  /\ UNCHANGED <<exists, otime, ds, tries>>

MutSemopZeroEarlyValue(p) ==
  /\ pc[p] = "semop0"
  /\ semval' = Slots
  /\ otime' = TRUE
  /\ Goto(p, "setvalN")
  /\ UNCHANGED <<exists, ds, tries>>

SemopZero(p) ==
  /\ pc[p] = "semop0"
  /\ semval = 0
  /\ otime' = TRUE
  /\ Goto(p, "setvalN")
  /\ UNCHANGED <<exists, semval, ds, tries>>

SetvalSlots(p) ==
  /\ pc[p] = "setvalN"
  /\ semval' = Slots
  /\ Goto(p, "check")
  /\ UNCHANGED <<exists, otime, ds, tries>>

\* The others: open the set that is already there.
SemgetOpen(p) ==
  /\ pc[p] = "open"
  /\ Goto(p, "poll")
  /\ UNCHANGED <<exists, semval, otime, ds, tries>>

MutPollNoLimit(p) ==
  /\ pc[p] = "poll"
  /\ ds' = [ds EXCEPT ![p] = IF otime THEN "set" ELSE "zero"]
  /\ tries' = [tries EXCEPT ![p] = IF otime THEN @ ELSE @ + 1]
  /\ Goto(p, IF otime \/ tries[p] = MaxTries THEN "check" ELSE "poll")
  /\ UNCHANGED <<exists, semval, otime>>

(* One turn of the IPC_STAT loop: leave it when sem_otime is set or when   *)
(* MaxTries turns have passed.                                             *)
PollOtime(p) ==
  /\ pc[p] = "poll"
  /\ ds' = [ds EXCEPT ![p] = IF otime THEN "set" ELSE "zero"]
  /\ tries' = [tries EXCEPT ![p] = IF otime THEN @ ELSE @ + 1]
  /\ Goto(p, IF otime \/ tries'[p] = MaxTries THEN "check" ELSE "poll")
  /\ UNCHANGED <<exists, semval, otime>>

(* `if(ds.sem_otime == 0) fatal(...)'.  Only IPC_STAT writes ds, so the    *)
(* creator tests an uninitialised automatic variable: both outcomes.       *)
CheckOtime(p) ==
  /\ pc[p] = "check"
  /\ \/ ds[p] \in {"set", "uninit"} /\ Goto(p, "wait")
     \/ ds[p] \in {"zero", "uninit"} /\ Goto(p, "fatal")
  /\ UNCHANGED <<exists, semval, otime, ds, tries>>

MutAcquireNoBlock(p) ==
  /\ pc[p] = "wait"
  /\ semval' = IF semval > 0 THEN semval - 1 ELSE semval
  /\ Goto(p, "job")
  /\ otime' = TRUE
  /\ UNCHANGED <<exists, ds, tries>>

\* semop(-1) blocks until the value is positive.
Acquire(p) ==
  /\ pc[p] = "wait"
  /\ semval > 0
  /\ semval' = semval - 1
  /\ otime' = TRUE
  /\ Goto(p, "job")
  /\ UNCHANGED <<exists, ds, tries>>

MutReleaseForgotten(p) ==
  /\ pc[p] = "job"
  /\ Goto(p, "done")
  /\ UNCHANGED <<exists, semval, otime, ds, tries>>

\* End of the job: semop(+1) gives the unit back.
Release(p) ==
  /\ pc[p] = "job"
  /\ semval' = semval + 1
  /\ otime' = TRUE
  /\ Goto(p, "done")
  /\ UNCHANGED <<exists, ds, tries>>

(* A signal kills the process.  No semop of the sample uses SEM_UNDO: the  *)
(* kernel changes nothing else.                                            *)
Kill(p) ==
  /\ pc[p] \in AlivePCs
  /\ Goto(p, CASE pc[p] \in InitPCs -> "killedInit"
               [] pc[p] = "wait"    -> "killedBlocked"
               [] pc[p] = "job"     -> "killedHolding"
               [] OTHER             -> "killed")
  /\ UNCHANGED <<exists, semval, otime, ds, tries>>
-----------------------------------------------------------------------------
Create(p) == SetvalZero(p) \/ SemopZero(p) \/ SetvalSlots(p)
Follow(p) == SemgetOpen(p) \/ PollOtime(p)
Work(p)   == CheckOtime(p) \/ Acquire(p) \/ Release(p)
Step(p)   == SemgetExcl(p) \/ Create(p) \/ Follow(p) \/ Work(p)

Next == \E p \in Procs : Step(p) \/ Kill(p)

Spec == Init /\ [][Next]_vars

(* The scheduler runs every process; a process blocked in semop is woken   *)
(* in arrival order when a unit comes back, hence strong fairness there.   *)
(* Nothing obliges the environment to kill anybody.                        *)
Fairness == \A p \in Procs : WF_vars(Step(p)) /\ SF_vars(Acquire(p))

FairSpec == Spec /\ Fairness
-----------------------------------------------------------------------------
Holders      == {p \in Procs : pc[p] \in {"job", "killedHolding"}}
Initialising == \E p \in Procs : pc[p] \in InitPCs \cup {"killedInit"}
Terminated   == \A p \in Procs : pc[p] \notin AlivePCs

(* Line 62: "processes can enter the job while the value is 1 or 2": never *)
(* more than Slots processes are in the job, whoever created the set, in   *)
(* whatever order the polls, SETVALs and kills interleave.                 *)
AtMostSlots == Cardinality({p \in Procs : pc[p] = "job"}) <= Slots

(* Once the creator is through, the value plus the units held (by live or  *)
(* by dead processes) is exactly Slots: no interleaving of the creator's   *)
(* SETVALs with the followers' semops creates or loses a unit.  Until      *)
(* then the value is 0 and nobody has got in, so the second SETVAL (line   *)
(* 64), made after sem_otime let the followers through, steps on nothing.  *)
UnitsConserved ==
  IF exists /\ ~Initialising
  THEN semval + Cardinality(Holders) = Slots
  ELSE semval = 0 /\ Holders = {}

(* At most one process ever initialises: semget(IPC_EXCL) elects one.      *)
OneCreator ==
  \A p, q \in Procs :
    /\ pc[p] \in InitPCs \cup {"killedInit"}
    /\ pc[q] \in InitPCs \cup {"killedInit"}
    => p = q

(* The sample implements a two-slot lock.                                  *)
Lock == INSTANCE SlotLock WITH
          inside <- {p \in Procs : pc[p] = "job"},
          lost   <- {p \in Procs : pc[p] = "killedHolding"}
ImplementsLock == Lock!Spec

(* A process that blocks in semop(-1) gets in (or is killed itself) unless *)
(* the creator died half way, or as many processes as there are slots died *)
(* in the job: those are the only two ways to be locked out for ever.      *)
BlockedGetsIn ==
  \A p \in Procs :
    pc[p] = "wait" ~>
      \/ pc[p] # "wait"
      \/ \E q \in Procs : pc[q] = "killedInit"
      \/ Cardinality({q \in Procs : pc[q] = "killedHolding"}) = Slots

-----------------------------------------------------------------------------
(* The text of line 89 says of a process that gives up "Semaphore not      *)
(* initialized yet."                                                       *)
FatalMeansUninitialised ==
  [][\A p \in Procs : pc[p] = "check" /\ pc'[p] = "fatal" /\ ds[p] = "uninit"
        => ~otime]_vars
=============================================================================
