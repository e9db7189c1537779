---------------------------- MODULE ThreadProofs ----------------------------
(***************************************************************************)
(* Proofs about the thread samples, for any number of additions, threads,  *)
(* rounds and turns, on the specification TLC checks: main() calls any one *)
(* of the samples.                                                         *)
(***************************************************************************)
EXTENDS MCThreads, CondQueueProofs, FiniteSetTheorems

threadVars == <<sample, sumVars, condVars, lifeVars>>
-----------------------------------------------------------------------------
(* Locked sums: a thread inside a lock is its owner, the register of a     *)
(* thread about to store is still the current value, and twice each datum  *)
(* is what its threads have added so far (Gauss: n additions from s on).   *)
Gauss(n, s) == 2 * (n * s) + n * (n - 1)
Part(t)     == Gauss(i[t], Start(t))
Additions   == IF sample = "mutex_example"
                 THEN 2 * value[1] = Part(1) /\ 2 * value[2] = Part(2) + Part(3)
                 ELSE 2 * value[1] = Part(1) + Part(2)
MainInv     == created <= NumThreads /\ (printed => joined = NumThreads)
InOrder     == \A t \in Threads : /\ t > created => pc[t] = "lock" /\ i[t] = 0
                                  /\ t <= joined => pc[t] = "done"
InTurn      == \A t \in Threads : /\ pc[t] \in {"lock", "load", "store"} => i[t] < Count
                                  /\ pc[t] = "done" => i[t] = Count
                                  /\ pc[t] # "errExit"
Exclusive   == \A t \in Threads : /\ pc[t] \in InLock => owner[Datum(t)] = t
                                  /\ pc[t] = "store" => reg[t] = value[Datum(t)]
SumInv      == SumTypeOK /\ MainInv /\ InOrder /\ InTurn /\ Exclusive /\ Additions

(* One more addition.                                                      *)
LEMMA GaussStep ==
  ASSUME NEW n \in Nat, NEW s \in Nat
  PROVE  /\ Gauss(n, s) \in Int /\ Gauss(0, s) = 0 /\ Gauss(n, 0) = n * (n - 1)
         /\ Gauss(n + 1, s) = Gauss(n, s) + 2 * (s + n)
<1>1. Gauss(n, s) \in Int /\ Gauss(0, s) = 0 /\ Gauss(n, 0) = n * (n - 1)
  BY DEF Gauss
<1>2. (n + 1) * s = n * s + s /\ (n + 1) * n = n * n + n /\ n * (n - 1) = n * n - n
  OBVIOUS
<1>3. (n + 1) - 1 = n /\ n * s \in Int /\ n * n \in Int
  OBVIOUS
<1>4. 2 * ((n + 1) * s) + (n + 1) * ((n + 1) - 1) = (2 * (n * s) + n * (n - 1)) + 2 * (s + n)
  BY <1>2, <1>3
<1> QED
  BY <1>1, <1>4 DEF Gauss

(* Which datum a thread adds to, and from where on.                        *)
LEMMA SumData ==
  /\ Threads = {1, 2, 3} /\ Data = {1, 2} /\ Count \in Nat /\ Count # 0
  /\ NumThreads \in {2, 3} /\ (NumThreads = 3 <=> sample = "mutex_example")
  /\ \A t \in Threads : /\ t \in Nat /\ t # 0 /\ Start(t) \in Nat /\ Datum(t) \in Data
                        /\ (sample = "mutex_example" => Start(t) = 0)
                        /\ Datum(t) = IF sample = "mutex_example" /\ t # 1 THEN 2 ELSE 1
  /\ sample # "mutex_example" => Start(1) = 0 /\ Start(2) = Count
<1>1. Threads = {1, 2, 3} /\ Data = {1, 2} /\ Count \in Nat /\ Count # 0
  BY CountAssumption DEF Threads, Data
<1>2. NumThreads \in {2, 3} /\ (NumThreads = 3 <=> sample = "mutex_example")
  BY DEF NumThreads
<1>3. \A t \in {1, 2, 3} : /\ t \in Nat /\ t # 0 /\ Datum(t) \in {1, 2}
                           /\ Datum(t) = IF sample = "mutex_example" /\ t # 1 THEN 2 ELSE 1
  BY DEF Datum
<1>4. (1 - 1) * Count = 0 /\ (2 - 1) * Count = Count /\ (3 - 1) * Count \in Nat
  BY <1>1
<1>5. /\ \A t \in {1, 2, 3} : Start(t) \in Nat /\ (sample = "mutex_example" => Start(t) = 0)
      /\ sample # "mutex_example" => Start(1) = 0 /\ Start(2) = Count
  BY <1>1, <1>4 DEF Start
<1> QED
  BY <1>1, <1>2, <1>3, <1>5

(* Nobody has been created at first.                                       *)
LEMMA SumInitHolds == SumInit => SumInv
<1> SUFFICES ASSUME SumInit PROVE SumInv
  OBVIOUS
<1> USE SumData DEF SumInit
<1>1. SumTypeOK
  <2>1. created \in 0..3 /\ joined \in 0..created
    OBVIOUS
  <2>4. printed \in BOOLEAN
    OBVIOUS
  <2>2. pc \in [Threads -> InLock \cup {"lock", "done", "errExit"}] /\ owner \in [Data -> 0..3]
    OBVIOUS
  <2>3. i \in [Threads -> 0..Count] /\ reg \in [Threads -> Nat] /\ value \in [Data -> Nat]
    OBVIOUS
  <2> QED
    BY <2>1, <2>2, <2>3, <2>4 DEF SumTypeOK
<1>2. MainInv /\ InOrder /\ InTurn /\ Exclusive
  BY DEF MainInv, InOrder, InTurn, Exclusive, InLock
<1>3. Additions
  <2>1. Part(1) = 0 /\ Part(2) = 0 /\ Part(3) = 0
    BY GaussStep DEF Part
  <2> QED
    BY <2>1 DEF Additions
<1> QED
  BY <1>1, <1>2, <1>3 DEF SumInv

(* Facts about the state before a step of a thread.                        *)
LEMMA SumFacts ==
  ASSUME SumInv
  PROVE  /\ created \in Nat /\ joined \in Nat /\ joined <= created /\ created <= NumThreads
         /\ pc \in [Threads -> InLock \cup {"lock", "done", "errExit"}]
         /\ i \in [Threads -> 0..Count] /\ reg \in [Threads -> Nat] /\ value \in [Data -> Nat]
         /\ owner \in [Data -> 0..3]
         /\ \A t \in Threads : Part(t) \in Int /\ i[t] \in Nat
<1>1. \A t \in Threads : i[t] \in Nat
  BY SumData DEF SumInv, SumTypeOK
<1>2. \A t \in Threads : Part(t) \in Int
  BY <1>1, SumData, GaussStep DEF Part
<1> QED
  BY <1>1, <1>2 DEF SumInv, SumTypeOK, MainInv

(* A thread takes or leaves its lock, which changes no sum.                *)
LEMMA LockStep ==
  ASSUME SumInv, NEW t \in Threads, MainIdle, t <= created,
         Lock(t) \/ Unlock(t) \/ UnlockChecked(t)
  PROVE  SumInv'
<1> USE SumData, SumFacts
<1>1. UNCHANGED <<sample, created, joined, printed, i, reg, value>> /\ pc[t] \in {"lock", "unlock"}
  BY DEF MainIdle, Lock, Unlock, UnlockChecked
<1>2. \A u \in Threads : Datum(u)' = Datum(u) /\ Start(u)' = Start(u)
  BY <1>1 DEF Datum, Start
<1>3. NumThreads' = NumThreads
  BY <1>1 DEF NumThreads
<1>4. PICK l \in {"load", "done", "lock"}, o \in {0, t} :
        /\ pc' = [pc EXCEPT ![t] = l] /\ owner' = [owner EXCEPT ![Datum(t)] = o]
        /\ (l = "load" => o = t /\ pc[t] = "lock" /\ owner[Datum(t)] = 0)
        /\ (l # "load" => pc[t] = "unlock" /\ owner[Datum(t)] = t)
        /\ (l = "done" <=> pc[t] = "unlock" /\ i[t] = Count)
  <2>1. CASE Lock(t)
    BY <2>1 DEF Lock, To
  <2>2. CASE Unlock(t) \/ UnlockChecked(t)
    <3>1. pc[t] = "unlock" /\ owner[Datum(t)] = t
      BY <2>2 DEF Unlock, UnlockChecked, SumInv, Exclusive, InLock
    <3> QED
      BY <2>2, <3>1 DEF Unlock, UnlockChecked, To
  <2> QED
    BY <2>1, <2>2
<1>5. pc'[t] = l /\ \A u \in Threads : u # t => pc'[u] = pc[u]
  BY <1>4
<1>6. SumTypeOK'
  <2>1. l \in InLock \cup {"lock", "done", "errExit"} /\ o \in 0..3
    BY DEF InLock
  <2>2. pc' \in [Threads -> InLock \cup {"lock", "done", "errExit"}]
    BY <1>4, <2>1
  <2>3. owner' \in [Data -> 0..3]
    BY <1>4, <2>1
  <2> QED
    BY <1>1, <2>2, <2>3 DEF SumInv, SumTypeOK
<1>7. MainInv'
  BY <1>1, <1>3 DEF SumInv, MainInv
<1>8. InOrder' /\ InTurn'
  <2>1. ASSUME NEW u \in Threads
        PROVE  /\ u > created => pc'[u] = "lock" /\ i[u] = 0
               /\ u <= joined => pc'[u] = "done"
    BY <1>1, <1>5 DEF SumInv, InOrder
  <2>2. i[t] < Count \/ i[t] = Count
    OBVIOUS
  <2>3. pc[t] = "lock" => i[t] < Count
    BY DEF SumInv, InTurn
  <2>4. ASSUME NEW u \in Threads
        PROVE  /\ pc'[u] \in {"lock", "load", "store"} => i[u] < Count
               /\ pc'[u] = "done" => i[u] = Count
               /\ pc'[u] # "errExit"
    BY <1>1, <1>4, <1>5, <2>2, <2>3 DEF SumInv, InTurn
  <2> QED
    BY <1>1, <2>1, <2>4 DEF InOrder, InTurn
<1>9. Exclusive'
  <2>1. ASSUME NEW u \in Threads, pc'[u] \in InLock PROVE owner'[Datum(u)] = u
    <3>1. CASE u = t
      BY <1>4, <1>5, <2>1, <3>1 DEF InLock
    <3>2. CASE u # t
      <4>1. owner[Datum(u)] = u
        BY <1>5, <2>1, <3>2 DEF SumInv, Exclusive
      <4>2. Datum(u) # Datum(t)
        BY <1>4, <3>2, <4>1
      <4> QED
        BY <1>4, <4>1, <4>2
    <3> QED
      BY <3>1, <3>2
  <2>2. ASSUME NEW u \in Threads, pc'[u] = "store" PROVE reg[u] = value[Datum(u)]
    BY <1>4, <1>5, <2>2 DEF SumInv, Exclusive
  <2> QED
    BY <1>1, <1>2, <2>1, <2>2 DEF Exclusive
<1>10. Additions'
  <2>1. \A u \in Threads : Part(u)' = Part(u)
    BY <1>1, <1>2 DEF Part
  <2> QED
    BY <1>1, <2>1 DEF SumInv, Additions
<1> QED
  BY <1>6, <1>7, <1>8, <1>9, <1>10 DEF SumInv

(* A thread loads the value.                                               *)
LEMMA LoadStep ==
  ASSUME SumInv, NEW t \in Threads, MainIdle, t <= created, pc[t] = "load", To(t, "store"),
         reg' = [reg EXCEPT ![t] = value[Datum(t)]], UNCHANGED <<i, owner, value>>
  PROVE  SumInv'
<1> USE SumData, SumFacts
<1>1. UNCHANGED <<sample, created, joined, printed, i, owner, value>>
  BY DEF MainIdle
<1>2. \A u \in Threads : Datum(u)' = Datum(u) /\ Start(u)' = Start(u)
  BY <1>1 DEF Datum, Start
<1>3. NumThreads' = NumThreads
  BY <1>1 DEF NumThreads
<1>4. /\ pc'[t] = "store" /\ reg'[t] = value[Datum(t)]
      /\ \A u \in Threads : u # t => pc'[u] = pc[u] /\ reg'[u] = reg[u]
  BY DEF To
<1>5. SumTypeOK'
  <2>1. pc' \in [Threads -> InLock \cup {"lock", "done", "errExit"}]
    BY DEF To, InLock
  <2>2. reg' \in [Threads -> Nat]
    OBVIOUS
  <2> QED
    BY <1>1, <2>1, <2>2 DEF SumInv, SumTypeOK
<1>6. MainInv'
  BY <1>1, <1>3 DEF SumInv, MainInv
<1>7. InOrder' /\ InTurn'
  BY <1>1, <1>4 DEF SumInv, InOrder, InTurn
<1>8. Exclusive'
  <2>1. ASSUME NEW u \in Threads
        PROVE  (pc'[u] \in InLock => owner[Datum(u)] = u) /\ (pc'[u] = "store" => reg'[u] = value[Datum(u)])
    BY <1>4 DEF SumInv, Exclusive, InLock
  <2> QED
    BY <1>1, <1>2, <2>1 DEF Exclusive
<1>9. Additions'
  <2>1. \A u \in Threads : Part(u)' = Part(u)
    BY <1>1, <1>2 DEF Part
  <2> QED
    BY <1>1, <2>1 DEF SumInv, Additions
<1> QED
  BY <1>5, <1>6, <1>7, <1>8, <1>9 DEF SumInv

(* A thread stores what it has added.                                      *)
LEMMA StoreStep ==
  ASSUME SumInv, NEW t \in Threads, MainIdle, t <= created, NEW next \in {"unlock", "load"},
         pc[t] = "store", value' = [value EXCEPT ![Datum(t)] = reg[t] + Start(t) + i[t]],
         i' = [i EXCEPT ![t] = @ + 1], To(t, IF i'[t] = Count THEN "unlock" ELSE next),
         UNCHANGED <<reg, owner>>
  PROVE  SumInv'
<1> USE SumData, SumFacts
<1>1. UNCHANGED <<sample, created, joined, printed, reg, owner>>
  BY DEF MainIdle
<1>2. \A u \in Threads : Datum(u)' = Datum(u) /\ Start(u)' = Start(u)
  BY <1>1 DEF Datum, Start
<1>3. NumThreads' = NumThreads
  BY <1>1 DEF NumThreads
<1>4. i'[t] = i[t] + 1 /\ i[t] < Count /\ \A u \in Threads : u # t => i'[u] = i[u]
  BY DEF SumInv, InTurn
<1>5. PICK l \in {"unlock", "load"} : pc' = [pc EXCEPT ![t] = l] /\ (i'[t] = Count => l = "unlock")
  BY DEF To
<1>6. pc'[t] = l /\ \A u \in Threads : u # t => pc'[u] = pc[u]
  BY <1>5
<1>7. PICK v \in Nat : v = value[Datum(t)] + Start(t) + i[t]
  OBVIOUS
<1>8. value' = [value EXCEPT ![Datum(t)] = v]
  BY <1>7 DEF SumInv, Exclusive
<1>9. SumTypeOK'
  <2>1. pc' \in [Threads -> InLock \cup {"lock", "done", "errExit"}]
    BY <1>5 DEF InLock
  <2>2. i' \in [Threads -> 0..Count]
    BY <1>4
  <2>3. value' \in [Data -> Nat]
    BY <1>8
  <2> QED
    BY <1>1, <2>1, <2>2, <2>3 DEF SumInv, SumTypeOK
<1>10. MainInv'
  BY <1>1, <1>3 DEF SumInv, MainInv
<1>11. InOrder'
  BY <1>1, <1>4, <1>6 DEF SumInv, InOrder
<1>12. InTurn'
  <2>1. i'[t] < Count \/ i'[t] = Count
    BY <1>4
  <2> QED
    BY <1>4, <1>6, <1>5, <2>1 DEF SumInv, InTurn
<1>13. Exclusive'
  <2>1. ASSUME NEW u \in Threads, pc'[u] \in InLock PROVE owner[Datum(u)] = u
    <3>1. pc[u] \in InLock
      BY <1>6, <2>1 DEF InLock
    <3> QED
      BY <3>1 DEF SumInv, Exclusive
  <2>2. ASSUME NEW u \in Threads, pc'[u] = "store" PROVE reg[u] = value'[Datum(u)]
    <3>1. u # t /\ pc[u] = "store"
      BY <1>6, <2>2
    <3>2. owner[Datum(u)] = u /\ owner[Datum(t)] = t
      BY <3>1 DEF SumInv, Exclusive, InLock
    <3>3. Datum(u) # Datum(t)
      BY <3>1, <3>2
    <3> QED
      BY <1>8, <3>1, <3>3 DEF SumInv, Exclusive
  <2> QED
    BY <1>1, <1>2, <2>1, <2>2 DEF Exclusive
<1>14. Additions'
  <2>1. /\ Part(t)' = Part(t) + 2 * (Start(t) + i[t])
        /\ \A u \in Threads : u # t => Part(u)' = Part(u)
    <3>1. PICK n \in Nat, s \in Nat : n = i[t] /\ s = Start(t)
      OBVIOUS
    <3>2. Gauss(n + 1, s) = Gauss(n, s) + 2 * (s + n)
      BY GaussStep
    <3> QED
      BY <1>2, <1>4, <3>1, <3>2 DEF Part
  <2>2. value'[Datum(t)] = v /\ \A d \in Data : d # Datum(t) => value'[d] = value[d]
    BY <1>8
  <2>3. 2 * v = 2 * value[Datum(t)] + 2 * (Start(t) + i[t])
    BY <1>7
  <2>4. Additions
    BY DEF SumInv
  <2>5. CASE sample = "mutex_example"
    <3>1. 2 * value[1] = Part(1) /\ 2 * value[2] = Part(2) + Part(3)
      BY <2>4, <2>5 DEF Additions
    <3>2. CASE t = 1
      <4>1. Datum(t) = 1 /\ Part(2)' = Part(2) /\ Part(3)' = Part(3)
        BY <2>1, <3>2
      <4> QED
        BY <1>1, <2>1, <2>2, <2>3, <2>5, <3>1, <3>2, <4>1 DEF Additions
    <3>3. CASE t = 2
      <4>1. Datum(t) = 2 /\ Part(1)' = Part(1) /\ Part(3)' = Part(3)
        BY <2>1, <2>5, <3>3
      <4> QED
        BY <1>1, <2>1, <2>2, <2>3, <2>5, <3>1, <3>3, <4>1 DEF Additions
    <3>4. CASE t = 3
      <4>1. Datum(t) = 2 /\ Part(1)' = Part(1) /\ Part(2)' = Part(2)
        BY <2>1, <2>5, <3>4
      <4> QED
        BY <1>1, <2>1, <2>2, <2>3, <2>5, <3>1, <3>4, <4>1 DEF Additions
    <3> QED
      BY <3>2, <3>3, <3>4
  <2>6. CASE sample # "mutex_example"
    <3>1. 2 * value[1] = Part(1) + Part(2) /\ Datum(t) = 1
      BY <2>4, <2>6 DEF Additions
    <3>2. t \in {1, 2}
      BY <2>6
    <3>3. CASE t = 1
      <4>1. Part(2)' = Part(2)
        BY <2>1, <3>3
      <4> QED
        BY <1>1, <2>1, <2>2, <2>3, <2>6, <3>1, <3>3, <4>1 DEF Additions
    <3>4. CASE t = 2
      <4>1. Part(1)' = Part(1)
        BY <2>1, <3>4
      <4> QED
        BY <1>1, <2>1, <2>2, <2>3, <2>6, <3>1, <3>4, <4>1 DEF Additions
    <3> QED
      BY <3>2, <3>3, <3>4
  <2> QED
    BY <2>5, <2>6
<1> QED
  BY <1>9, <1>10, <1>11, <1>12, <1>13, <1>14 DEF SumInv

(* main creates, joins and prints.                                         *)
LEMMA MainSumStep ==
  ASSUME SumInv, NEW s, CreateJoinPrint(s)
  PROVE  SumInv'
<1> USE SumData, SumFacts
<1>1. UNCHANGED <<sample, pc, i, reg, owner, value>>
  BY DEF CreateJoinPrint
<1>2. NumThreads' = NumThreads /\ \A u \in Threads : Datum(u)' = Datum(u) /\ Part(u)' = Part(u)
  BY <1>1 DEF NumThreads, Datum, Part, Start
<1>3. \/ created < NumThreads /\ created' = created + 1 /\ UNCHANGED <<joined, printed>>
      \/ /\ created = NumThreads /\ joined < created /\ pc[joined + 1] = "done"
         /\ joined' = joined + 1 /\ UNCHANGED <<created, printed>>
      \/ /\ joined = NumThreads /\ ~printed /\ printed' = TRUE /\ UNCHANGED <<created, joined>>
  BY DEF CreateJoinPrint
<1>4. joined' \in 0..created' /\ created' \in 0..3 /\ created' <= NumThreads
  BY <1>3
<1>5. printed' \in BOOLEAN
  BY <1>3 DEF SumInv, SumTypeOK
<1>6. SumTypeOK'
  BY <1>1, <1>4, <1>5 DEF SumInv, SumTypeOK
<1>7. MainInv'
  <2>1. printed' => joined' = NumThreads
    <3>1. CASE printed'
      <4>1. CASE joined = NumThreads /\ ~printed /\ printed' = TRUE /\ UNCHANGED <<created, joined>>
        BY <4>1
      <4>2. CASE printed
        <5>1. joined = NumThreads
          BY <4>2 DEF SumInv, MainInv
        <5>2. ~(created < NumThreads) /\ ~(joined < created)
          BY <5>1
        <5> QED
          BY <1>3, <5>1, <5>2
      <4> QED
        BY <1>3, <3>1, <4>1, <4>2
    <3> QED
      BY <3>1
  <2> QED
    BY <1>2, <1>4, <2>1 DEF MainInv
<1>8. InOrder'
  BY <1>1, <1>3 DEF SumInv, InOrder
<1>9. InTurn' /\ Exclusive'
  BY <1>1, <1>2 DEF SumInv, InTurn, Exclusive
<1>10. Additions'
  BY <1>1, <1>2 DEF SumInv, Additions
<1> QED
  BY <1>6, <1>7, <1>8, <1>9, <1>10 DEF SumInv

(* A thread is in its lock, or does one step of an addition.               *)
LEMMA ThreadActs ==
  ASSUME NEW t \in Threads, SumThread(t)
  PROVE  /\ MainIdle /\ t <= created
         /\ \/ Lock(t) \/ Unlock(t) \/ UnlockChecked(t)
            \/ \E next \in {"unlock", "load"} : Add(t, next)
  BY DEF SumThread, thread_func, thread_func_error_checking_mutex, sem_thread_func,
         start_routine_lock, Running

(* Every step keeps the invariant.                                         *)
LEMMA SumKept ==
  ASSUME SumInv, SumNext
  PROVE  SumInv'
<1>1. ASSUME NEW t \in Threads, SumThread(t) PROVE SumInv'
  <2>1. MainIdle /\ t <= created
    BY <1>1, ThreadActs
  <2>2. ASSUME NEW next \in {"unlock", "load"}, Add(t, next) PROVE SumInv'
    BY <2>1, <2>2, LoadStep, StoreStep DEF Add
  <2> QED
    BY <1>1, <2>1, <2>2, ThreadActs, LockStep
<1> QED
  BY <1>1, MainSumStep DEF SumNext, SumMain, pthread_sync, pthread_sync_error_checking_mutex,
                           ipc_posix_unnamed_sem, mutex_example

(* What main prints, from the invariant.                                   *)
LEMMA SumInvImplies == SumInv => ResultExact
<1> SUFFICES ASSUME SumInv, printed PROVE ResultExact
  BY DEF ResultExact
<1> USE SumData, SumFacts
<1>1. joined = NumThreads
  BY DEF SumInv, MainInv
<1>2. \A t \in Threads : t <= NumThreads => i[t] = Count
  BY <1>1 DEF SumInv, InOrder, InTurn
<1>3. /\ Gauss(Count, 0) = Count * (Count - 1) /\ Gauss(Count, Count) \in Int /\ Gauss(Count, 0) \in Int
  BY GaussStep
<1>4. CASE sample = "mutex_example"
  <2>1. Part(1) = Gauss(Count, 0) /\ Part(2) = Gauss(Count, 0) /\ Part(3) = Gauss(Count, 0)
    BY <1>2, <1>4 DEF Part
  <2>2. 2 * value[1] = Gauss(Count, 0) /\ 2 * value[2] = Gauss(Count, 0) + Gauss(Count, 0)
    BY <1>4, <2>1 DEF SumInv, Additions
  <2>3. value[2] = Gauss(Count, 0)
    BY <1>3, <2>2
  <2> QED
    BY <1>3, <1>4, <2>2, <2>3 DEF ResultExact
<1>5. CASE sample # "mutex_example"
  <2>1. Part(1) = Gauss(Count, 0) /\ Part(2) = Gauss(Count, Count)
    BY <1>2, <1>5 DEF Part
  <2>2. 2 * value[1] = Gauss(Count, 0) + Gauss(Count, Count)
    BY <1>5, <2>1 DEF SumInv, Additions
  <2>3. Gauss(Count, 0) + Gauss(Count, Count) = 2 * (Count * (2 * Count - 1))
    BY DEF Gauss
  <2>4. Count * (2 * Count - 1) \in Int /\ value[1] \in Int
    OBVIOUS
  <2>5. value[1] = Count * (2 * Count - 1)
    BY <2>2, <2>3, <2>4
  <2> QED
    BY <1>5, <2>5 DEF ResultExact
<1> QED
  BY <1>4, <1>5
-----------------------------------------------------------------------------
(* The lock two threads compete for is the abstract lock with one slot.    *)
InsideSum == {t \in Threads : pc[t] \in InLock /\ Datum(t) = Contended}

(* At most the owner is inside.                                            *)
LEMMA OneInside ==
  ASSUME SumInv
  PROVE  /\ Contended \in Data /\ \A t \in InsideSum : owner[Contended] = t
         /\ owner[Contended] = 0 => InsideSum = {}
<1>1. Contended \in Data /\ \A t \in InsideSum : owner[Contended] = t
  BY SumData DEF SumInv, Exclusive, InsideSum, Contended
<1> QED
  BY <1>1, SumData DEF InsideSum

(* No step of the sum changes which datum a thread adds to.                *)
LEMMA SumSampleFixed ==
  ASSUME SumNext
  PROVE  sample' = sample
  BY ThreadActs DEF SumNext, SumMain, pthread_sync, pthread_sync_error_checking_mutex,
     ipc_posix_unnamed_sem, mutex_example, CreateJoinPrint, MainIdle

(* Every step of the samples is a step of the abstract lock or leaves it   *)
(* alone.                                                                  *)
LEMMA SumRefines ==
  ASSUME SumInv, SumNext
  PROVE  [SumLock!Next]_(SumLock!vars)
<1> USE SumData, SumFacts
<1>0. \A u \in Threads : Datum(u)' = Datum(u) /\ Contended' = Contended
  BY SumSampleFixed DEF Datum, Contended
<1> SUFFICES \/ InsideSum' = InsideSum
             \/ \E t \in Threads : \/ t \notin InsideSum /\ InsideSum = {} /\ InsideSum' = InsideSum \cup {t}
                                   \/ t \in InsideSum /\ InsideSum' = InsideSum \ {t}
  <2>1. CASE InsideSum' = InsideSum
    BY <2>1 DEF SumLock!vars, InsideSum
  <2>2. ASSUME NEW t \in Threads, t \notin InsideSum, InsideSum = {}, InsideSum' = InsideSum \cup {t}
        PROVE  SumLock!Enter(t)
    <3>1. Cardinality(InsideSum \cup {}) < 1
      <4>1. InsideSum \cup {} = {}
        BY <2>2
      <4>2. Cardinality({}) = 0
        BY FS_EmptySet
      <4> QED
        BY <4>1, <4>2
    <3>2. t \notin InsideSum \cup {} /\ InsideSum' = InsideSum \cup {t} /\ UNCHANGED {}
      BY <2>2
    <3> QED
      BY <3>1, <3>2, Zenon DEF SumLock!Enter, SumLock!Cardinality, Cardinality, InsideSum
  <2>3. ASSUME NEW t \in Threads, t \in InsideSum, InsideSum' = InsideSum \ {t}
        PROVE  SumLock!Leave(t)
    BY <2>3 DEF SumLock!Leave, InsideSum
  <2> QED
    BY <2>1, <2>2, <2>3 DEF SumLock!Next
<1>1. CASE UNCHANGED pc
  BY <1>0, <1>1 DEF InsideSum
<1>2. ASSUME NEW t \in Threads, SumThread(t), NEW l, pc' = [pc EXCEPT ![t] = l]
      PROVE  /\ Datum(t) # Contended => InsideSum' = InsideSum
             /\ (pc[t] \in InLock <=> l \in InLock) => InsideSum' = InsideSum
             /\ Datum(t) = Contended /\ l \in InLock => InsideSum' = InsideSum \cup {t}
             /\ l \notin InLock => InsideSum' = InsideSum \ {t}
  <2>1. pc'[t] = l /\ \A u \in Threads : u # t => pc'[u] = pc[u]
    BY <1>2
  <2>2. InsideSum' = {u \in Threads : pc'[u] \in InLock /\ Datum(u) = Contended}
    BY <1>0 DEF InsideSum
  <2> QED
    BY <2>1, <2>2 DEF InsideSum
<1>3. ASSUME NEW t \in Threads, SumThread(t)
      PROVE  \/ InsideSum' = InsideSum
             \/ t \notin InsideSum /\ InsideSum = {} /\ InsideSum' = InsideSum \cup {t}
             \/ t \in InsideSum /\ InsideSum' = InsideSum \ {t}
  <2>1. CASE Lock(t)
    <3>1. pc' = [pc EXCEPT ![t] = "load"] /\ pc[t] = "lock" /\ owner[Datum(t)] = 0
      BY <2>1 DEF Lock, To
    <3>2. Datum(t) = Contended => InsideSum = {}
      BY <3>1, OneInside
    <3>3. "load" \in InLock /\ t \notin InsideSum
      BY <3>1 DEF InLock, InsideSum
    <3> QED
      BY <1>2, <1>3, <3>1, <3>2, <3>3
  <2>2. ASSUME NEW next \in {"unlock", "load"}, Add(t, next) PROVE InsideSum' = InsideSum
    <3>1. PICK l \in InLock : pc' = [pc EXCEPT ![t] = l] /\ pc[t] \in InLock
      BY <2>2 DEF Add, To, InLock
    <3> QED
      BY <1>2, <1>3, <3>1
  <2>3. CASE Unlock(t) \/ UnlockChecked(t)
    <3>1. PICK l : pc' = [pc EXCEPT ![t] = l] /\ pc[t] = "unlock" /\ l \in {"done", "lock", "errExit"}
      BY <2>3 DEF Unlock, UnlockChecked, To
    <3>2. l \notin InLock /\ "unlock" \in InLock
      BY <3>1 DEF InLock
    <3>3. Datum(t) = Contended => t \in InsideSum
      BY <3>1, <3>2 DEF InsideSum
    <3> QED
      BY <1>2, <1>3, <3>1, <3>2, <3>3
  <2> QED
    BY <1>3, <2>1, <2>2, <2>3, ThreadActs
<1> QED
  BY <1>1, <1>3 DEF SumNext, SumMain, pthread_sync, pthread_sync_error_checking_mutex,
                    ipc_posix_unnamed_sem, mutex_example, CreateJoinPrint
-----------------------------------------------------------------------------
(* Threads that own things.  What the functions are like: control stays    *)
(* inside a function, and only certain samples allocate, cancel or wait    *)
(* for signals, each at its place.                                         *)
Cancellable == {"pthread_cancellation", "exit_cancel"}
MainOps     == {"create", "join", "cancel", "detach", "mask", "exit", "sleep"}
ThreadOps   == {"malloc", "push", "sleep", "printf", "pop", "free", "loop", "return", "once", "create_key",
                "getspecific", "snprintf", "printbuf", "again", "sigwait", "pthread_kill"}
CleanupCalls == {<<"malloc", 1>>, <<"push", 2>>, <<"sleep", 3>>, <<"printf", 4>>, <<"pop", 5>>, <<"free", 6>>,
                <<"loop", 7>>, <<"return", 8>>}
TsdCalls    == {<<"once", 1>>, <<"create_key", 2>>, <<"getspecific", 3>>, <<"snprintf", 4>>, <<"printbuf", 5>>,
                <<"return", 6>>}
Func(t)     == Lives[sample][t + 1]
MainFits(P, s, n) ==
  /\ 1 \in DOMAIN P
  /\ \A k \in DOMAIN P :
       /\ k \in Nat /\ k # 0 /\ P[k].op \in MainOps
       /\ P[k].op # "exit" => k + 1 \in DOMAIN P
       /\ P[k].op \in {"create", "join", "cancel"} => P[k].of \in 1..n
       /\ P[k].op = "cancel" => s \in Cancellable
       /\ P[k].op = "mask" <=> (s = "pthread_signal" /\ k = 1)
ThreadFits(P, s, t) ==
  /\ 1 \in DOMAIN P
  /\ \A k \in DOMAIN P :
       /\ k \in Nat /\ k # 0 /\ P[k].op \in ThreadOps
       /\ P[k].op \notin {"return", "again", "pthread_kill"} => k + 1 \in DOMAIN P
       /\ P[k].op = "once" => k + 2 \in DOMAIN P
       /\ P[k].op \in {"malloc", "push", "pop", "free"} => s = "pthread_cancellation"
       /\ s = "pthread_cancellation" => <<P[k].op, k>> \in CleanupCalls
       /\ P[k].op \in {"once", "create_key", "getspecific"} => s = "pthread_safe_tsd"
       /\ s = "pthread_safe_tsd" => <<P[k].op, k>> \in TsdCalls
       /\ P[k].op = "sigwait" => s = "pthread_signal" /\ t = 3 /\ k = 1
       /\ P[k].op = "pthread_kill" => s = "pthread_signal" /\ t = 3 /\ k = 2
       /\ P[k].op = "again" => s = "pthread_signal"
       /\ s = "pthread_signal" /\ t = 3 => P[k].op \in {"sigwait", "pthread_kill"}

(* The functions threads are created with.                                 *)
LEMMA ThreadFunctions ==
  /\ ThreadFits(thread_func_cleanup, "pthread_cancellation", 1)
  /\ \A t \in 1..2 : ThreadFits(thread_func_safe_with_tsd, "pthread_safe_tsd", t)
  /\ \A t \in 1..2 : ThreadFits(thread_func_safe_with_tls, "pthread_safe", t)
  /\ \A t \in 1..2 : ThreadFits(thread_worker, "pthread_signal", t)
  /\ ThreadFits(thread_signal_handler, "pthread_signal", 3)
  /\ ThreadFits(thread_func_introduce, "pthread_introduce", 1)
  /\ \A t \in 1..3 : ThreadFits(start_routine_create, "create", t)
  /\ \A t \in 1..2 : ThreadFits(start_routine_exit_cancel, "exit_cancel", t)
<1> USE DEF ThreadFits, ThreadOps, Do
<1>1. ThreadFits(thread_func_cleanup, "pthread_cancellation", 1)
  <2>1. PICK P : P = thread_func_cleanup
    OBVIOUS
  <2>2. DOMAIN P = 1..8
    BY <2>1 DEF thread_func_cleanup
  <2>3. /\ P[1].op = "malloc" /\ P[2].op = "push" /\ P[3].op = "sleep" /\ P[4].op = "printf"
        /\ P[5].op = "pop" /\ P[6].op = "free" /\ P[7].op = "loop" /\ P[8].op = "return"
    BY <2>1 DEF thread_func_cleanup
  <2>4. \A k \in 1..8 : k = 1 \/ k = 2 \/ k = 3 \/ k = 4 \/ k = 5 \/ k = 6 \/ k = 7 \/ k = 8
    OBVIOUS
  <2>6. \A k \in 1..8 : <<P[k].op, k>> \in CleanupCalls
    BY <2>3, <2>4 DEF CleanupCalls
  <2>5. ThreadFits(P, "pthread_cancellation", 1)
    BY <2>2, <2>6 DEF CleanupCalls, TsdCalls
  <2> QED
    BY <2>1, <2>5
<1>2. \A t \in 1..2 : ThreadFits(thread_func_safe_with_tsd, "pthread_safe_tsd", t)
  <2>1. PICK P : P = thread_func_safe_with_tsd
    OBVIOUS
  <2>2. DOMAIN P = 1..6
    BY <2>1 DEF thread_func_safe_with_tsd
  <2>3. /\ P[1].op = "once" /\ P[2].op = "create_key" /\ P[3].op = "getspecific" /\ P[4].op = "snprintf"
        /\ P[5].op = "printbuf" /\ P[6].op = "return"
    BY <2>1 DEF thread_func_safe_with_tsd
  <2>4. \A k \in 1..6 : k = 1 \/ k = 2 \/ k = 3 \/ k = 4 \/ k = 5 \/ k = 6
    OBVIOUS
  <2>6. \A k \in 1..6 : <<P[k].op, k>> \in TsdCalls
    BY <2>3, <2>4 DEF TsdCalls
  <2>5. \A t \in 1..2 : ThreadFits(P, "pthread_safe_tsd", t)
    BY <2>2, <2>6 DEF CleanupCalls, TsdCalls
  <2> QED
    BY <2>1, <2>5
<1>3. \A t \in 1..2 : ThreadFits(thread_func_safe_with_tls, "pthread_safe", t)
  BY DEF thread_func_safe_with_tls
<1>4. \A t \in 1..2 : ThreadFits(thread_worker, "pthread_signal", t)
  BY DEF thread_worker
<1>5. ThreadFits(thread_signal_handler, "pthread_signal", 3)
  BY DEF thread_signal_handler
<1>6. ThreadFits(thread_func_introduce, "pthread_introduce", 1)
  BY DEF thread_func_introduce
<1>7. \A t \in 1..3 : ThreadFits(start_routine_create, "create", t)
  BY DEF start_routine_create
<1>8. \A t \in 1..2 : ThreadFits(start_routine_exit_cancel, "exit_cancel", t)
  BY DEF start_routine_exit_cancel
<1> QED
  BY <1>1, <1>2, <1>3, <1>4, <1>5, <1>6, <1>7, <1>8

(* What main calls in every sample, and whom it creates.                   *)
LEMMA LifePrograms ==
  ASSUME sample \in LifeSamples
  PROVE  \E n \in 1..3 : /\ DOMAIN Lives[sample] = 1..n + 1 /\ MainFits(Func(0), sample, n)
                         /\ \A t \in 1..n : ThreadFits(Func(t), sample, t)
<1> USE ThreadFunctions DEF Lives
<1>1. CASE sample = "pthread_introduce"
  <2>1. PICK P : P = << Create(1), Join(1), Do("exit") >>
    OBVIOUS
  <2>2. MainFits(P, sample, 1)
    BY <1>1, <2>1 DEF MainFits, MainOps, Cancellable, Create, Join, Do
  <2>3. Lives[sample] = << P, thread_func_introduce >>
    BY <1>1, <2>1 DEF pthread_introduce
  <2>4. DOMAIN Lives[sample] = 1..1 + 1 /\ Func(0) = P /\ Func(1) = thread_func_introduce /\ 1..1 = {1}
    BY <2>3 DEF Func
  <2> QED
    BY <1>1, <2>2, <2>4
<1>2. CASE sample = "pthread_cancellation"
  <2>1. PICK P : P = << Create(1), Do("sleep"), Cancel(1), Join(1), Do("exit") >>
    OBVIOUS
  <2>2. MainFits(P, sample, 1)
    BY <1>2, <2>1 DEF MainFits, MainOps, Cancellable, Create, Join, Cancel, Do
  <2>3. Lives[sample] = << P, thread_func_cleanup >>
    BY <1>2, <2>1 DEF pthread_cancellation
  <2>4. DOMAIN Lives[sample] = 1..1 + 1 /\ Func(0) = P /\ Func(1) = thread_func_cleanup /\ 1..1 = {1}
    BY <2>3 DEF Func
  <2> QED
    BY <1>2, <2>2, <2>4
<1>3. CASE sample \in {"pthread_safe_tsd", "pthread_safe"}
  <2>1. PICK P : P = << Create(1), Create(2), Join(1), Join(2), Do("exit") >>
    OBVIOUS
  <2>2. MainFits(P, sample, 2)
    BY <1>3, <2>1 DEF MainFits, MainOps, Cancellable, Create, Join, Do
  <2>3. PICK f : /\ f = IF sample = "pthread_safe" THEN thread_func_safe_with_tls ELSE thread_func_safe_with_tsd
                 /\ Lives[sample] = << P, f, f >>
    BY <1>3, <2>1 DEF pthread_safe
  <2>4. DOMAIN Lives[sample] = 1..2 + 1 /\ Func(0) = P /\ Func(1) = f /\ Func(2) = f /\ 1..2 = {1, 2}
    BY <2>3 DEF Func
  <2>5. \A t \in 1..2 : ThreadFits(f, sample, t)
    BY <1>3, <2>3
  <2> QED
    BY <2>2, <2>4, <2>5
<1>4. CASE sample = "pthread_signal"
  <2>1. PICK P : P = << Do("mask"), Create(1), Create(2), Create(3), Join(1), Join(2), Join(3), Do("exit") >>
    OBVIOUS
  <2>2. MainFits(P, sample, 3)
    BY <1>4, <2>1 DEF MainFits, MainOps, Cancellable, Create, Join, Do
  <2>3. Lives[sample] = << P, thread_worker, thread_worker, thread_signal_handler >>
    BY <1>4, <2>1 DEF pthread_signal
  <2>4. /\ DOMAIN Lives[sample] = 1..3 + 1 /\ Func(0) = P /\ Func(1) = thread_worker
        /\ Func(2) = thread_worker /\ Func(3) = thread_signal_handler /\ 1..3 = {1, 2, 3} /\ 1..2 = {1, 2}
    BY <2>3 DEF Func
  <2> QED
    BY <1>4, <2>2, <2>4
<1>5. CASE sample = "create"
  <2>1. PICK P : P = << Create(1), Create(2), Create(3), Join(1), Join(2), Do("detach"), Do("exit") >>
    OBVIOUS
  <2>2. MainFits(P, sample, 3)
    BY <1>5, <2>1 DEF MainFits, MainOps, Cancellable, Create, Join, Do
  <2>3. Lives[sample] = << P, start_routine_create, start_routine_create, start_routine_create >>
    BY <1>5, <2>1 DEF create
  <2>4. /\ DOMAIN Lives[sample] = 1..3 + 1 /\ Func(0) = P /\ 1..3 = {1, 2, 3}
        /\ \A t \in {1, 2, 3} : Func(t) = start_routine_create
    BY <2>3 DEF Func
  <2> QED
    BY <1>5, <2>2, <2>4
<1>6. CASE sample = "exit_cancel"
  <2>1. PICK P : P = << Create(1), Create(2), Do("sleep"), Cancel(1), Join(2), Do("exit") >>
    OBVIOUS
  <2>2. MainFits(P, sample, 2)
    BY <1>6, <2>1 DEF MainFits, MainOps, Cancellable, Create, Join, Cancel, Do
  <2>3. Lives[sample] = << P, start_routine_exit_cancel, start_routine_exit_cancel >>
    BY <1>6, <2>1 DEF exit_cancel
  <2>4. /\ DOMAIN Lives[sample] = 1..2 + 1 /\ Func(0) = P /\ 1..2 = {1, 2}
        /\ \A t \in {1, 2} : Func(t) = start_routine_exit_cancel
    BY <2>3 DEF Func
  <2> QED
    BY <1>6, <2>2, <2>4
<1> QED
  BY <1>1, <1>2, <1>3, <1>4, <1>5, <1>6 DEF LifeSamples

(* What a thread owns, given where it is; who may be canceled, and what it *)
(* has to say.                                                             *)
Tallies == Nat
ThreadRec == [st : {"none", "run", "over"}, pc : Tallies, turn : Tallies, req : BOOLEAN, blocked : BOOLEAN,
              arr : BOOLEAN, push : BOOLEAN, allocs : Tallies, frees : Tallies, buf : Owners, said : Owners]
Holds(t, r) ==
  /\ t # 0 /\ r.st = "run" /\ r.arr
  /\ \/ sample = "pthread_cancellation" /\ r.pc \in 2..6
     \/ sample = "pthread_safe_tsd" /\ r.pc \in 4..6
InFunc(t, r) == sample \in LifeSamples /\ r.st = "run" => t + 1 \in DOMAIN Lives[sample] /\ r.pc \in DOMAIN Func(t)
Counted(t, r) ==
  /\ r.allocs = (IF Holds(t, r) THEN r.frees + 1 ELSE r.frees)
  /\ r.turn < NumTurns /\ r.allocs <= (IF r.pc > 1 THEN r.turn + 1 ELSE r.turn)
  /\ sample \notin {"pthread_cancellation", "pthread_safe_tsd"} => r.allocs = 0
  /\ sample = "pthread_safe_tsd" /\ r.st = "run" => r.frees = 0
Guarded(t, r) ==
  /\ r.push => t # 0 /\ sample = "pthread_cancellation"
  /\ sample = "pthread_cancellation" /\ t # 0 /\ r.st = "run" => (r.push <=> r.pc \in 3..5)
  /\ r.req => sample \in Cancellable
OwnWords(t, r) == r.buf \in {0, t} /\ r.said \in {0, t}
Clean(t, r) == r \in ThreadRec /\ InFunc(t, r) /\ Counted(t, r) /\ Guarded(t, r) /\ OwnWords(t, r)
AllClean == th \in [Owners -> ThreadRec] /\ \A t \in Owners : Clean(t, th[t])

AtKey(t) == sample = "pthread_safe_tsd" /\ t # 0 /\ th[t].st = "run" /\ th[t].pc = 2
OneKey ==
  /\ once \in {"never", "called", "done"} /\ keys \in 0..1 /\ (once # "done" => keys = 0)
  /\ \A t \in Owners : AtKey(t) => once = "called"
  /\ \A t, u \in Owners : AtKey(t) /\ AtKey(u) => t = u
Masked ==
  /\ proc \in {"run", "exit", "errExit", "killed"} /\ pending \in {"no", "pending", "taken"}
  /\ sample = "pthread_signal" =>
       /\ th[0].pc = 1 => \A t \in Owners : t # 0 => th[t].st # "run"
       /\ th[0].pc # 1 => \A t \in Owners : th[t].st = "run" => th[t].blocked
       /\ th[3].st = "run" /\ th[3].pc = 2 => pending = "taken"
LifeInv == AllClean /\ OneKey /\ Masked /\ OnlySigwait

(* Where a running thread is, and what that tells.                         *)
LEMMA OpFacts ==
  ASSUME AllClean, sample \in LifeSamples, NEW t \in Owners, th[t].st = "run", NEW o, o = Now(t).op
  PROVE  /\ th[t].pc \in Nat /\ th[t].pc # 0 /\ Now(t) = Func(t)[th[t].pc] /\ o \in MainOps \cup ThreadOps
         /\ 1 \in DOMAIN Func(t)
         /\ o \notin {"return", "again", "pthread_kill", "exit"} => th[t].pc + 1 \in DOMAIN Func(t)
         /\ o = "once" => th[t].pc + 2 \in DOMAIN Func(t)
         /\ t = 0 <=> (o \notin ThreadOps \/ (t = 0 /\ o = "sleep"))
         /\ t = 0 => o \in MainOps
         /\ o \in {"create", "join", "cancel"} =>
              Now(t).of \in 1..3 /\ Now(t).of + 1 \in DOMAIN Lives[sample] /\ 1 \in DOMAIN Func(Now(t).of)
         /\ o = "cancel" => sample \in Cancellable
         /\ o = "mask" <=> (t = 0 /\ sample = "pthread_signal" /\ th[t].pc = 1)
         /\ t # 0 =>
              /\ o \in {"malloc", "push", "pop", "free"} => sample = "pthread_cancellation"
              /\ sample = "pthread_cancellation" => <<o, th[t].pc>> \in CleanupCalls
              /\ o \in {"once", "create_key", "getspecific"} => sample = "pthread_safe_tsd"
              /\ sample = "pthread_safe_tsd" => <<o, th[t].pc>> \in TsdCalls
              /\ o = "sigwait" => sample = "pthread_signal" /\ t = 3 /\ th[t].pc = 1
              /\ o = "pthread_kill" => sample = "pthread_signal" /\ t = 3 /\ th[t].pc = 2
              /\ o = "again" => sample = "pthread_signal"
              /\ sample = "pthread_signal" /\ t = 3 => o \in {"sigwait", "pthread_kill"}
<1>1. PICK n \in 1..3 : /\ DOMAIN Lives[sample] = 1..n + 1 /\ MainFits(Func(0), sample, n)
                        /\ \A u \in 1..n : ThreadFits(Func(u), sample, u)
  BY LifePrograms
<1>2. t + 1 \in 1..n + 1 /\ th[t].pc \in DOMAIN Func(t) /\ Now(t) = Func(t)[th[t].pc]
  BY <1>1 DEF AllClean, Clean, InFunc, Now, Func
<1>3. t \in 0..n /\ (t # 0 => t \in 1..n)
  BY <1>2 DEF Owners
<1>4. th[t].pc \in Nat
  BY DEF AllClean, ThreadRec, Tallies
<1>5. PICK P : P = Func(t)
  OBVIOUS
<1>6. \A u \in 1..n : u + 1 \in DOMAIN Lives[sample] /\ u \in 1..3 /\ 1 \in DOMAIN Func(u)
  BY <1>1 DEF ThreadFits
<1>7. CASE t = 0
  <2>1. MainFits(P, sample, n)
    BY <1>1, <1>5, <1>7
  <2> QED
    BY <1>2, <1>4, <1>5, <1>6, <1>7, <2>1 DEF MainFits, MainOps, ThreadOps
<1>8. CASE t # 0
  <2>1. ThreadFits(P, sample, t)
    BY <1>1, <1>3, <1>5, <1>8
  <2> QED
    BY <1>2, <1>4, <1>5, <1>8, <2>1 DEF ThreadFits, MainOps, ThreadOps
<1> QED
  BY <1>7, <1>8

(* Nothing but main exists at first.                                       *)
LEMMA LifeInitHolds == LifeInit => LifeInv
<1> SUFFICES ASSUME LifeInit PROVE LifeInv
  OBVIOUS
<1>0. 0 \in Tallies /\ 1 \in Tallies /\ 0 \in Owners
  BY DEF Tallies, Owners
<1>1. /\ th \in [Owners -> ThreadRec]
      /\ \A t \in Owners :
           /\ th[t].st = (IF t = 0 THEN "run" ELSE "none") /\ th[t].pc = 1 /\ th[t].turn = 0 /\ ~th[t].req
           /\ ~th[t].push /\ ~th[t].arr /\ th[t].allocs = 0 /\ th[t].frees = 0 /\ th[t].buf = 0 /\ th[t].said = 0
  BY <1>0 DEF LifeInit, NoThread, ThreadRec
<1>2. ASSUME NEW t \in Owners PROVE Clean(t, th[t])
  <2>1. PICK r : r = th[t]
    OBVIOUS
  <2>2. /\ r \in ThreadRec /\ (r.st = "run" => t = 0) /\ r.pc = 1 /\ r.turn = 0 /\ ~r.req /\ ~r.push /\ ~r.arr
        /\ r.allocs = 0 /\ r.frees = 0 /\ r.buf = 0 /\ r.said = 0
    BY <1>1, <2>1
  <2>3. InFunc(t, r)
    <3> SUFFICES ASSUME sample \in LifeSamples, t = 0 PROVE t + 1 \in DOMAIN Lives[sample] /\ 1 \in DOMAIN Func(t)
      BY <2>2 DEF InFunc
    <3> QED
      BY LifePrograms DEF MainFits
  <2>4. Counted(t, r)
    <3>1. ~Holds(t, r)
      BY <2>2 DEF Holds
    <3> QED
      BY <2>2, <3>1, NumTurnsAssumption DEF Counted
  <2>5. Guarded(t, r)
    BY <2>2 DEF Guarded
  <2> QED
    BY <2>1, <2>2, <2>3, <2>4, <2>5 DEF Clean, OwnWords
<1>3. OneKey
  <2>1. \A t \in Owners : ~AtKey(t)
    BY <1>1 DEF AtKey
  <2>2. keys \in 0..1 /\ keys = 0 /\ once = "never"
    BY DEF LifeInit
  <2> QED
    BY <2>1, <2>2 DEF OneKey
<1>4. Masked /\ OnlySigwait
  BY <1>1 DEF LifeInit, Masked, OnlySigwait, Owners
<1> QED
  BY <1>1, <1>2, <1>3, <1>4 DEF LifeInv, AllClean

(* The sample does not change, so neither does what is clean.              *)
LEMMA CleanNext ==
  ASSUME sample' = sample, th' \in [Owners -> ThreadRec], \A u \in Owners : Clean(u, th'[u])
  PROVE  AllClean'
<1>1. \A u \in Owners : Clean(u, th[u])'
  BY DEF Clean, InFunc, Func, Counted, Holds, Guarded, OwnWords
<1> QED
  BY <1>1 DEF AllClean

(* A thread's own step.                                                    *)
LEMMA OwnStep ==
  ASSUME AllClean, sample' = sample, NEW t \in Owners, NEW r, th' = [th EXCEPT ![t] = r], Clean(t, r)
  PROVE  AllClean' /\ th'[t] = r /\ \A u \in Owners : u # t => th'[u] = th[u]
<1>1. r \in ThreadRec /\ th \in [Owners -> ThreadRec]
  BY DEF Clean, AllClean
<1>2. th' \in [Owners -> ThreadRec] /\ th'[t] = r /\ \A u \in Owners : u # t => th'[u] = th[u]
  BY <1>1
<1>3. \A u \in Owners : Clean(u, th'[u])
  BY <1>2 DEF AllClean
<1> QED
  BY <1>2, <1>3, CleanNext

(* A thread goes to its next call and keeps what it has.                   *)
LEMMA GoesOn ==
  ASSUME AllClean, sample \in LifeSamples, NEW t \in Owners, th[t].st = "run", NEW o, o = Now(t).op,
         o \notin {"malloc", "push", "pop", "free", "getspecific", "loop", "return", "again", "pthread_kill", "exit"},
         NEW r \in ThreadRec, r.st = "run", r.turn = th[t].turn, r.allocs = th[t].allocs, r.frees = th[t].frees,
         r.req <=> th[t].req, r.arr <=> th[t].arr, r.push <=> th[t].push, r.buf \in {0, t}, r.said \in {0, t},
         r.pc = th[t].pc + 1 \/ (o = "once" /\ r.pc = th[t].pc + 2)
  PROVE  Clean(t, r)
<1>1. Counted(t, th[t]) /\ Guarded(t, th[t])
  BY DEF AllClean, Clean
<1>2. th[t].pc \in Nat /\ th[t].pc # 0 /\ r.pc \in DOMAIN Func(t)
  BY OpFacts
<1>3. InFunc(t, r)
  BY <1>2 DEF InFunc, AllClean, Clean
<1>4. /\ sample = "pthread_cancellation" /\ t # 0 => th[t].pc \in {3, 4} /\ r.pc = th[t].pc + 1
      /\ sample = "pthread_safe_tsd" /\ t # 0 =>
           \/ th[t].pc \in {1, 2} /\ r.pc \in {2, 3}
           \/ th[t].pc \in {4, 5} /\ r.pc = th[t].pc + 1
  <2>1. sample = "pthread_cancellation" /\ t # 0 => <<o, th[t].pc>> \in CleanupCalls
    BY OpFacts
  <2>2. sample = "pthread_safe_tsd" /\ t # 0 => <<o, th[t].pc>> \in TsdCalls
    BY OpFacts
  <2> QED
    BY <2>1, <2>2 DEF CleanupCalls, TsdCalls
<1>5. Holds(t, r) <=> Holds(t, th[t])
  BY <1>4 DEF Holds
<1>6. Counted(t, r)
  <2>1. r.pc > 1
    BY <1>2
  <2>4. th[t].turn \in Nat /\ th[t].allocs \in Nat
    BY DEF AllClean, ThreadRec, Tallies
  <2>2. r.allocs = (IF Holds(t, r) THEN r.frees + 1 ELSE r.frees)
    BY <1>1, <1>5 DEF Counted
  <2>3. r.turn < NumTurns /\ r.allocs <= r.turn + 1
    BY <1>1, <2>1, <2>4, NumTurnsAssumption DEF Counted
  <2> QED
    BY <1>1, <2>1, <2>2, <2>3 DEF Counted
<1>7. Guarded(t, r)
  BY <1>1, <1>4 DEF Guarded
<1> QED
  BY <1>3, <1>6, <1>7 DEF Clean, OwnWords

(* arr = malloc(100), or the buffer that getspecific allocates.            *)
LEMMA AllocStep ==
  ASSUME AllClean, sample \in LifeSamples, NEW t \in Owners, Malloc(t) \/ Getspecific(t)
  PROVE  /\ AllClean' /\ t # 0 /\ sample # "pthread_signal" /\ (sample = "pthread_safe_tsd" => th'[t].pc = 4)
         /\ \A u \in Owners : u # t => th'[u] = th[u]
<1>1. th[t].st = "run" /\ sample' = sample /\ Now(t).op \in {"malloc", "getspecific"} /\ th[t] \in ThreadRec
  BY DEF Malloc, Getspecific, Runs, Alone, AllClean
<1>2. PICK o : o = Now(t).op
  OBVIOUS
<1>3. /\ th[t].pc \in Nat /\ th[t].pc # 0 /\ th[t].pc + 1 \in DOMAIN Func(t) /\ t # 0
      /\ \/ o = "malloc" /\ sample = "pthread_cancellation" /\ th[t].pc = 1
         \/ o = "getspecific" /\ sample = "pthread_safe_tsd" /\ th[t].pc = 3
  <2>1. o \in {"malloc", "getspecific"}
    BY <1>1, <1>2
  <2>2. t # 0
    BY <1>1, <1>2, <2>1, OpFacts DEF MainOps
  <2>3. /\ th[t].pc \in Nat /\ th[t].pc # 0 /\ th[t].pc + 1 \in DOMAIN Func(t)
        /\ o = "malloc" => sample = "pthread_cancellation" /\ <<o, th[t].pc>> \in CleanupCalls
        /\ o = "getspecific" => sample = "pthread_safe_tsd" /\ <<o, th[t].pc>> \in TsdCalls
    BY <1>1, <1>2, <2>1, <2>2, OpFacts
  <2> QED
    BY <2>1, <2>2, <2>3 DEF CleanupCalls, TsdCalls
<1>4. PICK k \in Tallies, a \in Tallies : k = th[t].pc + 1 /\ a = th[t].allocs + 1
  BY <1>1 DEF ThreadRec, Tallies
<1>5. PICK r : /\ th' = [th EXCEPT ![t] = r]
               /\ \/ r = [th[t] EXCEPT !.arr = TRUE, !.allocs = a, !.pc = k]
                  \/ o = "malloc" /\ r = [th[t] EXCEPT !.arr = FALSE, !.pc = k]
  <2>1. CASE Getspecific(t)
    BY <1>1, <1>4, <2>1 DEF Getspecific, Turns, On, ThreadRec
  <2>2. CASE Malloc(t)
    BY <1>1, <1>2, <1>4, <2>2 DEF Malloc, Runs, Turns, On, ThreadRec
  <2> QED
    BY <2>1, <2>2
<1>6. /\ r \in ThreadRec /\ r.st = "run" /\ r.pc = k /\ r.turn = th[t].turn /\ r.frees = th[t].frees
      /\ (r.req <=> th[t].req) /\ (r.push <=> th[t].push) /\ r.buf = th[t].buf /\ r.said = th[t].said
      /\ \/ r.arr /\ r.allocs = a
         \/ o = "malloc" /\ ~r.arr /\ r.allocs = th[t].allocs
  BY <1>1, <1>4, <1>5 DEF ThreadRec
<1>7. Counted(t, th[t]) /\ Guarded(t, th[t]) /\ OwnWords(t, th[t]) /\ InFunc(t, th[t])
  BY DEF AllClean, Clean
<1>8. ~Holds(t, th[t]) /\ (Holds(t, r) <=> r.arr)
  BY <1>3, <1>4, <1>6 DEF Holds
<1>9. Counted(t, r)
  <2>1. th[t].allocs \in Nat /\ th[t].frees \in Nat /\ th[t].turn \in Nat
    BY <1>1 DEF ThreadRec, Tallies
  <2>2. th[t].allocs = th[t].frees
    BY <1>7, <1>8 DEF Counted
  <2>3. th[t].allocs <= th[t].turn
    BY <1>1, <1>3, <1>7, <2>1, <2>2 DEF Counted
  <2>4. r.pc > 1
    BY <1>3, <1>4, <1>6
  <2>5. r.allocs = (IF Holds(t, r) THEN r.frees + 1 ELSE r.frees)
    BY <1>4, <1>6, <1>8, <2>2
  <2>6. r.turn < NumTurns /\ r.allocs <= r.turn + 1
    <3>1. r.turn < NumTurns
      BY <1>6, <1>7 DEF Counted
    <3>2. r.allocs <= r.turn + 1
      BY <1>4, <1>6, <2>1, <2>3
    <3> QED
      BY <3>1, <3>2
  <2>7. sample = "pthread_safe_tsd" => r.frees = 0
    BY <1>1, <1>6, <1>7 DEF Counted
  <2> QED
    BY <1>3, <2>4, <2>5, <2>6, <2>7 DEF Counted
<1>10. Guarded(t, r) /\ OwnWords(t, r) /\ InFunc(t, r)
  <2>1. Guarded(t, r)
    BY <1>1, <1>3, <1>4, <1>6, <1>7 DEF Guarded
  <2>2. OwnWords(t, r)
    BY <1>6, <1>7 DEF OwnWords
  <2>3. InFunc(t, r)
    BY <1>1, <1>3, <1>4, <1>6, <1>7 DEF InFunc
  <2> QED
    BY <2>1, <2>2, <2>3
<1>11. /\ AllClean' /\ th'[t] = r /\ \A u \in Owners : u # t => th'[u] = th[u]
  BY <1>1, <1>5, <1>6, <1>9, <1>10, OwnStep DEF Clean
<1> QED
  BY <1>3, <1>4, <1>6, <1>11

(* The handler is pushed before the first cancellation point, and popped   *)
(* after the last; then arr is freed.                                      *)
LEMMA HandlerStep ==
  ASSUME AllClean, sample \in LifeSamples, NEW t \in Owners, CleanupPush(t) \/ CleanupPop(t) \/ FreeArr(t)
  PROVE  AllClean' /\ t # 0 /\ sample = "pthread_cancellation" /\ \A u \in Owners : u # t => th'[u] = th[u]
<1>1. th[t].st = "run" /\ sample' = sample /\ Now(t).op \in {"push", "pop", "free"} /\ th[t] \in ThreadRec
  BY DEF CleanupPush, CleanupPop, FreeArr, Runs, Alone, AllClean
<1>2. PICK o : o = Now(t).op
  OBVIOUS
<1>3. /\ th[t].pc \in Nat /\ th[t].pc + 1 \in DOMAIN Func(t) /\ t # 0 /\ sample = "pthread_cancellation"
      /\ <<o, th[t].pc>> \in {<<"push", 2>>, <<"pop", 5>>, <<"free", 6>>}
  <2>1. o \in {"push", "pop", "free"}
    BY <1>1, <1>2
  <2>2. t # 0
    BY <1>1, <1>2, <2>1, OpFacts DEF MainOps
  <2>3. /\ th[t].pc \in Nat /\ th[t].pc + 1 \in DOMAIN Func(t) /\ sample = "pthread_cancellation"
        /\ <<o, th[t].pc>> \in CleanupCalls
    BY <1>1, <1>2, <2>1, <2>2, OpFacts
  <2> QED
    BY <2>1, <2>2, <2>3 DEF CleanupCalls
<1>4. PICK k \in Tallies, f \in Tallies :
        k = th[t].pc + 1 /\ f = IF o = "free" /\ th[t].arr THEN th[t].frees + 1 ELSE th[t].frees
  BY <1>1 DEF ThreadRec, Tallies
<1>5. PICK b \in BOOLEAN : b <=> IF o = "free" THEN th[t].push ELSE o = "push"
  OBVIOUS
<1>6. PICK r : th' = [th EXCEPT ![t] = r] /\ r = [th[t] EXCEPT !.push = b, !.frees = f, !.pc = k]
  <2>1. CASE CleanupPush(t)
    BY <1>1, <1>2, <1>4, <1>5, <2>1 DEF CleanupPush, Runs, Turns, On, ThreadRec
  <2>2. CASE CleanupPop(t)
    BY <1>1, <1>2, <1>4, <1>5, <2>2 DEF CleanupPop, Runs, Turns, On, ThreadRec
  <2>3. CASE FreeArr(t)
    BY <1>1, <1>2, <1>4, <1>5, <2>3 DEF FreeArr, Freed, Runs, Turns, On, ThreadRec
  <2> QED
    BY <2>1, <2>2, <2>3
<1>7. /\ r \in ThreadRec /\ r.st = "run" /\ r.pc = k /\ r.turn = th[t].turn /\ r.frees = f
      /\ (r.req <=> th[t].req) /\ (r.push <=> b) /\ r.buf = th[t].buf /\ r.said = th[t].said
      /\ (r.arr <=> th[t].arr) /\ r.allocs = th[t].allocs
  BY <1>1, <1>4, <1>5, <1>6 DEF ThreadRec
<1>8. Counted(t, th[t]) /\ Guarded(t, th[t]) /\ OwnWords(t, th[t]) /\ InFunc(t, th[t])
  BY DEF AllClean, Clean
<1>9. (Holds(t, th[t]) <=> th[t].arr) /\ (Holds(t, r) <=> th[t].arr /\ o # "free")
  BY <1>1, <1>3, <1>4, <1>7 DEF Holds
<1>10. Counted(t, r)
  <2>1. th[t].allocs \in Nat /\ th[t].frees \in Nat /\ th[t].turn \in Nat
    BY <1>1 DEF ThreadRec, Tallies
  <2>2. r.pc > 1 /\ th[t].pc > 1
    BY <1>3, <1>4, <1>7
  <2>3. r.allocs = (IF Holds(t, r) THEN r.frees + 1 ELSE r.frees)
    BY <1>4, <1>7, <1>8, <1>9 DEF Counted
  <2>4. r.turn < NumTurns /\ r.allocs <= r.turn + 1
    BY <1>7, <1>8, <2>2 DEF Counted
  <2> QED
    BY <1>3, <2>2, <2>3, <2>4 DEF Counted
<1>11. Guarded(t, r) /\ OwnWords(t, r) /\ InFunc(t, r)
  <2>1. Guarded(t, r)
    <3>1. r.pc \in 3..5 <=> o = "push"
      BY <1>3, <1>4, <1>7
    <3>2. r.push <=> o = "push"
      BY <1>1, <1>3, <1>5, <1>7, <1>8 DEF Guarded
    <3> QED
      BY <1>3, <1>7, <1>8, <3>1, <3>2 DEF Guarded
  <2>2. OwnWords(t, r)
    BY <1>7, <1>8 DEF OwnWords
  <2>3. InFunc(t, r)
    BY <1>1, <1>3, <1>4, <1>7, <1>8 DEF InFunc
  <2> QED
    BY <2>1, <2>2, <2>3
<1>12. AllClean' /\ \A u \in Owners : u # t => th'[u] = th[u]
  BY <1>1, <1>6, <1>7, <1>10, <1>11, OwnStep DEF Clean
<1> QED
  BY <1>3, <1>12

(* However a thread ends, what it has allocated is freed.                  *)
LEMMA EndStep ==
  ASSUME AllClean, sample \in LifeSamples, NEW t \in Owners, Canceled(t) \/ Return(t)
  PROVE  AllClean' /\ th'[t].st = "over" /\ th'[t].pc = th[t].pc /\ \A u \in Owners : u # t => th'[u] = th[u]
<1>1. th[t].st = "run" /\ sample' = sample /\ Now(t).op \in CancellationPoints \cup {"return"} /\ th[t] \in ThreadRec
  BY DEF Canceled, Return, Runs, Alone, AllClean
<1>2. PICK o : o = Now(t).op
  OBVIOUS
<1>3. Counted(t, th[t]) /\ Guarded(t, th[t]) /\ OwnWords(t, th[t])
  BY DEF AllClean, Clean
<1>4. th[t].pc \in Nat /\ th[t].allocs \in Nat /\ th[t].frees \in Nat /\ th[t].turn \in Nat
  BY <1>1 DEF ThreadRec, Tallies
<1>5. PICK b \in BOOLEAN : b <=> IF Canceled(t) THEN th[t].push ELSE sample = "pthread_safe_tsd"
  OBVIOUS
<1>6. Holds(t, th[t]) => b
  <2> SUFFICES ASSUME Holds(t, th[t]) PROVE b
    OBVIOUS
  <2>1. t # 0 /\ \/ sample = "pthread_cancellation" /\ th[t].pc \in 2..6
                 \/ sample = "pthread_safe_tsd" /\ th[t].pc \in 4..6
    BY DEF Holds
  <2>2. CASE Canceled(t)
    <3>1. th[t].req /\ o \in CancellationPoints
      BY <1>2, <2>2 DEF Canceled, Runs
    <3>2. sample = "pthread_cancellation"
      BY <1>3, <2>1, <3>1 DEF Guarded, Cancellable
    <3>3. <<o, th[t].pc>> \in CleanupCalls
      BY <1>1, <1>2, <2>1, <3>2, OpFacts
    <3>4. th[t].pc \in 3..5
      BY <3>1, <3>3 DEF CleanupCalls, CancellationPoints
    <3> QED
      BY <1>1, <1>3, <1>5, <2>1, <2>2, <3>2, <3>4 DEF Guarded
  <2>3. CASE ~Canceled(t)
    <3>1. o = "return"
      BY <1>2, <2>3 DEF Return, Runs
    <3>2. sample # "pthread_cancellation"
      <4> SUFFICES ASSUME sample = "pthread_cancellation" PROVE FALSE
        OBVIOUS
      <4>1. <<o, th[t].pc>> \in CleanupCalls
        BY <1>1, <1>2, <2>1, OpFacts
      <4> QED
        BY <2>1, <3>1, <4>1 DEF CleanupCalls
    <3> QED
      BY <1>5, <2>1, <2>3, <3>2
  <2> QED
    BY <2>2, <2>3
<1>7. b /\ th[t].arr => Holds(t, th[t])
  <2> SUFFICES ASSUME b, th[t].arr PROVE Holds(t, th[t])
    OBVIOUS
  <2>1. CASE Canceled(t)
    <3>1. t # 0 /\ sample = "pthread_cancellation" /\ th[t].pc \in 3..5
      BY <1>1, <1>3, <1>5, <2>1 DEF Guarded
    <3> QED
      BY <1>1, <3>1 DEF Holds
  <2>2. CASE ~Canceled(t)
    <3>1. o = "return" /\ sample = "pthread_safe_tsd"
      BY <1>2, <1>5, <2>2 DEF Return, Runs
    <3>2. t # 0
      BY <1>1, <1>2, <3>1, OpFacts DEF MainOps
    <3>3. <<o, th[t].pc>> \in TsdCalls
      BY <1>1, <1>2, <3>1, <3>2, OpFacts
    <3>4. th[t].pc = 6
      BY <3>1, <3>3 DEF TsdCalls
    <3> QED
      BY <1>1, <3>1, <3>2, <3>4 DEF Holds
  <2> QED
    BY <2>1, <2>2
<1>8. PICK f \in Tallies : f = IF b /\ th[t].arr THEN th[t].frees + 1 ELSE th[t].frees
  BY <1>4 DEF Tallies
<1>9. PICK c \in BOOLEAN : c <=> th[t].push /\ ~Canceled(t)
  OBVIOUS
<1>10. PICK r : th' = [th EXCEPT ![t] = r] /\ r = [th[t] EXCEPT !.push = c, !.frees = f, !.st = "over"]
  <2>1. CASE Canceled(t)
    <3>1. CASE th[t].push
      BY <1>1, <1>5, <1>8, <1>9, <2>1, <3>1 DEF Canceled, Turns, cleanup_func, Freed, ThreadRec
    <3>2. CASE ~th[t].push
      BY <1>1, <1>5, <1>8, <1>9, <2>1, <3>2 DEF Canceled, Turns, ThreadRec
    <3> QED
      BY <3>1, <3>2
  <2>2. CASE ~Canceled(t)
    <3>1. Return(t)
      BY <2>2
    <3>4. th[t].push \in BOOLEAN
      BY <1>1 DEF ThreadRec
    <3>5. c = th[t].push
      BY <1>9, <2>2, <3>4, Zenon
    <3>6. th[t] = [th[t] EXCEPT !.push = c]
      BY <1>1, <3>5 DEF ThreadRec
    <3>2. CASE b
      <4>1. sample = "pthread_safe_tsd"
        BY <1>5, <2>2, <3>2
      <4>2. th' = [th EXCEPT ![t] = [[th[t] EXCEPT !.frees = f] EXCEPT !.st = "over"]]
        BY <1>8, <3>1, <3>2, <4>1 DEF Return, Turns, destructor, Freed
      <4> QED
        BY <1>1, <3>5, <4>2 DEF ThreadRec
    <3>3. CASE ~b
      <4>1. sample # "pthread_safe_tsd"
        BY <1>5, <2>2, <3>3
      <4>2. th' = [th EXCEPT ![t] = [th[t] EXCEPT !.st = "over"]] /\ f = th[t].frees
        BY <1>8, <3>1, <3>3, <4>1 DEF Return, Turns, destructor
      <4> QED
        BY <1>1, <3>5, <4>2 DEF ThreadRec
    <3> QED
      BY <3>2, <3>3
  <2> QED
    BY <2>1, <2>2
<1>11. /\ r \in ThreadRec /\ r.st = "over" /\ r.pc = th[t].pc /\ r.turn = th[t].turn /\ r.frees = f
       /\ (r.req <=> th[t].req) /\ (r.push => th[t].push) /\ r.buf = th[t].buf /\ r.said = th[t].said
       /\ r.allocs = th[t].allocs
  BY <1>1, <1>8, <1>9, <1>10 DEF ThreadRec
<1>12. Counted(t, r)
  <2>1. ~Holds(t, r)
    BY <1>11 DEF Holds
  <2>2. r.allocs = r.frees
    <3>1. CASE Holds(t, th[t])
      BY <1>3, <1>6, <1>8, <1>11, <3>1 DEF Counted, Holds
    <3>2. CASE ~Holds(t, th[t])
      BY <1>3, <1>7, <1>8, <1>11, <3>2 DEF Counted
    <3> QED
      BY <3>1, <3>2
  <2>3. r.turn < NumTurns /\ r.allocs <= (IF r.pc > 1 THEN r.turn + 1 ELSE r.turn)
    BY <1>3, <1>11 DEF Counted
  <2>4. sample \notin {"pthread_cancellation", "pthread_safe_tsd"} => r.allocs = 0
    BY <1>3, <1>11 DEF Counted
  <2> QED
    BY <1>11, <2>1, <2>2, <2>3, <2>4 DEF Counted
<1>13. Guarded(t, r)
  BY <1>3, <1>11 DEF Guarded
<1>14. OwnWords(t, r) /\ InFunc(t, r)
  BY <1>3, <1>11 DEF OwnWords, InFunc
<1> QED
  BY <1>1, <1>10, <1>11, <1>12, <1>13, <1>14, OwnStep DEF Clean

(* The next turn of a loop.                                                *)
LEMMA LoopStep ==
  ASSUME AllClean, sample \in LifeSamples, NEW t \in Owners, Loop(t) \/ WorkAgain(t)
  PROVE  /\ AllClean' /\ t # 0 /\ sample # "pthread_safe_tsd" /\ th'[t].st = "run"
         /\ th[t].blocked => th'[t].blocked
         /\ sample = "pthread_signal" => t # 3
         /\ \A u \in Owners : u # t => th'[u] = th[u]
<1>1. th[t].st = "run" /\ sample' = sample /\ Now(t).op \in {"loop", "again"} /\ th[t] \in ThreadRec
  BY DEF Loop, WorkAgain, Runs, Alone, AllClean
<1>2. PICK o : o = Now(t).op
  OBVIOUS
<1>3. o \in {"loop", "again"}
  BY <1>1, <1>2
<1>4. t # 0
  BY <1>1, <1>2, <1>3, OpFacts DEF MainOps
<1>5. /\ th[t].pc \in Nat /\ th[t].pc # 0 /\ 1 \in DOMAIN Func(t)
      /\ (o = "loop" => th[t].pc + 1 \in DOMAIN Func(t)) /\ (o = "again" => sample = "pthread_signal")
      /\ sample = "pthread_cancellation" => <<o, th[t].pc>> \in CleanupCalls
      /\ sample = "pthread_safe_tsd" => <<o, th[t].pc>> \in TsdCalls
      /\ sample = "pthread_signal" => t # 3
  BY <1>1, <1>2, <1>3, <1>4, OpFacts
<1>6. /\ sample = "pthread_cancellation" => th[t].pc = 7
      /\ sample # "pthread_safe_tsd"
  <2>1. sample = "pthread_cancellation" => th[t].pc = 7
    BY <1>3, <1>5 DEF CleanupCalls
  <2>2. sample # "pthread_safe_tsd"
    BY <1>3, <1>5 DEF TsdCalls
  <2> QED
    BY <2>1, <2>2
<1>7. th[t].allocs \in Nat /\ th[t].frees \in Nat /\ th[t].turn \in Nat
  BY <1>1 DEF ThreadRec, Tallies
<1>8. Counted(t, th[t]) /\ Guarded(t, th[t]) /\ OwnWords(t, th[t]) /\ InFunc(t, th[t])
  BY DEF AllClean, Clean
<1>9. PICK k \in Tallies, n \in Tallies :
        /\ \/ k = 1 /\ n = th[t].turn + 1 /\ n < NumTurns
           \/ k = 1 /\ n = th[t].turn /\ o = "again"
           \/ k = th[t].pc + 1 /\ n = th[t].turn /\ o = "loop"
        /\ th' = [th EXCEPT ![t] = [th[t] EXCEPT !.turn = n, !.pc = k]]
  <2>1. CASE Loop(t) /\ th[t].turn + 1 < NumTurns
    <3>1. th' = [th EXCEPT ![t] = [th[t] EXCEPT !.turn = th[t].turn + 1, !.pc = 1]]
      BY <2>1 DEF Loop, Turns
    <3>2. th[t].turn + 1 \in Tallies /\ 1 \in Tallies
      BY <1>7 DEF Tallies
    <3> QED
      BY <2>1, <3>1, <3>2
  <2>2. CASE Loop(t) /\ ~(th[t].turn + 1 < NumTurns)
    <3>1. th' = [th EXCEPT ![t] = [th[t] EXCEPT !.pc = th[t].pc + 1]] /\ o = "loop"
      BY <1>2, <2>2 DEF Loop, Turns, On, Runs
    <3>2. [th[t] EXCEPT !.pc = th[t].pc + 1] = [th[t] EXCEPT !.turn = th[t].turn, !.pc = th[t].pc + 1]
      BY <1>1 DEF ThreadRec
    <3>3. th[t].turn \in Tallies /\ th[t].pc + 1 \in Tallies
      BY <1>5, <1>7 DEF Tallies
    <3> QED
      BY <3>1, <3>2, <3>3
  <2>3. CASE WorkAgain(t)
    <3>1. th' = [th EXCEPT ![t] = [th[t] EXCEPT !.pc = 1]] /\ o = "again"
      BY <1>2, <2>3 DEF WorkAgain, Turns, Runs
    <3>2. [th[t] EXCEPT !.pc = 1] = [th[t] EXCEPT !.turn = th[t].turn, !.pc = 1]
      BY <1>1 DEF ThreadRec
    <3>3. th[t].turn \in Tallies /\ 1 \in Tallies
      BY <1>7 DEF Tallies
    <3> QED
      BY <3>1, <3>2, <3>3
  <2> QED
    BY <2>1, <2>2, <2>3
<1>10. PICK r : th' = [th EXCEPT ![t] = r] /\ r = [th[t] EXCEPT !.turn = n, !.pc = k]
  BY <1>9
<1>11. /\ r \in ThreadRec /\ r.st = "run" /\ r.pc = k /\ r.turn = n /\ r.frees = th[t].frees
       /\ (r.req <=> th[t].req) /\ (r.push <=> th[t].push) /\ r.buf = th[t].buf /\ r.said = th[t].said
       /\ r.allocs = th[t].allocs /\ (r.blocked <=> th[t].blocked)
  BY <1>1, <1>9, <1>10 DEF ThreadRec
<1>12. k = 1 \/ k = th[t].pc + 1
  BY <1>9
<1>13. Counted(t, r)
  <2>1. ~Holds(t, th[t]) /\ ~Holds(t, r)
    BY <1>6, <1>11, <1>12 DEF Holds
  <2>2. r.allocs = (IF Holds(t, r) THEN r.frees + 1 ELSE r.frees)
    BY <1>8, <1>11, <2>1 DEF Counted
  <2>3. r.turn < NumTurns
    BY <1>8, <1>9, <1>11 DEF Counted
  <2>4. r.allocs <= (IF r.pc > 1 THEN r.turn + 1 ELSE r.turn)
    <3>1. th[t].allocs <= th[t].turn + 1
      BY <1>7, <1>8 DEF Counted
    <3>2. CASE k = 1 /\ n = th[t].turn + 1 /\ n < NumTurns
      BY <1>11, <3>1, <3>2
    <3>3. CASE k = 1 /\ n = th[t].turn /\ o = "again"
      <4>1. th[t].allocs = 0
        BY <1>5, <1>8, <3>3 DEF Counted
      <4> QED
        BY <1>7, <1>11, <3>3, <4>1
    <3>4. CASE k = th[t].pc + 1 /\ n = th[t].turn /\ o = "loop"
      <4>1. k > 1
        BY <1>5, <3>4
      <4> QED
        BY <1>11, <3>1, <3>4, <4>1
    <3> QED
      BY <1>9, <3>2, <3>3, <3>4
  <2>5. sample # "pthread_cancellation" => r.allocs = 0
    BY <1>6, <1>8, <1>11 DEF Counted
  <2> QED
    BY <1>6, <2>2, <2>3, <2>4, <2>5 DEF Counted
<1>14. Guarded(t, r)
  <2>1. sample = "pthread_cancellation" => ~(k \in 3..5) /\ ~(th[t].pc \in 3..5)
    BY <1>6, <1>12
  <2> QED
    BY <1>1, <1>4, <1>8, <1>11, <2>1 DEF Guarded
<1>15. OwnWords(t, r) /\ InFunc(t, r)
  <2>1. OwnWords(t, r)
    BY <1>8, <1>11 DEF OwnWords
  <2>2. k \in DOMAIN Func(t)
    BY <1>5, <1>9
  <2> QED
    BY <1>1, <1>8, <1>11, <2>1, <2>2 DEF InFunc
<1>16. AllClean' /\ th'[t] = r /\ \A u \in Owners : u # t => th'[u] = th[u]
  BY <1>1, <1>10, <1>11, <1>13, <1>14, <1>15, OwnStep DEF Clean
<1> QED
  BY <1>4, <1>5, <1>6, <1>11, <1>16

(* A call after which the thread only goes on.                             *)
GoesPast(t) ==
  \/ PthreadOnce(t) \/ create_key(t) \/ Snprintf(t) \/ Sleeps(t) \/ Printf(t) \/ PthreadJoin(t)
  \/ PthreadDetach(t) \/ SigmaskFill(t) \/ Sigwait(t)

(* Such a thread stays clean, and no other is touched.                     *)
LEMMA GoStep ==
  ASSUME AllClean, sample \in LifeSamples, NEW t \in Owners, GoesPast(t), NEW o, o = Now(t).op
  PROVE  /\ AllClean' /\ th[t].st = "run" /\ th'[t].st = "run" /\ (th[t].blocked => th'[t].blocked)
         /\ o = "mask" => th'[t].blocked
         /\ o \notin {"return", "again", "pthread_kill", "exit", "loop"}
         /\ \/ th'[t].pc = th[t].pc + 1 /\ (o # "once" \/ (once = "never" /\ once' = "called"))
            \/ th'[t].pc = th[t].pc + 2 /\ o = "once" /\ once = "done" /\ once' = "done"
         /\ \A u \in Owners : u # t => th'[u] = th[u]
<1>1. /\ th[t].st = "run" /\ sample' = sample /\ th[t] \in ThreadRec
      /\ o \in {"once", "create_key", "snprintf", "sleep", "printf", "printbuf", "join", "detach", "mask", "sigwait"}
  BY DEF GoesPast, PthreadOnce, create_key, Snprintf, Sleeps, Printf, PthreadJoin, PthreadDetach, SigmaskFill,
         Sigwait, Runs, Alone, AllClean
<1>2. th[t].pc \in Nat /\ th[t].buf \in {0, t} /\ th[t].said \in {0, t} /\ 0 \in Owners
  BY <1>1 DEF ThreadRec, Tallies, AllClean, Clean, OwnWords, Owners
<1>3. PICK b \in BOOLEAN : b <=> th[t].blocked \/ o = "mask"
  OBVIOUS
<1>b. o # "mask" => b = th[t].blocked
  <2>1. th[t].blocked \in BOOLEAN
    BY <1>1 DEF ThreadRec
  <2> QED
    BY <1>3, <2>1, Zenon
<1>4. PICK k \in Tallies, f \in {0, t}, d \in {0, t} :
        /\ \/ k = th[t].pc + 1 /\ (o # "once" \/ (once = "never" /\ once' = "called"))
           \/ k = th[t].pc + 2 /\ o = "once" /\ once = "done" /\ once' = "done"
        /\ th' = [th EXCEPT ![t] = [th[t] EXCEPT !.blocked = b, !.buf = f, !.said = d, !.pc = k]]
  <2>1. CASE o \in {"create_key", "sleep", "join", "detach", "sigwait"}
    <3>1. th' = [th EXCEPT ![t] = On(th[t])]
      BY <2>1 DEF GoesPast, PthreadOnce, create_key, Snprintf, Sleeps, Printf, PthreadJoin, PthreadDetach,
                  SigmaskFill, Sigwait, Runs, Turns
    <3>2. b = th[t].blocked
      BY <1>b, <2>1
    <3>3. On(th[t]) = [th[t] EXCEPT !.blocked = b, !.buf = th[t].buf, !.said = th[t].said, !.pc = th[t].pc + 1]
      BY <1>1, <3>2 DEF ThreadRec, On
    <3>4. th[t].pc + 1 \in Tallies
      BY <1>2 DEF Tallies
    <3> QED
      BY <1>2, <2>1, <3>1, <3>3, <3>4
  <2>2. CASE o = "once"
    <3>1. \/ th' = [th EXCEPT ![t] = On(th[t])] /\ once = "never" /\ once' = "called"
          \/ th' = [th EXCEPT ![t] = On(On(th[t]))] /\ once = "done" /\ once' = "done"
      BY <2>2 DEF GoesPast, PthreadOnce, create_key, Snprintf, Sleeps, Printf, PthreadJoin, PthreadDetach,
                  SigmaskFill, Sigwait, Runs, Turns
    <3>2. b = th[t].blocked
      BY <1>b, <2>2
    <3>3. On(th[t]) = [th[t] EXCEPT !.blocked = b, !.buf = th[t].buf, !.said = th[t].said, !.pc = th[t].pc + 1]
      BY <1>1, <3>2 DEF ThreadRec, On
    <3>4. On(On(th[t])) = [th[t] EXCEPT !.blocked = b, !.buf = th[t].buf, !.said = th[t].said, !.pc = th[t].pc + 2]
      <4>1. On(th[t]).pc + 1 = th[t].pc + 2
        BY <1>1, <1>2 DEF On, ThreadRec
      <4>2. On(On(th[t])) = [On(th[t]) EXCEPT !.pc = th[t].pc + 2]
        BY <4>1 DEF On
      <4> QED
        BY <1>1, <3>2, <4>2 DEF On, ThreadRec
    <3>5. th[t].pc + 1 \in Tallies /\ th[t].pc + 2 \in Tallies
      BY <1>2 DEF Tallies
    <3> QED
      BY <1>2, <2>2, <3>1, <3>3, <3>4, <3>5
  <2>3. CASE o = "snprintf"
    <3>1. th' = [th EXCEPT ![t] = On([th[t] EXCEPT !.buf = t])]
      BY <2>3 DEF GoesPast, PthreadOnce, create_key, Snprintf, Sleeps, Printf, PthreadJoin, PthreadDetach,
                  SigmaskFill, Sigwait, Runs, Turns
    <3>2. b = th[t].blocked
      BY <1>b, <2>3
    <3>3. On([th[t] EXCEPT !.buf = t]) = [th[t] EXCEPT !.blocked = b, !.buf = t, !.said = th[t].said, !.pc = th[t].pc + 1]
      BY <1>1, <3>2 DEF ThreadRec, On
    <3>4. th[t].pc + 1 \in Tallies
      BY <1>2 DEF Tallies
    <3> QED
      BY <1>2, <2>3, <3>1, <3>3, <3>4
  <2>4. CASE o \in {"printf", "printbuf"}
    <3>1. PICK d \in {0, t} : th' = [th EXCEPT ![t] = On([th[t] EXCEPT !.said = d])]
      BY <1>2, <2>4 DEF GoesPast, PthreadOnce, create_key, Snprintf, Sleeps, Printf, PthreadJoin, PthreadDetach,
                  SigmaskFill, Sigwait, Runs, Turns
    <3>2. b = th[t].blocked
      BY <1>b, <2>4
    <3>3. On([th[t] EXCEPT !.said = d]) = [th[t] EXCEPT !.blocked = b, !.buf = th[t].buf, !.said = d, !.pc = th[t].pc + 1]
      BY <1>1, <3>2 DEF ThreadRec, On
    <3>4. th[t].pc + 1 \in Tallies
      BY <1>2 DEF Tallies
    <3> QED
      BY <1>2, <2>4, <3>1, <3>3, <3>4
  <2>5. CASE o = "mask"
    <3>1. th' = [th EXCEPT ![t] = On([th[t] EXCEPT !.blocked = TRUE])]
      BY <2>5 DEF GoesPast, PthreadOnce, create_key, Snprintf, Sleeps, Printf, PthreadJoin, PthreadDetach,
                  SigmaskFill, Sigwait, Runs, Turns
    <3>2. b = TRUE
      BY <1>3, <2>5
    <3>3. On([th[t] EXCEPT !.blocked = TRUE]) = [th[t] EXCEPT !.blocked = b, !.buf = th[t].buf, !.said = th[t].said, !.pc = th[t].pc + 1]
      BY <1>1, <3>2 DEF ThreadRec, On
    <3>4. th[t].pc + 1 \in Tallies
      BY <1>2 DEF Tallies
    <3> QED
      BY <1>2, <2>5, <3>1, <3>3, <3>4
  <2> QED
    BY <1>1, <2>1, <2>2, <2>3, <2>4, <2>5
<1>5. PICK r : th' = [th EXCEPT ![t] = r] /\ r = [th[t] EXCEPT !.blocked = b, !.buf = f, !.said = d, !.pc = k]
  BY <1>4
<1>6. f \in Owners /\ d \in Owners
  BY <1>2, <1>4
<1>7. /\ r \in ThreadRec /\ r.st = "run" /\ r.pc = k /\ r.turn = th[t].turn /\ r.frees = th[t].frees
      /\ (r.req <=> th[t].req) /\ (r.push <=> th[t].push) /\ (r.arr <=> th[t].arr) /\ r.buf = f /\ r.said = d
      /\ r.allocs = th[t].allocs /\ (r.blocked <=> b)
  BY <1>1, <1>3, <1>4, <1>5, <1>6 DEF ThreadRec
<1>8. Clean(t, r)
  BY <1>1, <1>4, <1>7, GoesOn
<1>9. AllClean' /\ th'[t] = r /\ \A u \in Owners : u # t => th'[u] = th[u]
  BY <1>1, <1>5, <1>8, OwnStep
<1> QED
  BY <1>1, <1>3, <1>4, <1>7, <1>9

(* main creates a thread, which inherits the mask.                         *)
LEMMA CreateStep ==
  ASSUME AllClean, sample \in LifeSamples, NEW t \in Owners, PthreadCreate(t)
  PROVE  /\ AllClean' /\ t = 0 /\ th[0].st = "run" /\ th[0].pc \in Nat /\ th'[0].st = "run"
         /\ sample = "pthread_signal" => th[0].pc # 1
         /\ th'[0].pc = th[0].pc + 1 /\ (th'[0].blocked <=> th[0].blocked)
         /\ \E v \in 1..3 :
              /\ th'[v].pc = 1 /\ (th'[v].blocked <=> th[0].blocked)
              /\ \A u \in Owners : u \notin {0, v} => th'[u] = th[u]
<1>1. th[t].st = "run" /\ sample' = sample /\ th \in [Owners -> ThreadRec] /\ Now(t).op = "create"
  BY DEF PthreadCreate, Runs, Alone, AllClean
<1>2. PICK o : o = Now(t).op
  OBVIOUS
<1>3. t = 0
  BY <1>1, <1>2, OpFacts DEF ThreadOps
<1>4. PICK v : v = Now(t).of
  OBVIOUS
<1>5. /\ v \in 1..3 /\ v + 1 \in DOMAIN Lives[sample] /\ 1 \in DOMAIN Func(v)
      /\ th[0].pc \in Nat /\ (sample = "pthread_signal" => th[0].pc # 1)
  BY <1>1, <1>2, <1>3, <1>4, OpFacts
<1>6. th[0] \in ThreadRec /\ v \in Owners /\ v # 0 /\ 0 \in Owners
  BY <1>1, <1>5 DEF Owners
<1>7. PICK k \in Tallies : k = th[0].pc + 1
  BY <1>5 DEF Tallies
<1>8. PICK r : r = [th[0] EXCEPT !.pc = k]
  OBVIOUS
<1>9. PICK n : n = [NoThread EXCEPT !.st = "run", !.blocked = th[0].blocked]
  OBVIOUS
<1>10. th' = [[th EXCEPT ![0] = r] EXCEPT ![v] = n]
  <2>1. th' = [th EXCEPT ![0] = On(@), ![v] = [NoThread EXCEPT !.st = "run", !.blocked = th[0].blocked]]
    BY <1>3, <1>4 DEF PthreadCreate
  <2>2. On(th[0]) = r
    BY <1>7, <1>8 DEF On
  <2> QED
    BY <1>1, <1>6, <1>9, <2>1, <2>2
<1>11. /\ r \in ThreadRec /\ r.st = "run" /\ r.pc = k /\ r.turn = th[0].turn /\ r.frees = th[0].frees
       /\ (r.req <=> th[0].req) /\ (r.push <=> th[0].push) /\ (r.arr <=> th[0].arr) /\ r.buf = th[0].buf
       /\ r.said = th[0].said /\ r.allocs = th[0].allocs /\ (r.blocked <=> th[0].blocked)
  BY <1>1, <1>3, <1>6, <1>7, <1>8 DEF ThreadRec
<1>12. Clean(0, r)
  <2>1. th[0].buf \in {0} /\ th[0].said \in {0}
    BY <1>6 DEF AllClean, Clean, OwnWords
  <2> QED
    BY <1>1, <1>2, <1>3, <1>6, <1>7, <1>11, <2>1, GoesOn
<1>13. /\ n \in ThreadRec /\ n.st = "run" /\ n.pc = 1 /\ n.turn = 0 /\ ~n.req /\ ~n.push /\ ~n.arr
       /\ n.allocs = 0 /\ n.frees = 0 /\ n.buf = 0 /\ n.said = 0 /\ (n.blocked <=> th[0].blocked)
  <2>1. 0 \in Tallies /\ 1 \in Tallies /\ 0 \in Owners
    BY DEF Tallies, Owners
  <2> QED
    BY <1>6, <1>9, <2>1 DEF NoThread, ThreadRec
<1>14. Clean(v, n)
  <2>1. InFunc(v, n)
    BY <1>5, <1>13 DEF InFunc
  <2>2. Counted(v, n)
    <3>1. ~Holds(v, n)
      BY <1>13 DEF Holds
    <3> QED
      BY <1>13, <3>1, NumTurnsAssumption DEF Counted
  <2>3. Guarded(v, n)
    BY <1>13 DEF Guarded
  <2> QED
    BY <1>13, <2>1, <2>2, <2>3 DEF Clean, OwnWords
<1>15. /\ th' \in [Owners -> ThreadRec] /\ th'[0] = r /\ th'[v] = n
       /\ \A u \in Owners : u \notin {0, v} => th'[u] = th[u]
  BY <1>1, <1>6, <1>10, <1>11, <1>13
<1>16. \A u \in Owners : Clean(u, th'[u])
  BY <1>12, <1>14, <1>15 DEF AllClean
<1>17. AllClean'
  BY <1>1, <1>15, <1>16, CleanNext
<1> QED
  BY <1>1, <1>3, <1>5, <1>7, <1>11, <1>13, <1>15, <1>17

(* main asks for a thread to be canceled, or takes the answer for an error. *)
LEMMA CancelStep ==
  ASSUME AllClean, sample \in LifeSamples, NEW t \in Owners, PthreadCancel(t)
  PROVE  AllClean' /\ sample \in Cancellable
<1>1. th[t].st = "run" /\ sample' = sample /\ th \in [Owners -> ThreadRec] /\ Now(t).op = "cancel"
  BY DEF PthreadCancel, Runs, AllClean
<1>2. PICK o : o = Now(t).op
  OBVIOUS
<1>3. t = 0
  BY <1>1, <1>2, OpFacts DEF ThreadOps
<1>4. PICK v : v = Now(t).of
  OBVIOUS
<1>5. v \in 1..3 /\ th[0].pc \in Nat /\ sample \in Cancellable
  BY <1>1, <1>2, <1>3, <1>4, OpFacts
<1>6. th[0] \in ThreadRec /\ v \in Owners /\ v # 0 /\ 0 \in Owners /\ th[v] \in ThreadRec
  BY <1>1, <1>5 DEF Owners
<1>7. CASE th' = th
  BY <1>1, <1>5, <1>7, CleanNext DEF AllClean
<1>8. CASE th' # th
  <2>1. PICK k \in Tallies : k = th[0].pc + 1
    BY <1>5 DEF Tallies
  <2>2. PICK r : r = [th[0] EXCEPT !.pc = k]
    OBVIOUS
  <2>3. PICK n : n = [th[v] EXCEPT !.req = TRUE]
    OBVIOUS
  <2>4. th' = [[th EXCEPT ![0] = r] EXCEPT ![v] = n]
    <3>1. th' = [th EXCEPT ![0] = On(@), ![v].req = TRUE]
      BY <1>3, <1>4, <1>8 DEF PthreadCancel
    <3>2. On(th[0]) = r
      BY <2>1, <2>2 DEF On
    <3> QED
      BY <1>1, <1>6, <2>3, <3>1, <3>2
  <2>5. /\ r \in ThreadRec /\ r.st = "run" /\ r.pc = k /\ r.turn = th[0].turn /\ r.frees = th[0].frees
        /\ (r.req <=> th[0].req) /\ (r.push <=> th[0].push) /\ (r.arr <=> th[0].arr) /\ r.buf = th[0].buf
        /\ r.said = th[0].said /\ r.allocs = th[0].allocs /\ (r.blocked <=> th[0].blocked)
    BY <1>1, <1>3, <1>6, <2>1, <2>2 DEF ThreadRec
  <2>6. Clean(0, r)
    <3>1. th[0].buf \in {0} /\ th[0].said \in {0}
      BY <1>6 DEF AllClean, Clean, OwnWords
    <3> QED
      BY <1>1, <1>2, <1>3, <1>6, <2>1, <2>5, <3>1, GoesOn
  <2>7. /\ n \in ThreadRec /\ n.st = th[v].st /\ n.pc = th[v].pc /\ n.turn = th[v].turn /\ n.frees = th[v].frees
        /\ (n.push <=> th[v].push) /\ (n.arr <=> th[v].arr) /\ n.buf = th[v].buf /\ n.said = th[v].said
        /\ n.allocs = th[v].allocs
    BY <1>6, <2>3 DEF ThreadRec
  <2>8. Clean(v, n)
    <3>1. Clean(v, th[v])
      BY <1>6 DEF AllClean
    <3>2. Holds(v, n) <=> Holds(v, th[v])
      BY <2>7 DEF Holds
    <3>3. Counted(v, n)
      BY <2>7, <3>1, <3>2 DEF Counted, Clean
    <3>4. Guarded(v, n)
      BY <1>5, <2>7, <3>1 DEF Guarded, Clean
    <3> QED
      BY <2>7, <3>1, <3>3, <3>4 DEF Clean, OwnWords, InFunc
  <2>9. /\ th' \in [Owners -> ThreadRec] /\ th'[0] = r /\ th'[v] = n
        /\ \A u \in Owners : u \notin {0, v} => th'[u] = th[u]
    BY <1>1, <1>6, <2>4, <2>5, <2>7
  <2>10. \A u \in Owners : Clean(u, th'[u])
    BY <2>6, <2>8, <2>9 DEF AllClean
  <2> QED
    BY <1>1, <1>5, <2>9, <2>10, CleanNext
<1> QED
  BY <1>7, <1>8

(* Every step of a thread leaves every thread clean.                       *)
LEMMA CleanKept ==
  ASSUME AllClean, sample \in LifeSamples, NEW t \in Owners, ThreadStep(t)
  PROVE  AllClean'
<1>1. CASE Malloc(t) \/ Getspecific(t)
  BY <1>1, AllocStep
<1>2. CASE FreeArr(t) \/ CleanupPush(t) \/ CleanupPop(t)
  BY <1>2, HandlerStep
<1>3. CASE Canceled(t) \/ Return(t)
  BY <1>3, EndStep
<1>4. CASE Loop(t) \/ WorkAgain(t)
  BY <1>4, LoopStep
<1>5. CASE GoesPast(t)
  BY <1>5, GoStep
<1>6. CASE PthreadCreate(t)
  BY <1>6, CreateStep
<1>7. CASE PthreadCancel(t)
  BY <1>7, CancelStep
<1>8. CASE ProcessExit(t) \/ PthreadKill(t)
  <2>1. sample' = sample /\ th' = th
    BY <1>8 DEF ProcessExit, PthreadKill
  <2> QED
    BY <2>1, CleanNext DEF AllClean
<1> QED
  BY <1>1, <1>2, <1>3, <1>4, <1>5, <1>6, <1>7, <1>8 DEF ThreadStep, GoesPast

(* Only the first caller of pthread_once runs create_key, once.            *)
LEMMA KeyKept ==
  ASSUME AllClean, OneKey, sample \in LifeSamples, NEW t \in Owners, ThreadStep(t)
  PROVE  OneKey'
<1>0. th \in [Owners -> ThreadRec] /\ sample' = sample /\ th[t].st = "run" /\ keys \in 0..1
  BY DEF AllClean, OneKey, ThreadStep, Alone, Malloc, FreeArr, CleanupPush, CleanupPop, Canceled, Loop,
         PthreadOnce, create_key, Getspecific, Snprintf, Return, Sleeps, Printf, WorkAgain, PthreadCreate,
         PthreadJoin, PthreadDetach, PthreadCancel, ProcessExit, SigmaskFill, Sigwait, PthreadKill, Runs
<1> DEFINE Same == once' = once /\ keys' = keys
           NoNew == \A u \in Owners : AtKey(u)' => AtKey(u)
<1>1. Same /\ NoNew => OneKey'
  BY DEF OneKey
<1>2. CASE Malloc(t) \/ Getspecific(t)
  <2>1. Same
    BY <1>2 DEF Malloc, Getspecific, Alone
  <2>2. NoNew
    <3>1. ~(AtKey(t)')
      BY <1>0, <1>2, AllocStep DEF AtKey
    <3> QED
      BY <1>0, <1>2, <3>1, AllocStep DEF AtKey
  <2> QED
    BY <1>1, <2>1, <2>2
<1>3. CASE FreeArr(t) \/ CleanupPush(t) \/ CleanupPop(t)
  <2>1. Same
    BY <1>3 DEF FreeArr, CleanupPush, CleanupPop, Alone
  <2>2. NoNew
    BY <1>0, <1>3, HandlerStep DEF AtKey
  <2> QED
    BY <1>1, <2>1, <2>2
<1>4. CASE Canceled(t) \/ Return(t)
  <2>1. Same
    BY <1>4 DEF Canceled, Return, Alone
  <2>2. NoNew
    BY <1>0, <1>4, EndStep DEF AtKey
  <2> QED
    BY <1>1, <2>1, <2>2
<1>5. CASE Loop(t) \/ WorkAgain(t)
  <2>1. Same
    BY <1>5 DEF Loop, WorkAgain, Alone
  <2>2. NoNew
    BY <1>0, <1>5, LoopStep DEF AtKey
  <2> QED
    BY <1>1, <2>1, <2>2
<1>6. CASE PthreadCreate(t)
  <2>1. Same
    BY <1>6 DEF PthreadCreate, Alone
  <2>2. NoNew
    <3>1. PICK v \in 1..3 : th'[v].pc = 1 /\ \A u \in Owners : u \notin {0, v} => th'[u] = th[u]
      BY <1>6, CreateStep
    <3> QED
      BY <1>0, <3>1 DEF AtKey
  <2> QED
    BY <1>1, <2>1, <2>2
<1>7. CASE PthreadCancel(t)
  <2>1. Same
    BY <1>7 DEF PthreadCancel
  <2>2. NoNew
    BY <1>0, <1>7, CancelStep DEF AtKey, Cancellable
  <2> QED
    BY <1>1, <2>1, <2>2
<1>8. CASE ProcessExit(t) \/ PthreadKill(t)
  <2>1. Same
    BY <1>8 DEF ProcessExit, PthreadKill
  <2>2. NoNew
    BY <1>8 DEF AtKey, ProcessExit, PthreadKill
  <2> QED
    BY <1>1, <2>1, <2>2
<1>9. CASE GoesPast(t)
  <2>1. PICK o : o = Now(t).op
    OBVIOUS
  <2>2. /\ \A u \in Owners : u # t => th'[u] = th[u]
        /\ \/ th'[t].pc = th[t].pc + 1 /\ (o # "once" \/ (once = "never" /\ once' = "called"))
           \/ th'[t].pc = th[t].pc + 2 /\ o = "once" /\ once = "done" /\ once' = "done"
    BY <1>9, <2>1, GoStep
  <2>3. th[t].pc \in Nat /\ th[t].pc # 0
    BY <1>0, <2>1, OpFacts
  <2>4. t # 0 /\ sample = "pthread_safe_tsd" => <<o, th[t].pc>> \in TsdCalls
    BY <1>0, <2>1, OpFacts
  <2>5. o \in {"once", "create_key"} => sample = "pthread_safe_tsd" /\ t # 0
    <3>1. o \in {"once", "create_key"} => t # 0
      BY <1>0, <2>1, OpFacts DEF MainOps
    <3> QED
      BY <1>0, <2>1, <3>1, OpFacts
  <2>6. CASE o = "once"
    <3>1. th[t].pc = 1 /\ sample = "pthread_safe_tsd" /\ t # 0
      BY <2>4, <2>5, <2>6 DEF TsdCalls
    <3>2. keys' = keys
      BY <1>9, <2>1, <2>6 DEF GoesPast, PthreadOnce, create_key, Snprintf, Sleeps, Printf, PthreadJoin,
               PthreadDetach, SigmaskFill, Sigwait, Runs, Alone
    <3>3. CASE once = "never" /\ once' = "called" /\ th'[t].pc = th[t].pc + 1
      <4>1. \A u \in Owners : ~AtKey(u)
        BY <3>3 DEF OneKey
      <4>2. \A u \in Owners : AtKey(u)' => u = t
        BY <1>0, <2>2, <4>1 DEF AtKey
      <4> QED
        BY <3>2, <3>3, <4>2 DEF OneKey
    <3>4. CASE once' = once /\ th'[t].pc = th[t].pc + 2
      <4>1. NoNew
        BY <1>0, <2>2, <2>3, <3>1, <3>4 DEF AtKey
      <4> QED
        BY <1>1, <3>2, <3>4, <4>1
    <3> QED
      BY <2>2, <2>6, <3>3, <3>4
  <2>7. CASE o = "create_key"
    <3>1. th[t].pc = 2 /\ AtKey(t)
      BY <1>0, <2>4, <2>5, <2>7 DEF TsdCalls, AtKey
    <3>2. once = "called" /\ keys = 0
      BY <3>1 DEF OneKey
    <3>3. keys' = keys + 1 /\ once' = "done"
      BY <1>9, <2>1, <2>7 DEF GoesPast, PthreadOnce, create_key, Snprintf, Sleeps, Printf, PthreadJoin,
               PthreadDetach, SigmaskFill, Sigwait, Runs, Alone
    <3>4. th'[t].pc = 3
      BY <2>2, <2>7, <3>1
    <3>5. \A u \in Owners : ~(AtKey(u)')
      BY <1>0, <2>2, <3>1, <3>4 DEF AtKey, OneKey
    <3>6. keys' \in 0..1
      BY <3>2, <3>3
    <3> QED
      BY <3>3, <3>5, <3>6 DEF OneKey
  <2>8. CASE o \notin {"once", "create_key"}
    <3>1. Same
      BY <1>9, <2>1, <2>8 DEF GoesPast, PthreadOnce, create_key, Snprintf, Sleeps, Printf, PthreadJoin,
               PthreadDetach, SigmaskFill, Sigwait, Runs, Alone
    <3>2. ~(AtKey(t)')
      <4> SUFFICES ASSUME sample = "pthread_safe_tsd", t # 0 PROVE th'[t].pc # 2
        BY <1>0 DEF AtKey
      <4>1. th[t].pc \in 3..6
        BY <2>4, <2>8 DEF TsdCalls
      <4> QED
        BY <2>2, <4>1
    <3>3. NoNew
      BY <1>0, <2>2, <3>2 DEF AtKey
    <3> QED
      BY <1>1, <3>1, <3>3
  <2> QED
    BY <2>6, <2>7, <2>8
<1> QED
  BY <1>2, <1>3, <1>4, <1>5, <1>6, <1>7, <1>8, <1>9 DEF ThreadStep, GoesPast

(* A step of one thread keeps the mask in the threads created after it.    *)
LEMMA MaskOwn ==
  ASSUME AllClean, Masked, sample' = sample, NEW t \in Owners, th[t].st = "run",
         \A u \in Owners : u # t => th'[u] = th[u],
         proc' \in {"run", "exit", "errExit", "killed"}, pending' \in {"no", "pending", "taken"},
         pending = "taken" => pending' = "taken",
         sample = "pthread_signal" =>
           \/ th'[t].st = "over" /\ th'[t].pc = th[t].pc
           \/ /\ th[t].blocked => th'[t].blocked
              /\ t = 0 => th'[0].pc # 1 /\ th'[0].blocked
              /\ t = 3 => (th'[3].pc = 2 => pending' = "taken")
  PROVE  Masked'
<1> SUFFICES ASSUME sample = "pthread_signal"
             PROVE  /\ th'[0].pc = 1 => \A u \in Owners : u # 0 => th'[u].st # "run"
                    /\ th'[0].pc # 1 => \A u \in Owners : th'[u].st = "run" => th'[u].blocked
                    /\ th'[3].st = "run" /\ th'[3].pc = 2 => pending' = "taken"
  BY DEF Masked
<1>0. 0 \in Owners /\ 3 \in Owners
  BY DEF Owners
<1>1. /\ th[0].pc = 1 => \A u \in Owners : u # 0 => th[u].st # "run"
      /\ th[0].pc # 1 => \A u \in Owners : th[u].st = "run" => th[u].blocked
      /\ th[3].st = "run" /\ th[3].pc = 2 => pending = "taken"
  BY DEF Masked
<1>2. CASE t = 0
  <2>1. th'[3] = th[3]
    BY <1>0, <1>2
  <2>2. CASE th'[t].st = "over" /\ th'[t].pc = th[t].pc
    BY <1>1, <1>2, <2>1, <2>2
  <2>3. CASE th'[0].pc # 1 /\ th'[0].blocked
    <3>1. \A u \in Owners : th'[u].st = "run" => th'[u].blocked
      BY <1>1, <1>2, <2>3
    <3> QED
      BY <1>1, <2>1, <2>3, <3>1
  <2> QED
    BY <1>2, <2>2, <2>3
<1>3. CASE t # 0
  <2>1. th'[0] = th[0] /\ th[0].pc # 1 /\ th[t].blocked
    BY <1>0, <1>1, <1>3
  <2>2. \A u \in Owners : th'[u].st = "run" => th'[u].blocked
    BY <1>1, <1>3, <2>1
  <2>3. th'[3].st = "run" /\ th'[3].pc = 2 => pending' = "taken"
    BY <1>0, <1>1, <1>3
  <2> QED
    BY <2>1, <2>2, <2>3
<1> QED
  BY <1>2, <1>3

(* Once main has blocked SIGINT, every thread blocks it, and only the one  *)
(* in sigwait has taken it.                                                *)
LEMMA MaskKept ==
  ASSUME AllClean, Masked, OnlySigwait, sample \in LifeSamples, NEW t \in Owners, ThreadStep(t)
  PROVE  Masked' /\ OnlySigwait'
<1>0. /\ th \in [Owners -> ThreadRec] /\ sample' = sample /\ th[t].st = "run" /\ proc = "run"
      /\ pending \in {"no", "pending", "taken"}
  BY DEF AllClean, Masked, ThreadStep, Alone, Malloc, FreeArr, CleanupPush, CleanupPop, Canceled, Loop,
         PthreadOnce, create_key, Getspecific, Snprintf, Return, Sleeps, Printf, WorkAgain, PthreadCreate,
         PthreadJoin, PthreadDetach, PthreadCancel, ProcessExit, SigmaskFill, Sigwait, PthreadKill, Runs
<1>1. CASE PthreadKill(t)
  <2>1. PICK o : o = Now(t).op
    OBVIOUS
  <2>2. o = "pthread_kill" /\ UNCHANGED <<sample, th, pending>> /\ proc' = "killed"
    BY <1>1, <2>1 DEF PthreadKill, Runs
  <2>3. t # 0
    BY <1>0, <2>1, <2>2, OpFacts DEF MainOps
  <2>4. t = 3 /\ th[t].pc = 2 /\ sample = "pthread_signal"
    BY <1>0, <2>1, <2>2, <2>3, OpFacts
  <2>5. pending = "taken"
    BY <1>0, <2>4 DEF Masked
  <2> QED
    BY <2>2, <2>5 DEF Masked, OnlySigwait
<1>2. CASE ProcessExit(t)
  <2>1. UNCHANGED <<sample, th, pending>> /\ proc' = "exit"
    BY <1>2 DEF ProcessExit
  <2> QED
    BY <2>1 DEF Masked, OnlySigwait
<1>3. CASE ~PthreadKill(t) /\ ~ProcessExit(t)
  <2>0. proc' \in {"run", "errExit"}
    BY <1>0, <1>3 DEF ThreadStep, Alone, Malloc, FreeArr, CleanupPush, CleanupPop, Canceled, Loop,
         PthreadOnce, create_key, Getspecific, Snprintf, Return, Sleeps, Printf, WorkAgain, PthreadCreate,
         PthreadJoin, PthreadDetach, PthreadCancel, SigmaskFill, Sigwait
  <2>1. OnlySigwait'
    BY <2>0 DEF OnlySigwait
  <2>2. CASE Malloc(t) \/ Getspecific(t)
    <3>1. pending' = pending
      BY <2>2 DEF Malloc, Getspecific, Alone
    <3> QED
      BY <1>0, <2>0, <2>1, <2>2, <3>1, AllocStep, MaskOwn
  <2>3. CASE FreeArr(t) \/ CleanupPush(t) \/ CleanupPop(t)
    <3>1. pending' = pending
      BY <2>3 DEF FreeArr, CleanupPush, CleanupPop, Alone
    <3> QED
      BY <1>0, <2>0, <2>1, <2>3, <3>1, HandlerStep, MaskOwn
  <2>4. CASE Canceled(t) \/ Return(t)
    <3>1. pending' = pending
      BY <2>4 DEF Canceled, Return, Alone
    <3> QED
      BY <1>0, <2>0, <2>1, <2>4, <3>1, EndStep, MaskOwn
  <2>5. CASE Loop(t) \/ WorkAgain(t)
    <3>1. pending' = pending
      BY <2>5 DEF Loop, WorkAgain, Alone
    <3> QED
      BY <1>0, <2>0, <2>1, <2>5, <3>1, LoopStep, MaskOwn
  <2>6. CASE PthreadCreate(t)
    <3>1. pending' = pending
      BY <2>6 DEF PthreadCreate, Alone
    <3>2. PICK v \in 1..3 : /\ th'[v].pc = 1 /\ (th'[v].blocked <=> th[0].blocked)
                            /\ \A u \in Owners : u \notin {0, v} => th'[u] = th[u]
      BY <2>6, CreateStep
    <3>3. /\ th[0].st = "run" /\ th[0].pc \in Nat /\ th'[0].pc = th[0].pc + 1 /\ (th'[0].blocked <=> th[0].blocked)
          /\ sample = "pthread_signal" => th[0].pc # 1
      BY <2>6, CreateStep
    <3>4. 0 \in Owners /\ 3 \in Owners
      BY DEF Owners
    <3>5. sample = "pthread_signal" => th'[0].pc # 1
      <4>1. th[0].pc # 0 \/ sample # "pthread_signal"
        BY <1>0, <2>6, CreateStep, OpFacts
      <4> QED
        BY <3>3, <4>1
    <3>6. sample = "pthread_signal" => \A u \in Owners : th'[u].st = "run" => th'[u].blocked
      BY <3>2, <3>3, <3>4 DEF Masked
    <3>7. sample = "pthread_signal" => (th'[3].st = "run" /\ th'[3].pc = 2 => pending' = "taken")
      BY <3>1, <3>2, <3>4 DEF Masked
    <3>8. Masked'
      BY <1>0, <2>0, <3>1, <3>5, <3>6, <3>7 DEF Masked
    <3> QED
      BY <2>1, <3>8
  <2>7. CASE PthreadCancel(t)
    <3>1. sample' # "pthread_signal" /\ pending' = pending
      BY <1>0, <2>7, CancelStep DEF Cancellable, PthreadCancel
    <3> QED
      BY <1>0, <2>0, <2>1, <3>1 DEF Masked
  <2>8. CASE GoesPast(t)
    <3>1. PICK o : o = Now(t).op
      OBVIOUS
    <3>2. /\ \A u \in Owners : u # t => th'[u] = th[u]
          /\ th'[t].pc = th[t].pc + 1 \/ (th'[t].pc = th[t].pc + 2 /\ o = "once")
          /\ (th[t].blocked => th'[t].blocked) /\ (o = "mask" => th'[t].blocked)
          /\ o \notin {"again", "pthread_kill"}
      BY <2>8, <3>1, GoStep
    <3>3. th[t].pc \in Nat /\ th[t].pc # 0
      BY <1>0, <3>1, OpFacts
    <3>4. /\ o = "sigwait" => pending' = "taken"
          /\ o # "sigwait" => pending' = pending
      BY <2>8, <3>1 DEF GoesPast, PthreadOnce, create_key, Snprintf, Sleeps, Printf, PthreadJoin,
               PthreadDetach, SigmaskFill, Sigwait, Runs, Alone
    <3>5. sample = "pthread_signal" /\ t = 3 => o = "sigwait"
      BY <1>0, <3>1, <3>2, OpFacts
    <3>6. sample = "pthread_signal" /\ t = 0 => th'[0].pc # 1 /\ th'[0].blocked
      <4> SUFFICES ASSUME sample = "pthread_signal", t = 0 PROVE th'[0].pc # 1 /\ th'[0].blocked
        OBVIOUS
      <4>1. th[0].pc = 1 <=> o = "mask"
        BY <1>0, <3>1, OpFacts
      <4>2. th[0].pc # 1 => th[0].blocked
        BY <1>0 DEF Masked
      <4> QED
        BY <3>2, <3>3, <4>1, <4>2
    <3>7. Masked'
      BY <1>0, <2>0, <3>2, <3>4, <3>5, <3>6, MaskOwn
    <3> QED
      BY <2>1, <3>7
  <2> QED
    BY <1>3, <2>2, <2>3, <2>4, <2>5, <2>6, <2>7, <2>8 DEF ThreadStep, GoesPast
<1> QED
  BY <1>1, <1>2, <1>3

(* The invariant is kept by every step, SIGINT from the terminal included. *)
LEMMA LifeKept ==
  ASSUME LifeInv, LifeNext
  PROVE  LifeInv'
<1>1. CASE Interrupt
  <2>1. UNCHANGED <<sample, th, once, keys>> /\ pending = "no" /\ pending' = "pending" /\ proc = "run"
    BY <1>1 DEF Interrupt
  <2>2. AllClean'
    BY <2>1, CleanNext DEF LifeInv, AllClean
  <2>3. OneKey'
    BY <2>1 DEF LifeInv, OneKey, AtKey
  <2>4. proc' \in {"run", "killed"} /\ sample = "pthread_signal"
    BY <1>1 DEF Interrupt
  <2>5. Masked'
    BY <2>1, <2>4 DEF LifeInv, Masked
  <2>6. th[0].pc # 1 => proc' = "run"
    BY <1>1, <2>4 DEF Interrupt, LifeInv, Masked
  <2>7. OnlySigwait'
    BY <2>1, <2>6 DEF OnlySigwait
  <2> QED
    BY <2>2, <2>3, <2>5, <2>7 DEF LifeInv
<1>2. CASE \E t \in Owners : ThreadStep(t)
  BY <1>2, CleanKept, KeyKept, MaskKept DEF LifeInv, LifeNext
<1> QED
  BY <1>1, <1>2 DEF LifeNext

(* What the invariant says of the run.                                     *)
LEMMA LifeInvImplies ==
  ASSUME LifeInv
  PROVE  LifeTypeOK /\ EndsClean
<1>1. ASSUME NEW t \in Owners
      PROVE  /\ th[t].st \in {"none", "run", "over"} /\ th[t].turn \in 0..NumTurns
             /\ th[t].allocs \in 0..NumTurns /\ th[t].frees \in 0..NumTurns
             /\ th[t].buf \in Owners /\ th[t].said \in Owners /\ th[t].said \in {0, t}
             /\ sample \in LifeSamples /\ th[t].st = "run" => th[t].pc \in DOMAIN Lives[sample][t + 1]
             /\ th[t].frees <= th[t].allocs /\ (th[t].st = "over" => th[t].frees = th[t].allocs)
  <2>1. th[t] \in ThreadRec /\ Clean(t, th[t])
    BY DEF LifeInv, AllClean
  <2>2. /\ th[t].st \in {"none", "run", "over"} /\ th[t].turn \in Nat /\ th[t].allocs \in Nat
        /\ th[t].frees \in Nat /\ th[t].buf \in Owners /\ th[t].said \in Owners
    BY <2>1 DEF ThreadRec, Tallies
  <2>3. th[t].frees <= th[t].allocs /\ th[t].turn < NumTurns /\ th[t].allocs <= th[t].turn + 1
    BY <2>1, <2>2 DEF Clean, Counted
  <2>4. th[t].st = "over" => th[t].frees = th[t].allocs
    BY <2>1 DEF Clean, Counted, Holds
  <2> QED
    BY <2>1, <2>2, <2>3, <2>4, NumTurnsAssumption DEF Clean, OwnWords, InFunc, Func
<1>2. keys \in 0..1 /\ once \in {"never", "called", "done"}
  BY DEF LifeInv, OneKey
<1>3. keys \in 0..2 /\ keys <= 1
  BY <1>2
<1>4. LifeTypeOK
  BY <1>1, <1>2, <1>3 DEF LifeTypeOK, LifeInv, Masked
<1> QED
  BY <1>1, <1>3, <1>4 DEF EndsClean, FreedOnce, OwnMessage, KeyOnce, LifeInv
-----------------------------------------------------------------------------
(* No step changes the sample that main() has called.                      *)
LEMMA SampleFixed ==
  ASSUME [Next]_threadVars
  PROVE  sample' = sample
<1>1. CondNext => sample' = sample
  BY DEF CondNext, MainThread, pthread_cond_var, mutex_cond_example, timer_example_settime_thread,
         SpuriousWakeup, OthersIdle, Producer, thread_func_work, start_routine_cond, thread_func_timer
<1>2. LifeNext => sample' = sample
  BY DEF LifeNext, Interrupt, ThreadStep, Alone, Malloc, FreeArr, CleanupPush, CleanupPop, Canceled, Loop,
         PthreadOnce, create_key, Getspecific, Snprintf, Return, Sleeps, Printf, WorkAgain, PthreadCreate,
         PthreadJoin, PthreadDetach, PthreadCancel, ProcessExit, SigmaskFill, Sigwait, PthreadKill
<1> QED
  BY <1>1, <1>2, SumSampleFixed DEF Next, threadVars

(* The inductive invariant of the locked sums.                             *)
THEOREM SumInvariance == Spec => []SumInv
<1>1. Init => SumInv
  BY SumInitHolds DEF Init
<1>2. SumInv /\ [Next]_threadVars => SumInv'
  <2> SUFFICES ASSUME SumInv, [Next]_threadVars
               PROVE  SumInv'
    OBVIOUS
  <2>1. SumNext \/ UNCHANGED sumVars
    BY DEF Next, threadVars
  <2>2. CASE UNCHANGED sumVars
    <3>1. UNCHANGED <<sample, created, joined, printed, pc, i, reg, owner, value>>
      BY <2>2, SampleFixed DEF sumVars
    <3>2. /\ NumThreads' = NumThreads
          /\ \A t : Datum(t)' = Datum(t) /\ Part(t)' = Part(t)
      BY <3>1 DEF NumThreads, Datum, Part, Start
    <3> QED
      BY <3>1, <3>2 DEF SumInv, SumTypeOK, MainInv, InOrder, InTurn, Exclusive, Additions
  <2> QED
    BY <2>1, <2>2, SumKept
<1> QED
  BY <1>1, <1>2, PTL DEF Spec, threadVars

(* What main prints is the sum, and it prints after the last addition.     *)
THEOREM ResultExactHolds == Spec => []ResultExact
  BY SumInvariance, SumInvImplies, PTL

(* The lock two threads compete for implements the abstract lock.          *)
THEOREM SumImplementsSlotLock == Spec => ImplementsSlotLock
<1>1. Init => SumLock!Init
  <2> SUFFICES ASSUME SumInit PROVE {t \in Threads : pc[t] \in InLock /\ Datum(t) = Contended} = {}
    BY DEF Init, SumLock!Init
  <2> QED
    BY DEF SumInit, InLock
<1>2. SumInv /\ [Next]_threadVars => [SumLock!Next]_(SumLock!vars)
  <2> SUFFICES ASSUME SumInv, [Next]_threadVars
               PROVE  [SumLock!Next]_(SumLock!vars)
    OBVIOUS
  <2>1. SumNext \/ UNCHANGED sumVars
    BY DEF Next, threadVars
  <2>2. CASE UNCHANGED sumVars
    <3>1. UNCHANGED <<sample, pc>>
      BY <2>2, SampleFixed DEF sumVars
    <3>2. InsideSum' = InsideSum
      BY <3>1 DEF InsideSum, Datum, Contended
    <3> QED
      BY <3>2 DEF SumLock!vars, InsideSum
  <2> QED
    BY <2>1, <2>2, SumRefines
<1> QED
  BY <1>1, <1>2, SumInvariance, PTL DEF Spec, threadVars, ImplementsSlotLock, SumLock!Spec

(* The inductive invariant of the threads that own things.                 *)
THEOREM LifeInvariance == Spec => []LifeInv
<1>1. Init => LifeInv
  BY LifeInitHolds DEF Init
<1>2. LifeInv /\ [Next]_threadVars => LifeInv'
  <2> SUFFICES ASSUME LifeInv, [Next]_threadVars
               PROVE  LifeInv'
    OBVIOUS
  <2>1. LifeNext \/ UNCHANGED lifeVars
    BY DEF Next, threadVars
  <2>2. CASE UNCHANGED lifeVars
    <3>1. sample' = sample /\ UNCHANGED <<th, proc, once, keys, pending>>
      BY <2>2, SampleFixed DEF lifeVars
    <3>2. AllClean'
      BY <3>1, CleanNext DEF LifeInv, AllClean
    <3> QED
      BY <3>1, <3>2 DEF LifeInv, OneKey, AtKey, Masked, OnlySigwait
  <2> QED
    BY <2>1, <2>2, LifeKept
<1> QED
  BY <1>1, <1>2, PTL DEF Spec, threadVars

(* However a thread ends, what it allocated is freed exactly once; no      *)
(* thread prints another's words; the key is created once; SIGINT that     *)
(* main has blocked reaches only the thread in sigwait.                    *)
THEOREM EndsCleanHolds == Spec => []EndsClean
  BY LifeInvariance, LifeInvImplies, PTL

(* The invariant of the work queue, on the specification of all samples.   *)
THEOREM CondInvariance == Spec => []CondInv
<1>1. Init => CondInv
  BY InitHolds DEF Init
<1>2. CondInv /\ [Next]_threadVars => CondInv'
  <2> SUFFICES ASSUME CondInv, [Next]_threadVars
               PROVE  CondInv'
    OBVIOUS
  <2>1. [CondNext]_<<sample, condVars>>
    BY SampleFixed DEF Next, threadVars
  <2> QED
    BY <2>1, CondKept
<1> QED
  BY <1>1, <1>2, PTL DEF Spec, threadVars

(* Every piece of work made is there or has been consumed, exactly once.   *)
THEOREM WorkConservedHolds == Spec => []WorkConserved
  BY CondInvariance, PTL DEF CondInv

(* main is never left asleep on work that nobody will signal.              *)
THEOREM NoWorkSleptOnHolds == Spec => []NoWorkSleptOn
  BY CondInvariance, PTL DEF CondInv

(* Every variable of every thread sample keeps its type.                   *)
THEOREM TypesOKHolds == Spec => []TypesOK
<1>1. SumInv /\ CondInv /\ LifeInv => TypesOK
  BY LifeInvImplies DEF SumInv, CondInv, TypesOK
<1> QED
  BY <1>1, SumInvariance, CondInvariance, LifeInvariance, PTL
=============================================================================
