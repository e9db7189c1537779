----------------------------- MODULE LockedSum ------------------------------
(***************************************************************************)
(* Threads that add to a shared sum under a lock, main joining them and    *)
(* printing the result:                                                    *)
(*   LinuxAPI2/pthread_sync.c            a static and an error-checking    *)
(*                                       mutex, taken for every addition   *)
(*   LinuxAPI2/ipc_posix_unnamed_sem.c   the same with a semaphore of 1    *)
(*   api3/pthread_lock.c mutex_example   a mutex inside each datum, taken  *)
(*                                       once around the whole loop        *)
(* `gsum += i' is a load and a store.                                      *)
(***************************************************************************)
EXTENDS Samples, Naturals

CONSTANT Count   \* additions per thread (100, and 10000 in mutex_example)
ASSUME CountAssumption == Count \in Nat \ {0}

Threads == 1..3
Data    == 1..2
SumSamples == {"pthread_sync", "pthread_sync_error_checking_mutex",
               "ipc_posix_unnamed_sem", "mutex_example"}

VARIABLES created, joined,  \* threads main has created and joined
          printed,          \* main has printed the result
          pc, i, reg,       \* per thread: next step, loop variable, register
          owner,            \* per datum: thread in its lock, 0 if it is free
          value             \* per datum: gsum, or the member value

sumVars == <<created, joined, printed, pc, i, reg, owner, value>>

InLock == {"load", "store", "unlock"}

\* main starts three threads on two data, or two threads on one.
NumThreads == IF sample = "mutex_example" THEN 3 ELSE 2
Datum(t)   == IF sample = "mutex_example" /\ t # 1 THEN 2 ELSE 1
Start(t)   == IF sample = "mutex_example" THEN 0 ELSE (t - 1) * Count

(* The threads' state is well formed. *)
SumTypeOK ==
  /\ created \in 0..3 /\ joined \in 0..created /\ printed \in BOOLEAN
  /\ pc \in [Threads -> InLock \cup {"lock", "done", "errExit"}]
  /\ i \in [Threads -> 0..Count]
  /\ reg \in [Threads -> Nat] /\ value \in [Data -> Nat]
  /\ owner \in [Data -> 0..3]

SumInit ==
  /\ created = 0 /\ joined = 0 /\ printed = FALSE
  /\ pc = [t \in Threads |-> "lock"]
  /\ i = [t \in Threads |-> 0]
  /\ reg = [t \in Threads |-> 0]
  /\ owner = [d \in Data |-> 0]
  /\ value = [d \in Data |-> 0]

To(t, l) == pc' = [pc EXCEPT ![t] = l]
MainIdle == UNCHANGED <<sample, created, joined, printed>>
-----------------------------------------------------------------------------
MutLock(t) ==
  /\ pc[t] = "lock" /\ To(t, "load")
  /\ owner' = [owner EXCEPT ![Datum(t)] = t]
  /\ UNCHANGED <<i, reg, value>>

\* pthread_mutex_lock or sem_wait.
Lock(t) ==
  /\ pc[t] = "lock" /\ owner[Datum(t)] = 0
  /\ owner' = [owner EXCEPT ![Datum(t)] = t]
  /\ To(t, "load") /\ UNCHANGED <<i, reg, value>>

\* gsum += i; the loop ends here or goes on at next.
Add(t, next) ==
  \/ /\ pc[t] = "load" /\ To(t, "store")
     /\ reg' = [reg EXCEPT ![t] = value[Datum(t)]]
     /\ UNCHANGED <<i, owner, value>>
  \/ /\ pc[t] = "store"
     /\ value' = [value EXCEPT ![Datum(t)] = reg[t] + Start(t) + i[t]]
     /\ i' = [i EXCEPT ![t] = @ + 1]
     /\ To(t, IF i'[t] = Count THEN "unlock" ELSE next)
     /\ UNCHANGED <<reg, owner>>

\* The unlock call by whoever holds the lock.
Unlock(t) ==
  /\ pc[t] = "unlock"
  /\ owner' = [owner EXCEPT ![Datum(t)] = 0]
  /\ To(t, IF i[t] = Count THEN "done" ELSE "lock")
  /\ UNCHANGED <<i, reg, value>>

\* An error-checking mutex refuses to be unlocked by another thread.
UnlockChecked(t) ==
  /\ pc[t] = "unlock" /\ UNCHANGED <<i, reg, value>>
  /\ IF owner[Datum(t)] = t
       THEN /\ owner' = [owner EXCEPT ![Datum(t)] = 0]
            /\ To(t, IF i[t] = Count THEN "done" ELSE "lock")
       ELSE UNCHANGED owner /\ To(t, "errExit")

Running(t, s) == sample = s /\ t <= created /\ MainIdle

thread_func(t) ==
  /\ Running(t, "pthread_sync")
  /\ Lock(t) \/ Add(t, "unlock") \/ Unlock(t)

thread_func_error_checking_mutex(t) ==
  /\ Running(t, "pthread_sync_error_checking_mutex")
  /\ Lock(t) \/ Add(t, "unlock") \/ UnlockChecked(t)

sem_thread_func(t) ==
  /\ Running(t, "ipc_posix_unnamed_sem")
  /\ Lock(t) \/ Add(t, "unlock") \/ Unlock(t)

start_routine_lock(t) ==
  /\ Running(t, "mutex_example")
  /\ Lock(t) \/ Add(t, "load") \/ Unlock(t)

MutJoinLastOnly(s) ==
  /\ sample = s /\ UNCHANGED <<sample, pc, i, reg, owner, value>>
  /\ \/ /\ created < NumThreads /\ created' = created + 1
        /\ UNCHANGED <<joined, printed>>
     \/ /\ created = NumThreads /\ joined < created /\ pc[created] = "done"
        /\ joined' = created /\ UNCHANGED <<created, printed>>
     \/ /\ joined = NumThreads /\ ~printed
        /\ printed' = TRUE /\ UNCHANGED <<created, joined>>

\* main: create the threads, join them in order, print.
CreateJoinPrint(s) ==
  /\ sample = s /\ UNCHANGED <<sample, pc, i, reg, owner, value>>
  /\ \/ /\ created < NumThreads /\ created' = created + 1
        /\ UNCHANGED <<joined, printed>>
     \/ /\ created = NumThreads /\ joined < created /\ pc[joined + 1] = "done"
        /\ joined' = joined + 1 /\ UNCHANGED <<created, printed>>
     \/ /\ joined = NumThreads /\ ~printed
        /\ printed' = TRUE /\ UNCHANGED <<created, joined>>

pthread_sync                      == CreateJoinPrint("pthread_sync")
pthread_sync_error_checking_mutex == CreateJoinPrint("pthread_sync_error_checking_mutex")
ipc_posix_unnamed_sem             == CreateJoinPrint("ipc_posix_unnamed_sem")
mutex_example                     == CreateJoinPrint("mutex_example")

SumMain == \/ pthread_sync \/ pthread_sync_error_checking_mutex
           \/ ipc_posix_unnamed_sem \/ mutex_example
SumThread(t) == \/ thread_func(t) \/ thread_func_error_checking_mutex(t)
                \/ sem_thread_func(t) \/ start_routine_lock(t)

SumNext == SumMain \/ \E t \in Threads : SumThread(t)

(* Finitely many additions: a thread that finds the lock free from some    *)
(* moment on gets it.                                                      *)
SumFairness == WF_sumVars(SumMain) /\ \A t \in Threads : WF_sumVars(SumThread(t))
-----------------------------------------------------------------------------
(* What main prints is the sum, computed the other way (Gauss): no         *)
(* addition is lost between load and store, and main prints only after the *)
(* last thread's last addition.                                            *)
ResultExact ==
  printed =>
    IF sample = "mutex_example"
      THEN 2 * value[1] = Count * (Count - 1) /\ value[2] = Count * (Count - 1)
      ELSE value[1] = Count * (2 * Count - 1)

(* The lock of the datum two threads compete for implements the abstract   *)
(* lock with one slot.                                                     *)
Contended == IF sample = "mutex_example" THEN 2 ELSE 1
SumLock == INSTANCE SlotLock WITH
             Procs  <- Threads, Slots <- 1, lost <- {},
             inside <- {t \in Threads : pc[t] \in InLock /\ Datum(t) = Contended}
ImplementsSlotLock == SumLock!Spec

=============================================================================
