----------------------------- MODULE CondQueue ------------------------------
(***************************************************************************)
(* Threads that make work under a mutex and signal a condition variable    *)
(* after unlocking it, and a main thread that waits on the variable:       *)
(*   LinuxAPI2/pthread_condition_variable.c and api3/pthread_lock.c        *)
(*     mutex_cond_example: main tests the predicate and consumes           *)
(*   api3/timer_example.c timer_example_settime_thread: a new thread for   *)
(*     every expiry of a timer counts; main waits without a predicate and  *)
(*     stops when the count exceeds 5                                      *)
(***************************************************************************)
EXTENDS Samples, Naturals, FiniteSets

CONSTANTS Producers,   \* threads (for the timer: those alive at a time)
          Rounds       \* turns of a thread's loop (1000; 10 in api3)

Main  == "main"
NoOne == "none"
Limit == 5             \* loop_count > 5

ASSUME ProducersAssumption == Main \notin Producers /\ NoOne \notin Producers

WorkSamples == {"pthread_cond_var", "mutex_cond_example"}
TimerSample == "timer_example_settime_thread"

VARIABLES mtx,       \* who holds the mutex
          work,      \* work, job or loop_count (no further than Limit + 1)
          mpc,       \* main thread
          ppc, tmp,  \* per thread: next step, register of work++
          made,      \* per thread: turns done
          produced, consumed   \* history: all work++ and work--

condVars == <<mtx, work, mpc, ppc, tmp, made, produced, consumed>>

PInside == {"load", "store", "unlock"}
MInside == {"test", "consume", "check"}

(* The threads' state is well formed. *)
CondTypeOK ==
  /\ mtx \in Producers \cup {Main, NoOne}
  /\ work \in Nat /\ produced \in Nat /\ consumed \in Nat
  /\ mpc \in MInside \cup {"lock", "asleep", "woken", "done"}
  /\ ppc \in [Producers -> PInside \cup {"sleep", "signal", "done"}]
  /\ tmp \in [Producers -> Nat] /\ made \in [Producers -> Nat]

CondInit ==
  /\ mtx = NoOne /\ work = 0 /\ mpc = "lock"
  /\ ppc = [p \in Producers |-> "sleep"]
  /\ tmp = [p \in Producers |-> 0] /\ made = [p \in Producers |-> 0]
  /\ produced = 0 /\ consumed = 0

At(p, from, to) == ppc[p] = from /\ ppc' = [ppc EXCEPT ![p] = to]
-----------------------------------------------------------------------------
MutMakeWork(p) ==
  /\ \/ At(p, "sleep", "load") /\ mtx' = p /\ UNCHANGED <<work, tmp, produced>>
     \/ /\ At(p, "load", "store") /\ tmp' = [tmp EXCEPT ![p] = work]
        /\ UNCHANGED <<mtx, work, produced>>
     \/ /\ At(p, "store", "unlock") /\ UNCHANGED <<mtx, tmp>>
        /\ work' = tmp[p] + 1 /\ produced' = produced + 1
     \/ At(p, "unlock", "signal") /\ mtx' = NoOne /\ UNCHANGED <<work, tmp, produced>>
  /\ UNCHANGED <<mpc, made>>

(* lock; work++; unlock: the part of a turn under the mutex.  The timer's  *)
(* count is cut off at Limit + 1: main only compares it with Limit.        *)
MakeWork(p) ==
  /\ \/ /\ At(p, "sleep", "load") /\ mtx = NoOne /\ mtx' = p
        /\ UNCHANGED <<work, tmp, produced>>
     \/ /\ At(p, "load", "store") /\ tmp' = [tmp EXCEPT ![p] = work]
        /\ UNCHANGED <<mtx, work, produced>>
     \/ /\ At(p, "store", "unlock") /\ UNCHANGED <<mtx, tmp>>
        /\ IF sample = TimerSample
             THEN work' = (IF tmp[p] > Limit THEN tmp[p] ELSE tmp[p] + 1) /\ UNCHANGED produced
             ELSE work' = tmp[p] + 1 /\ produced' = produced + 1
     \/ At(p, "unlock", "signal") /\ mtx' = NoOne /\ UNCHANGED <<work, tmp, produced>>
  /\ UNCHANGED <<mpc, made>>

MutSignal(p) ==
  /\ ppc[p] = "signal" /\ UNCHANGED <<mtx, work, mpc, tmp, produced>>

(* pthread_cond_signal: wakes main if it is waiting, else does nothing. *)
Signal(p) ==
  /\ ppc[p] = "signal"
  /\ mpc' = IF mpc = "asleep" THEN "woken" ELSE mpc
  /\ UNCHANGED <<mtx, work, tmp, produced>>

\* The next turn of a thread's loop, or its end.
Turn(p) ==
  /\ made' = [made EXCEPT ![p] = @ + 1]
  /\ ppc' = [ppc EXCEPT ![p] = IF made'[p] >= Rounds THEN "done" ELSE "sleep"]

thread_func_work(p) ==
  /\ sample = "pthread_cond_var"
  /\ MakeWork(p) \/ (Signal(p) /\ Turn(p))
  /\ UNCHANGED <<sample, consumed>>

start_routine_cond(p) ==
  /\ sample = "mutex_cond_example"
  /\ MakeWork(p) \/ (Signal(p) /\ Turn(p))
  /\ UNCHANGED <<sample, consumed>>

\* A thread of the timer ends; another is started unless it is deleted.
thread_func_timer(p) ==
  /\ sample = TimerSample
  /\ \/ (ppc[p] = "sleep" => mpc # "done") /\ MakeWork(p)
     \/ Signal(p) /\ ppc' = [ppc EXCEPT ![p] = "sleep"] /\ UNCHANGED made
  /\ UNCHANGED <<sample, consumed>>

Producer(p) == thread_func_work(p) \/ start_routine_cond(p) \/ thread_func_timer(p)
-----------------------------------------------------------------------------
OthersIdle == UNCHANGED <<sample, ppc, tmp, made, produced>>

\* pthread_cond_wait releases the mutex and waits in one step ...
CondWait == mtx' = NoOne /\ mpc' = "asleep" /\ UNCHANGED <<work, consumed>>

\* ... may return though nobody signalled ...
SpuriousWakeup ==
  /\ mpc = "asleep" /\ mpc' = "woken"
  /\ OthersIdle /\ UNCHANGED <<mtx, work, consumed>>

\* ... and takes the mutex again before it returns.
TakeMutex(next) ==
  /\ mtx = NoOne /\ mtx' = Main /\ mpc' = next /\ UNCHANGED <<work, consumed>>

MutConsumeOnce ==
  \/ mpc \in {"lock", "woken"} /\ TakeMutex(IF mpc = "lock" THEN "test" ELSE "consume")
  \/ mpc = "test" /\ work = 0 /\ CondWait
  \/ mpc = "test" /\ work > 0 /\ mpc' = "consume" /\ UNCHANGED <<mtx, work, consumed>>
  \/ /\ mpc = "consume" /\ work' = work - 1 /\ consumed' = consumed + 1
     /\ mpc' = "test" /\ UNCHANGED mtx

(* while(1) { while(work == 0) wait; while(work > 0) work--; } *)
ConsumeLoop ==
  \/ mpc \in {"lock", "woken"} /\ TakeMutex("test")
  \/ mpc = "test" /\ work = 0 /\ CondWait
  \/ mpc = "test" /\ work > 0 /\ mpc' = "consume" /\ UNCHANGED <<mtx, work, consumed>>
  \/ /\ mpc = "consume" /\ work > 0
     /\ work' = work - 1 /\ consumed' = consumed + 1
     /\ UNCHANGED <<mtx, mpc>>
  \/ mpc = "consume" /\ work = 0 /\ mpc' = "test" /\ UNCHANGED <<mtx, work, consumed>>

pthread_cond_var   == sample = "pthread_cond_var" /\ ConsumeLoop /\ OthersIdle
mutex_cond_example == sample = "mutex_cond_example" /\ ConsumeLoop /\ OthersIdle

\* cond_wait without a predicate, until the count exceeds Limit.
timer_example_settime_thread ==
  /\ sample = TimerSample /\ OthersIdle
  /\ \/ mpc = "lock" /\ TakeMutex("test")
     \/ mpc = "test" /\ CondWait
     \/ mpc = "woken" /\ TakeMutex("check")
     \/ mpc = "check" /\ work <= Limit /\ mpc' = "test" /\ UNCHANGED <<mtx, work, consumed>>
     \/ /\ mpc = "check" /\ work > Limit /\ mpc' = "done"
        /\ mtx' = NoOne /\ UNCHANGED <<work, consumed>>

MainThread == pthread_cond_var \/ mutex_cond_example \/ timer_example_settime_thread

CondNext == MainThread \/ SpuriousWakeup \/ \E p \in Producers : Producer(p)

(* Threads run, and whoever waits for the mutex gets it if it is free      *)
(* again and again (turns are a second or more apart).  Nothing obliges    *)
(* pthread_cond_wait to return without a signal.                           *)
CondFairness == SF_condVars(MainThread) /\ \A p \in Producers : SF_condVars(Producer(p))
CondSpec == CondInit /\ [][CondNext]_<<sample, condVars>>
-----------------------------------------------------------------------------
(* main is never left asleep on work: the thread that made it has yet to   *)
(* signal, although the signal comes after the unlock.                     *)
NoWorkSleptOn ==
  sample \in WorkSamples /\ mpc = "asleep" /\ work > 0
    => \E p \in Producers : ppc[p] \in {"unlock", "signal"}

(* Every piece of work made is still there or has been consumed once. *)
WorkConserved == work + consumed = produced \/ sample = TimerSample

(* All that the threads make is consumed in the end.  The timer sample     *)
(* ends, too: signals sent while main is not waiting are lost, but only    *)
(* delay it.                                                               *)
AllConsumed ==
  /\ sample \in WorkSamples ~> consumed = Rounds * Cardinality(Producers)
  /\ sample = TimerSample ~> mpc = "done"

=============================================================================
