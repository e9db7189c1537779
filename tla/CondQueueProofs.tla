-------------------------- MODULE CondQueueProofs ---------------------------
(***************************************************************************)
(* Proofs about the condition-variable samples, for any set of threads and *)
(* any number of rounds: the mutex excludes, no update of work is lost,    *)
(* and main is never left asleep on work.                                  *)
(***************************************************************************)
EXTENDS CondQueue, TLAPS

(* The program counters agree with the mutex, and the register of a thread *)
(* about to store is still the current value.                              *)
Excluded ==
  /\ \A p \in Producers : ppc[p] \in PInside <=> mtx = p
  /\ mpc \in MInside <=> mtx = Main
  /\ \A p \in Producers : ppc[p] = "store" => tmp[p] = work

CondInv == CondTypeOK /\ Excluded /\ WorkConserved /\ NoWorkSleptOn

(* The invariant holds before any thread has run.                          *)
LEMMA InitHolds == CondInit => CondInv
  BY ProducersAssumption
     DEF CondInit, CondInv, CondTypeOK, Excluded, WorkConserved, NoWorkSleptOn,
         PInside, MInside, Main, NoOne

(* lock; work++; unlock. *)
LEMMA MakeWorkStep ==
  ASSUME CondInv, NEW p \in Producers, MakeWork(p), UNCHANGED <<sample, consumed>>
  PROVE  CondInv'
<1> USE ProducersAssumption DEF CondInv, CondTypeOK, Excluded, PInside, MInside, Main, NoOne
<1>1. CondTypeOK'
  BY DEF MakeWork, At, Limit
<1>2. Excluded'
  BY DEF MakeWork, At
<1>3. WorkConserved'
  BY DEF MakeWork, At, WorkConserved
<1>4. NoWorkSleptOn'
  BY DEF MakeWork, At, NoWorkSleptOn
<1> QED
  BY <1>1, <1>2, <1>3, <1>4

(* pthread_cond_signal and the end of a turn. *)
LEMMA SignalStep ==
  ASSUME CondInv, NEW p \in Producers, Signal(p), UNCHANGED <<sample, consumed>>,
         ppc' = [ppc EXCEPT ![p] = "done"] \/ ppc' = [ppc EXCEPT ![p] = "sleep"],
         made' \in [Producers -> Nat]
  PROVE  CondInv'
<1> USE ProducersAssumption DEF CondInv, CondTypeOK, Excluded, PInside, MInside, Main, NoOne
<1>1. CondTypeOK' /\ Excluded'
  BY DEF Signal
<1>2. WorkConserved'
  BY DEF Signal, WorkConserved
<1>3. NoWorkSleptOn'
  BY DEF Signal, NoWorkSleptOn
<1> QED
  BY <1>1, <1>2, <1>3

(* Every step of a thread keeps the invariant. *)
LEMMA ProducerStep ==
  ASSUME CondInv, NEW p \in Producers, Producer(p)
  PROVE  CondInv'
<1>1. CASE MakeWork(p)
  BY <1>1, MakeWorkStep DEF Producer, thread_func_work, start_routine_cond, thread_func_timer
<1>2. CASE Signal(p) /\ Turn(p)
  <2>1. made' \in [Producers -> Nat]
    BY <1>2 DEF Turn, CondInv, CondTypeOK
  <2>2. ppc' = [ppc EXCEPT ![p] = "done"] \/ ppc' = [ppc EXCEPT ![p] = "sleep"]
    BY <1>2 DEF Turn
  <2> QED
    BY <1>2, <2>1, <2>2, SignalStep
       DEF Producer, thread_func_work, start_routine_cond, thread_func_timer
<1>3. CASE Signal(p) /\ ppc' = [ppc EXCEPT ![p] = "sleep"] /\ UNCHANGED made
  BY <1>3, SignalStep
     DEF Producer, thread_func_work, start_routine_cond, thread_func_timer, CondInv, CondTypeOK
<1> QED
  BY <1>1, <1>2, <1>3 DEF Producer, thread_func_work, start_routine_cond, thread_func_timer

(* Every step of main keeps the invariant. *)
LEMMA MainStep ==
  ASSUME CondInv, MainThread
  PROVE  CondInv'
<1> USE ProducersAssumption DEF CondInv, CondTypeOK, Excluded, PInside, MInside, Main, NoOne,
        OthersIdle, CondWait, TakeMutex
<1>1. CASE sample \in WorkSamples /\ ConsumeLoop /\ OthersIdle
  <2>1. CondTypeOK' /\ Excluded'
    BY <1>1 DEF ConsumeLoop
  <2>2. WorkConserved'
    BY <1>1 DEF ConsumeLoop, WorkConserved
  <2>3. NoWorkSleptOn'
    BY <1>1 DEF ConsumeLoop, NoWorkSleptOn
  <2> QED
    BY <2>1, <2>2, <2>3
<1>2. CASE timer_example_settime_thread
  <2>1. CondTypeOK' /\ Excluded'
    BY <1>2 DEF timer_example_settime_thread
  <2>2. WorkConserved' /\ NoWorkSleptOn'
    BY <1>2 DEF timer_example_settime_thread, WorkConserved, NoWorkSleptOn, WorkSamples,
                TimerSample
  <2> QED
    BY <2>1, <2>2
<1> QED
  BY <1>1, <1>2 DEF MainThread, pthread_cond_var, mutex_cond_example, WorkSamples

(* Every step of the threads, and of the kernel, keeps the invariant. *)
LEMMA CondKept ==
  ASSUME CondInv, [CondNext]_<<sample, condVars>>
  PROVE  CondInv'
<1>1. CASE SpuriousWakeup
  BY <1>1, ProducersAssumption
     DEF SpuriousWakeup, OthersIdle, CondInv, CondTypeOK, Excluded, PInside, MInside,
         WorkConserved, NoWorkSleptOn
<1>2. CASE UNCHANGED <<sample, condVars>>
  BY <1>2 DEF condVars, CondInv, CondTypeOK, Excluded, WorkConserved, NoWorkSleptOn
<1> QED
  BY <1>1, <1>2, ProducerStep, MainStep DEF CondNext

(* The inductive invariant. *)
THEOREM Invariance == CondSpec => []CondInv
  BY InitHolds, CondKept, PTL DEF CondSpec

(* The state of the samples is always well formed. *)
THEOREM TypeCorrect == CondSpec => []CondTypeOK
  BY Invariance, PTL DEF CondInv

(* Every piece of work made is there or has been consumed, exactly once.   *)
THEOREM NothingLost == CondSpec => []WorkConserved
  BY Invariance, PTL DEF CondInv

(* main is never left asleep on work that nobody will signal.              *)
THEOREM NothingSleptOn == CondSpec => []NoWorkSleptOn
  BY Invariance, PTL DEF CondInv
=============================================================================
