--------------------------- MODULE PosixMqProofs ----------------------------
(***************************************************************************)
(* Proofs about the message queue: the state is well formed, the right to  *)
(* be notified is never lost or doubled, and no message is slept on, for   *)
(* any number of writers, readers and threads and any queue size.          *)
(***************************************************************************)
EXTENDS PosixMq, FiniteSetTheorems, TLAPS

(* Before a notified program has registered it has no signal and no        *)
(* threads, and a signal that has been taken is not pending any more.      *)
Quiet ==
  Alone /\ strays = 0 =>
    /\ ~HasSig => sigpc = "open"
    /\ ~HasThr => thrpc = "open"
    /\ sigpc \in {"open", "notify", "noqueue"} => ~pending /\ owner # "sig"
    /\ sigpc = "renotify" => ~pending
    /\ thrpc # "pause" => owner # "thr" /\ \A t \in Threads : th[t] = "idle"

(* Writers started after the registration find it made. *)
WritersWait ==
  NotifyFirst /\ Alone /\ strays = 0 /\ ~Registered =>
    queue = {} /\ \A w \in Writers : wpc[w] = 0

RInv == OneRegistration /\ Quiet
IInv == TypeOK /\ RInv /\ WritersWait /\ NoLostWakeup

(* Taking a message leaves a finite queue that is no longer than before. *)
LEMMA TakeShrinks ==
  ASSUME TypeOK, Take
  PROVE  /\ queue' \subseteq queue
         /\ IsFiniteSet(queue') /\ Cardinality(queue') <= MqSize
<1>1. PICK m \in queue : queue' = queue \ {m}
  BY DEF Take
<1>2. IsFiniteSet(queue') /\ Cardinality(queue') = Cardinality(queue) - 1
  BY <1>1, FS_RemoveElement DEF TypeOK
<1>3. Cardinality(queue) \in Nat
  BY FS_CardinalityType DEF TypeOK
<1> QED
  BY <1>1, <1>2, <1>3, MqAssumption DEF TypeOK

(* One more element. *)
LEMMA AddFits ==
  ASSUME NEW S, IsFiniteSet(S), NEW e
  PROVE  IsFiniteSet(S \cup {e}) /\ Cardinality(S \cup {e}) <= Cardinality(S) + 1
<1>1. /\ IsFiniteSet(S \cup {e})
      /\ Cardinality(S \cup {e}) = IF e \in S THEN Cardinality(S) ELSE Cardinality(S) + 1
  BY FS_AddElement, Zenon
<1>2. Cardinality(S) \in Nat
  BY FS_CardinalityType
<1> QED
  BY <1>1, <1>2

(* Sending keeps the queue within its size. *)
LEMMA SendFits ==
  ASSUME TypeOK, NEW w \in Writers, Send(w)
  PROVE  /\ queue' \subseteq Msgs
         /\ IsFiniteSet(queue') /\ Cardinality(queue') <= MqSize
<1>1. CASE queue' = queue
  BY <1>1 DEF TypeOK
<1>2. CASE Cardinality(queue) < MqSize /\ queue' = queue \cup {<<w, wpc[w]>>}
  <2>1. wpc[w] \in 1..3
    BY DEF Send
  <2>2. IsFiniteSet(queue') /\ Cardinality(queue') <= Cardinality(queue) + 1
    BY <1>2, AddFits DEF TypeOK
  <2>3. Cardinality(queue) \in Nat /\ Cardinality(queue') \in Nat
    BY <2>2, FS_CardinalityType DEF TypeOK
  <2>4. queue' \subseteq Msgs
    BY <1>2, <2>1 DEF TypeOK, Msgs
  <2> QED
    BY <1>2, <2>2, <2>3, <2>4, MqAssumption
<1> QED
  BY <1>1, <1>2 DEF Send

(* Every step keeps the state well formed. *)
LEMMA TypeStep ==
  ASSUME TypeOK, [Next]_vars
  PROVE  TypeOK'
<1> USE MqAssumption DEF others, setup
<1>1. CASE Create \/ Destroy
  BY <1>1 DEF Create, Destroy, TypeOK
<1>2. ASSUME NEW w \in Writers, WOpen(w) PROVE TypeOK'
  BY <1>2 DEF WOpen, TypeOK
<1>3. ASSUME NEW w \in Writers, Send(w) PROVE TypeOK'
  <2>1. owner' \in {"none", "sig", "thr"} /\ th' \in [Threads -> {"idle", "start", "drain"}]
    BY <1>3 DEF Send, Notify, TypeOK
  <2>2. pending' = pending \/ pending' = TRUE
    BY <1>3 DEF Send, Notify
  <2>3. pending' \in BOOLEAN
    BY <2>2, Zenon DEF TypeOK
  <2>4. wpc' \in [Writers -> 0..5]
    BY <1>3 DEF Send, TypeOK
  <2>5. rpc' \in [Readers -> {"open", "recv", "blocked", "done", "errExit"}]
    BY <1>3 DEF Send, TypeOK
  <2> QED
    BY <1>3, <2>1, <2>3, <2>4, <2>5, SendFits DEF Send, TypeOK
<1>4. ASSUME NEW r \in Readers, Read(r) PROVE TypeOK'
  <2>1. queue' \subseteq Msgs /\ IsFiniteSet(queue') /\ Cardinality(queue') <= MqSize
    BY <1>4, TakeShrinks DEF Read, TypeOK
  <2> QED
    BY <1>4, <2>1 DEF Read, TypeOK
<1>5. CASE SigOpen \/ SigNotify
  BY <1>5 DEF SigOpen, SigNotify, TypeOK
<1>6. CASE SigSuspend
  BY <1>6 DEF SigSuspend, TypeOK
<1>7. CASE SigDrain
  <2>1. queue' \subseteq Msgs /\ IsFiniteSet(queue') /\ Cardinality(queue') <= MqSize
    BY <1>7, TakeShrinks DEF SigDrain, TypeOK
  <2> QED
    BY <1>7, <2>1 DEF SigDrain, TypeOK
<1>8. CASE Stray
  BY <1>8 DEF Stray, TypeOK
<1>9. CASE ThrMain
  BY <1>9 DEF ThrMain, TypeOK
<1>10. ASSUME NEW t \in Threads, ThreadFunc(t) PROVE TypeOK'
  <2>1. queue' \subseteq Msgs /\ IsFiniteSet(queue') /\ Cardinality(queue') <= MqSize
    BY <1>10, TakeShrinks DEF ThreadFunc, TypeOK
  <2> QED
    BY <1>10, <2>1 DEF ThreadFunc, TypeOK
<1>11. CASE UNCHANGED vars
  BY <1>11 DEF vars, TypeOK
<1> QED
  BY <1>1, <1>2, <1>3, <1>4, <1>5, <1>6, <1>7, <1>8, <1>9, <1>10, <1>11
     DEF Next, Writer, SigProgram, ThrProgram

(* The queue sample's state is always well formed and never over-full.     *)
THEOREM TypeCorrect == Spec => []TypeOK
<1>1. Init => TypeOK
  <2>1. IsFiniteSet({}) /\ Cardinality({}) = 0
    BY FS_EmptySet
  <2>2. Init => pending \in BOOLEAN
    BY Zenon DEF Init
  <2> QED
    BY <2>1, <2>2, MqAssumption DEF Init, TypeOK
<1> QED
  BY <1>1, TypeStep, PTL DEF Spec

(* The registration and what stands for it move together. *)
LEMMA RegistrationStep ==
  ASSUME TypeOK, RInv, [Next]_vars
  PROVE  RInv'
<1> SUFFICES ASSUME Alone', strays' = 0
             PROVE  RInv'
  BY DEF RInv, OneRegistration, Quiet
<1> USE DEF Alone, Starting, OneRegistration, Quiet, RInv, TypeOK, others, setup,
            HasSig, HasThr
<1>1. CASE Create \/ Destroy
  BY <1>1 DEF Create, Destroy
<1>2. ASSUME NEW w \in Writers, WOpen(w) PROVE RInv'
  BY <1>2 DEF WOpen
<1>3. ASSUME NEW w \in Writers, Send(w) PROVE RInv'
  BY <1>3 DEF Send, Notify
<1>4. ASSUME NEW r \in Readers, Read(r) PROVE RInv'
  BY <1>4 DEF Read
<1>5. CASE SigOpen \/ SigNotify
  <2>1. CASE SigOpen
    BY <2>1 DEF SigOpen
  <2>2. CASE SigNotify
    BY <2>2 DEF SigNotify
  <2> QED
    BY <1>5, <2>1, <2>2
<1>6. CASE SigSuspend
  BY <1>6 DEF SigSuspend
<1>7. CASE SigDrain
  BY <1>7 DEF SigDrain
<1>8. CASE Stray
  BY <1>8 DEF Stray
<1>9. CASE ThrMain
  BY <1>9 DEF ThrMain
<1>10. ASSUME NEW t \in Threads, ThreadFunc(t) PROVE RInv'
  BY <1>10 DEF ThreadFunc
<1>11. CASE UNCHANGED vars
  BY <1>11 DEF vars
<1> QED
  BY <1>1, <1>2, <1>3, <1>4, <1>5, <1>6, <1>7, <1>8, <1>9, <1>10, <1>11
     DEF Next, Writer, SigProgram, ThrProgram

(* Writers that wait for the registration find it made, and what they send *)
(* is on its way to be read.                                               *)
LEMMA WakeupStep ==
  ASSUME TypeOK, RInv, WritersWait, NoLostWakeup, [Next]_vars
  PROVE  WritersWait' /\ NoLostWakeup'
<1> SUFFICES ASSUME NotifyFirst', Alone', strays' = 0
             PROVE  WritersWait' /\ NoLostWakeup'
  BY DEF WritersWait, NoLostWakeup
<1> USE DEF Alone, Starting, OneRegistration, Quiet, RInv, WritersWait, Registered,
            NoLostWakeup, NotifyFirst, TypeOK, others, setup, HasSig, HasThr
<1>1. CASE Create \/ Destroy
  BY <1>1 DEF Create, Destroy
<1>2. ASSUME NEW w \in Writers, WOpen(w) PROVE WritersWait' /\ NoLostWakeup'
  BY <1>2 DEF WOpen
<1>3. ASSUME NEW w \in Writers, Send(w) PROVE WritersWait' /\ NoLostWakeup'
  <2>1. Registered
    BY <1>3 DEF Send
  <2>2. WritersWait'
    BY <1>3, <2>1 DEF Send
  <2>3. CASE queue' = queue \/ queue # {}
    BY <1>3, <2>3 DEF Send
  <2>4. CASE queue = {} /\ Notify
    BY <1>3, <2>1, <2>4 DEF Send, Notify
  <2> QED
    BY <1>3, <2>2, <2>3, <2>4 DEF Send
<1>4. ASSUME NEW r \in Readers, Read(r) PROVE WritersWait' /\ NoLostWakeup'
  BY <1>4 DEF Read, Take
<1>5. CASE SigOpen \/ SigNotify
  <2>1. CASE SigOpen
    BY <2>1 DEF SigOpen
  <2>2. CASE SigNotify
    BY <2>2 DEF SigNotify
  <2> QED
    BY <1>5, <2>1, <2>2
<1>6. CASE SigSuspend
  BY <1>6 DEF SigSuspend
<1>7. CASE SigDrain
  BY <1>7 DEF SigDrain, Take
<1>8. CASE Stray
  BY <1>8 DEF Stray
<1>9. CASE ThrMain
  BY <1>9 DEF ThrMain
<1>10. ASSUME NEW t \in Threads, ThreadFunc(t) PROVE WritersWait' /\ NoLostWakeup'
  BY <1>10 DEF ThreadFunc, Take
<1>11. CASE UNCHANGED vars
  BY <1>11 DEF vars
<1> QED
  BY <1>1, <1>2, <1>3, <1>4, <1>5, <1>6, <1>7, <1>8, <1>9, <1>10, <1>11
     DEF Next, Writer, SigProgram, ThrProgram

(* The inductive invariant. *)
THEOREM Invariance == Spec => []IInv
<1>1. Init => RInv /\ WritersWait /\ NoLostWakeup
  BY DEF Init, RInv, OneRegistration, Quiet, WritersWait, NoLostWakeup, Alone, Starting
<1>2. IInv /\ [Next]_vars => (RInv /\ WritersWait /\ NoLostWakeup)'
  BY RegistrationStep, WakeupStep DEF IInv
<1> QED
  BY <1>1, <1>2, TypeCorrect, PTL DEF Spec, IInv

(* A notified program that is alone is registered or about to register     *)
(* again, never both: mq_notify does not fail with EBUSY.                  *)
THEOREM NeverBusy == Spec => []OneRegistration
  BY Invariance, PTL DEF IInv, RInv

(* Registering again before reading, the programs sleep on no message.     *)
THEOREM NothingSleptOn == Spec => []NoLostWakeup
  BY Invariance, PTL DEF IInv
=============================================================================
