------------------------------ MODULE PosixMq -------------------------------
(***************************************************************************)
(* LinuxAPI2/ipc_posix_mq.c: one POSIX message queue, the programs that    *)
(* write to it and read one message from it, and the two programs that     *)
(* empty it whenever mq_notify tells them to: one by a signal that         *)
(* sigsuspend waits for, one by a thread the C library starts.             *)
(*                                                                         *)
(* The kernel notifies once per registration, only when a message enters   *)
(* an empty queue and no mq_receive is blocked on it.  Messages of equal   *)
(* priority may be received in any order here; the code relies on none.    *)
(***************************************************************************)
EXTENDS Integers, FiniteSets

CONSTANTS Writers, Readers,  \* runs of ipc_posix_mq_write and ..._read
          Threads,           \* notification threads that may exist at once
          MqSize,            \* MQ_SIZE
          MaxStrays          \* bound on SIGUSR1 sent by somebody else

ASSUME MqAssumption ==
  /\ MqSize \in Nat \ {0, 1}
  /\ MaxStrays \in Nat

Prio == <<1, 0, 2>>          \* of the three messages a writer sends
Msgs == Writers \X (1..3)

VARIABLES linked,   \* the queue: not created yet, created, or unlinked
          queue,    \* messages in the queue
          owner,    \* program registered with mq_notify
          pending,  \* NOTIFY_SIG is pending for the signal program
          sigpc,    \* ipc_posix_mq_read_by_signal
          thrpc,    \* main thread of ipc_posix_mq_read_by_thread
          th,       \* its notification threads
          wpc,      \* per writer: 0 not open, 1..3 next mq_send, 4 done, 5 failed
          rpc,      \* per reader
          strays,   \* foreign SIGUSR1 so far
          started,  \* the notified programs the user runs
          order     \* and whether writers are run after a registration

setup  == <<started, order>>
vars   == <<linked, queue, owner, pending, sigpc, thrpc, th, wpc, rpc, strays, setup>>
others == <<linked, wpc, rpc, strays, setup>>

(* The state is well formed and the queue never holds more than MqSize. *)
TypeOK ==
  /\ linked \in {"no", "yes", "gone"}
  /\ queue \subseteq Msgs
  /\ IsFiniteSet(queue) /\ Cardinality(queue) <= MqSize
  /\ owner \in {"none", "sig", "thr"}
  /\ pending \in BOOLEAN
  /\ sigpc \in {"open", "notify", "suspend", "renotify", "drain", "noqueue", "errExit"}
  /\ thrpc \in {"open", "notify", "pause", "noqueue", "errExit"}
  /\ th \in [Threads -> {"idle", "start", "drain"}]
  /\ wpc \in [Writers -> 0..5]
  /\ rpc \in [Readers -> {"open", "recv", "blocked", "done", "errExit"}]
  /\ strays \in 0..MaxStrays
  /\ started \in {"sig", "thr", "both"} /\ order \in {"any", "notifyFirst"}

Init ==
  /\ linked = "no" /\ queue = {} /\ owner = "none" /\ pending = FALSE
  /\ sigpc = "open" /\ thrpc = "open" /\ th = [t \in Threads |-> "idle"]
  /\ wpc = [w \in Writers |-> 0] /\ rpc = [r \in Readers |-> "open"]
  /\ strays = 0
  /\ started \in {"sig", "thr", "both"} /\ order \in {"any", "notifyFirst"}
-----------------------------------------------------------------------------
\* mq_open(O_CREAT | O_EXCL): a second run fails and changes nothing.
Create ==
  /\ linked = "no" /\ linked' = "yes"
  /\ UNCHANGED <<queue, owner, pending, sigpc, thrpc, th, wpc, rpc, strays, setup>>

\* mq_unlink: those who have it open go on using it.
Destroy ==
  /\ linked = "yes" /\ linked' = "gone"
  /\ UNCHANGED <<queue, owner, pending, sigpc, thrpc, th, wpc, rpc, strays, setup>>

HasSig == started \in {"sig", "both"}
HasThr == started \in {"thr", "both"}
NotifyFirst == order = "notifyFirst"
Registered == sigpc \in {"suspend", "renotify", "drain"} \/ thrpc = "pause"

WOpen(w) ==
  /\ wpc[w] = 0
  /\ NotifyFirst => Registered
  /\ wpc' = [wpc EXCEPT ![w] = IF linked = "yes" THEN 1 ELSE 5]
  /\ UNCHANGED <<linked, queue, owner, pending, sigpc, thrpc, th, rpc, strays, setup>>

(* What a message that enters an empty queue does to the registration: it  *)
(* is used up, and becomes a pending signal or a new thread.               *)
Notify ==
  \/ owner = "none" /\ UNCHANGED <<owner, pending, th>>
  \/ owner = "sig" /\ owner' = "none" /\ pending' = TRUE /\ UNCHANGED th
  \/ /\ owner = "thr" /\ owner' = "none" /\ UNCHANGED pending
     /\ \E t \in Threads : th[t] = "idle" /\ th' = [th EXCEPT ![t] = "start"]

MutSendNoBlock(w) ==
  /\ wpc[w] \in 1..3 /\ wpc' = [wpc EXCEPT ![w] = @ + 1]
  /\ queue' = queue \cup {<<w, wpc[w]>>}
  /\ IF queue = {} THEN Notify ELSE UNCHANGED <<owner, pending, th>>
  /\ UNCHANGED <<linked, sigpc, thrpc, rpc, strays, setup>>

(* mq_send: blocks while the queue is full; a blocked mq_receive gets the  *)
(* message directly, and then nobody is notified.                          *)
Send(w) ==
  /\ wpc[w] \in 1..3 /\ wpc' = [wpc EXCEPT ![w] = @ + 1]
  /\ \/ \E r \in Readers : /\ rpc[r] = "blocked"
                           /\ rpc' = [rpc EXCEPT ![r] = "done"]
                           /\ UNCHANGED <<queue, owner, pending, th>>
     \/ /\ \A r \in Readers : rpc[r] # "blocked"
        /\ Cardinality(queue) < MqSize
        /\ queue' = queue \cup {<<w, wpc[w]>>}
        /\ IF queue = {} THEN Notify ELSE UNCHANGED <<owner, pending, th>>
        /\ UNCHANGED rpc
  /\ UNCHANGED <<linked, sigpc, thrpc, strays, setup>>

\* mq_receive of a non-empty queue: a message of the highest priority.
Take ==
  \E m \in queue : /\ \A o \in queue : Prio[o[2]] <= Prio[m[2]]
                   /\ queue' = queue \ {m}

\* ipc_posix_mq_read: one blocking mq_receive.
Read(r) ==
  /\ \/ /\ rpc[r] = "open" /\ UNCHANGED queue
        /\ rpc' = [rpc EXCEPT ![r] = IF linked = "yes" THEN "recv" ELSE "errExit"]
     \/ rpc[r] = "recv" /\ Take /\ rpc' = [rpc EXCEPT ![r] = "done"]
     \/ /\ rpc[r] = "recv" /\ queue = {} /\ UNCHANGED queue
        /\ rpc' = [rpc EXCEPT ![r] = "blocked"]
  /\ UNCHANGED <<linked, owner, pending, sigpc, thrpc, th, wpc, strays, setup>>
-----------------------------------------------------------------------------
(* ipc_posix_mq_read_by_signal; NOTIFY_SIG is blocked except in sigsuspend. *)
SigOpen ==
  /\ HasSig /\ sigpc = "open"
  /\ sigpc' = IF linked = "yes" THEN "notify" ELSE "noqueue"
  /\ UNCHANGED <<queue, owner, pending, thrpc, th, others>>

\* mq_notify, before the loop or after a wake-up; EBUSY is fatal.
SigNotify ==
  /\ sigpc \in {"notify", "renotify"}
  /\ IF owner = "none"
       THEN owner' = "sig" /\ sigpc' = IF sigpc = "notify" THEN "suspend" ELSE "drain"
       ELSE owner' = (IF owner = "sig" THEN "none" ELSE owner) /\ sigpc' = "errExit"
  /\ UNCHANGED <<queue, pending, thrpc, th, others>>

SigSuspend ==
  /\ sigpc = "suspend" /\ pending
  /\ pending' = FALSE /\ sigpc' = "renotify"
  /\ UNCHANGED <<queue, owner, thrpc, th, others>>

MutDrainOne ==
  /\ sigpc = "drain" /\ sigpc' = "suspend"
  /\ IF queue = {} THEN UNCHANGED queue ELSE Take
  /\ UNCHANGED <<owner, pending, thrpc, th, others>>

\* mq_receive until it fails with EAGAIN.
SigDrain ==
  /\ sigpc = "drain"
  /\ \/ Take /\ UNCHANGED sigpc
     \/ queue = {} /\ UNCHANGED queue /\ sigpc' = "suspend"
  /\ UNCHANGED <<owner, pending, thrpc, th, others>>

\* SIGUSR1 from elsewhere (once the handler is in place).
Stray ==
  /\ sigpc \in {"notify", "suspend", "renotify", "drain"}
  /\ strays < MaxStrays /\ strays' = strays + 1
  /\ pending' = TRUE
  /\ UNCHANGED <<linked, queue, owner, sigpc, thrpc, th, wpc, rpc, setup>>
-----------------------------------------------------------------------------
(* ipc_posix_mq_read_by_thread: the main thread registers and pauses. *)
ThrMain ==
  /\ HasThr
  /\ \/ /\ thrpc = "open" /\ UNCHANGED owner
        /\ thrpc' = IF linked = "yes" THEN "notify" ELSE "noqueue"
     \/ /\ thrpc = "notify"
        /\ IF owner = "none" THEN owner' = "thr" /\ thrpc' = "pause"
                             ELSE UNCHANGED owner /\ thrpc' = "errExit"
  /\ UNCHANGED <<queue, pending, sigpc, th, others>>

MutDrainFirst(t) ==
  /\ \/ th[t] = "start" /\ Take /\ UNCHANGED <<owner, th, thrpc>>
     \/ /\ th[t] = "start" /\ queue = {} /\ UNCHANGED <<owner, queue, thrpc>>
        /\ th' = [th EXCEPT ![t] = "drain"]
     \/ /\ th[t] = "drain" /\ th' = [th EXCEPT ![t] = "idle"]
        /\ owner' = "thr" /\ UNCHANGED <<queue, thrpc>>
  /\ UNCHANGED <<pending, sigpc, others>>

\* thread_func: register again first, then drain; errExit ends the process.
ThreadFunc(t) ==
  /\ \/ /\ th[t] = "start" /\ UNCHANGED queue
        /\ IF owner = "none"
             THEN owner' = "thr" /\ th' = [th EXCEPT ![t] = "drain"] /\ UNCHANGED thrpc
             ELSE /\ owner' = IF owner = "thr" THEN "none" ELSE owner
                  /\ th' = [u \in Threads |-> "idle"] /\ thrpc' = "errExit"
     \/ th[t] = "drain" /\ Take /\ UNCHANGED <<owner, th, thrpc>>
     \/ /\ th[t] = "drain" /\ queue = {} /\ UNCHANGED <<owner, queue, thrpc>>
        /\ th' = [th EXCEPT ![t] = "idle"]
  /\ UNCHANGED <<pending, sigpc, others>>

SigProgram == SigOpen \/ SigNotify \/ SigSuspend \/ SigDrain
ThrProgram == ThrMain \/ \E t \in Threads : ThreadFunc(t)
Writer     == \E w \in Writers : WOpen(w) \/ Send(w)

Next == Create \/ Destroy \/ Writer \/ (\E r \in Readers : Read(r))
        \/ SigProgram \/ Stray \/ ThrProgram

Spec == Init /\ [][Next]_vars

(* Programs that can run do run; nobody has to create or unlink anything.  *)
FairSpec ==
  /\ Spec /\ WF_vars(Writer) /\ WF_vars(SigProgram) /\ WF_vars(ThrMain)
  /\ \A t \in Threads : WF_vars(ThreadFunc(t))
-----------------------------------------------------------------------------
Starting == {t \in Threads : th[t] = "start"}
Alone    == started # "both"

(* The right to be notified is in one place: it is registered, or the      *)
(* program has been notified and has yet to register again - a pending     *)
(* signal, the code between sigsuspend and mq_notify, or one new thread.   *)
(* So no mq_notify of a program that is alone fails with EBUSY.            *)
OneRegistration ==
  Alone /\ strays = 0 =>
    /\ sigpc \in {"suspend", "drain", "renotify"} =>
         (owner = "sig" <=> ~pending /\ sigpc # "renotify")
    /\ thrpc = "pause" => IF owner = "thr" THEN Starting = {}
                                           ELSE \E t \in Threads : Starting = {t}
    /\ sigpc # "errExit" /\ thrpc # "errExit"

(* No message is slept on: if the queue is not empty, a notified program   *)
(* is about to empty it (programs alone, started before the writers).      *)
NoLostWakeup ==
  NotifyFirst /\ Alone /\ strays = 0 /\ queue # {} =>
    /\ sigpc = "suspend" => pending
    /\ thrpc = "pause" => \E t \in Threads : th[t] # "idle"

\* A notification has been given and not been worked off yet.
Told == \/ pending \/ sigpc \in {"renotify", "drain"}
        \/ \E t \in Threads : th[t] # "idle"

(* Every message that is sent is read in the end, even those sent while    *)
(* the queue is being emptied, by a notified program that is alone and was *)
(* started before the writers, or that came late, to a queue with messages *)
(* nobody tells it of (line 169), and has been notified once since.        *)
AllRead ==
  Alone /\ (NotifyFirst \/ Told) /\ queue # {} ~> queue = {} \/ strays > 0
=============================================================================
