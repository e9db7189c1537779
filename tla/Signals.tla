------------------------------ MODULE Signals -------------------------------
(***************************************************************************)
(* What the calls of SignalPrograms and TimerPrograms do: masks, pending   *)
(* signals, dispositions, and calls that a signal interrupts.  A process   *)
(* is one record; a handler is one step, since no handler of the samples   *)
(* waits.                                                                  *)
(***************************************************************************)
EXTENDS TimerPrograms, Integers, FiniteSets

CONSTANT MaxSent   \* signals sent from outside (kill, signal_sender)
ASSUME MaxSentAssumption == MaxSent \in Nat

SigProcs  == {"main", "child"}
FromAfar  == {INT, QUIT, TERM, RT}
\* Where no sample tells them apart, QUIT stands for all that kill.
Sendable  == IF sample \in {"signal_suspend_sync", "signal_realtime", "signal_legacy"}
               THEN FromAfar ELSE {INT, QUIT}
Statuses  == {"none", "run", "exit", "errExit", "killed"}

Programs ==
  [process_sync_by_signal |-> process_sync_by_signal,
   signal_suspend |-> signal_suspend, signal_suspend_sync |-> signal_suspend_sync,
   signal_basic |-> signal_basic, signal_longjmp |-> signal_longjmp,
   signal_restart |-> signal_restart, signal_realtime |-> signal_realtime,
   signal_legacy |-> signal_legacy, signal_send |-> signal_send,
   signal_block |-> signal_block, api3_signal_suspend |-> api3_signal_suspend,
   signal_sigaction |-> signal_sigaction, timer_func |-> timer_func,
   timer_sync_expire |-> timer_sync_expire, timer_sleep |-> timer_sleep,
   timer_advanced_signal |-> timer_advanced_signal,
   timer_clock_nanosleep |-> timer_clock_nanosleep, time_sleep |-> time_sleep,
   time_clock_nanosleep |-> time_clock_nanosleep,
   timer_example_setitimer |-> timer_example_setitimer,
   timer_example_alarm |-> timer_example_alarm,
   timer_example_settime_signal |-> timer_example_settime_signal]
SigSamples == DOMAIN Programs

VARIABLES ps,      \* per process: its record
          timers,  \* per timer: the signal it sends and its kind
          asked,   \* signals sent from outside so far
          nsent    \* how many

sigVars == <<ps, timers, asked, nsent>>

Fresh ==
  [st |-> "none", pc |-> 1,
   at |-> "run",       \* between calls, in a call, or leaving it interrupted
   mask |-> {}, old |-> {}, env |-> {},   \* in force, kept, in sigjmp_buf
   saved |-> FALSE,                       \* sigsetjmp has saved the mask
   pend |-> <<>>, disp |-> [s \in Sigs |-> [h |-> "SIG_DFL", restart |-> FALSE]],
   flag |-> FALSE, cnt |-> 0,             \* the sample's static variables
   res |-> 0]                             \* sigwaitinfo's result, -1: EINTR

(* A process is at a call of its program, and every mask is a set of       *)
(* signals; a standard signal is pending at most once.                     *)
SigTypeOK ==
  /\ \A p \in SigProcs :
       /\ ps[p].st \in Statuses /\ ps[p].at \in {"run", "call", "woken"}
       /\ ps[p].mask \subseteq Sigs /\ ps[p].old \subseteq Sigs
       /\ ps[p].cnt \in 0..3 + MaxSent + Ticks
       /\ sample \in SigSamples /\ ps[p].st = "run" => ps[p].pc \in DOMAIN Programs[sample]
       /\ \A k, l \in DOMAIN ps[p].pend :
            ps[p].pend[k] = ps[p].pend[l] /\ k # l => ps[p].pend[k].sig \in Realtime
  /\ timers \in [1..2 -> Sigs \X {"off", "once", "periodic"}]
  /\ asked \subseteq FromAfar /\ nsent \in 0..MaxSent

SigInit ==
  /\ ps = [p \in SigProcs |-> [Fresh EXCEPT !.st = IF p = "main" THEN "run" ELSE @]]
  /\ timers = [n \in 1..2 |-> <<ALRM, "off">>]
  /\ asked = {} /\ nsent = 0

Ins(p)      == Programs[sample][ps[p].pc]
At(p, o)    == ps[p].st = "run" /\ ps[p].at = "run" /\ Ins(p).op = o
In(p, o)    == ps[p].st = "run" /\ ps[p].at = "call" /\ Ins(p).op = o
Becomes(p, r) == ps' = [ps EXCEPT ![p] = r]
Step(r)     == [r EXCEPT !.pc = @ + 1, !.at = "run"]
Ended(r, s) == [Fresh EXCEPT !.st = s, !.cnt = r.cnt]
Quiet       == UNCHANGED <<sample, timers, asked, nsent>>

\* A standard signal, and the signal of a timer, is queued once.
Queued(r, sig, from) ==
  IF \E k \in DOMAIN r.pend : r.pend[k].sig = sig
                              /\ (sig \notin Realtime \/ (from # "kill" /\ r.pend[k].from = from))
    THEN r ELSE [r EXCEPT !.pend = Append(@, [sig |-> sig, from |-> from])]

\* The pending signal taken first from S: lowest number, then oldest.
First(r, S) ==
  CHOOSE k \in DOMAIN r.pend :
    /\ r.pend[k].sig \in S
    /\ \A l \in DOMAIN r.pend :
         r.pend[l].sig \in S => \/ r.pend[k].sig < r.pend[l].sig
                                \/ r.pend[k].sig = r.pend[l].sig /\ k <= l
Without(r, k) == [r EXCEPT !.pend = SubSeq(@, 1, k - 1) \o SubSeq(@, k + 1, Len(@))]
PendingIn(r, S) == {s \in S : \E k \in DOMAIN r.pend : r.pend[k].sig = s}
-----------------------------------------------------------------------------
(* Calls that do not wait. *)
Sigprocmask(p) ==
  /\ Quiet
  /\ \/ /\ At(p, "block")
        /\ Becomes(p, Step([ps[p] EXCEPT !.old = ps[p].mask, !.mask = @ \cup Ins(p).set]))
     \/ /\ At(p, "setmask")
        /\ Becomes(p, Step([ps[p] EXCEPT !.old = ps[p].mask, !.mask = Ins(p).set]))
     \/ /\ At(p, "restore")
        /\ Becomes(p, Step([ps[p] EXCEPT !.mask = ps[p].old]))

Sigaction(p) ==
  /\ At(p, "sigaction") /\ Quiet
  /\ Becomes(p, Step([ps[p] EXCEPT !.disp =
       [s \in Sigs |-> IF s \in Ins(p).set
                         THEN [h |-> Ins(p).h, restart |-> Ins(p).restart] ELSE @[s]]]))

\* The child inherits mask and handlers and no pending signal.  It may fail.
ForkCall(p) ==
  /\ At(p, "fork") /\ Quiet
  /\ \/ ps' = [ps EXCEPT ![p] = Step(@),
                         !["child"] = [ps[p] EXCEPT !.pc = Ins(p).child, !.pend = <<>>]]
     \/ Becomes(p, Ended(ps[p], "errExit"))

\* kill, raise or sigqueue; one that reaches nobody is not an error here.
KillCall(p) ==
  /\ At(p, "kill") /\ Quiet
  /\ LET q == Ins(p).to
         moved == [ps EXCEPT ![p] = Step(@)]
     IN ps' = IF ps[q].st = "run"
                THEN [moved EXCEPT ![q] = Queued(@, Ins(p).sig, "kill")] ELSE moved

TimerCall(p) ==
  /\ At(p, "timer") /\ UNCHANGED <<sample, asked, nsent>>
  /\ timers' = [timers EXCEPT ![Ins(p).n] = <<Ins(p).sig, Ins(p).kind>>]
  /\ Becomes(p, Step(ps[p]))

\* Branches, assignments and the end of a program.
Local(p) ==
  /\ Quiet
  /\ \/ At(p, "goto") /\ Becomes(p, [ps[p] EXCEPT !.pc = Ins(p).to])
     \/ At(p, "setFlag") /\ Becomes(p, Step([ps[p] EXCEPT !.flag = TRUE]))
     \/ At(p, "sigsetjmp") /\ Becomes(p, Step([ps[p] EXCEPT !.env = ps[p].mask,
                                                          !.saved = Ins(p).save]))
     \/ /\ At(p, "ifFlag")
        /\ Becomes(p, IF ps[p].flag THEN [ps[p] EXCEPT !.pc = Ins(p).to] ELSE Step(ps[p]))
     \/ /\ At(p, "takeTick")
        /\ Becomes(p, IF ~ps[p].flag THEN [ps[p] EXCEPT !.pc = Ins(p).sleep]
                      ELSE [ps[p] EXCEPT !.flag = FALSE, !.cnt = @ + 1,
                              !.pc = IF ps[p].cnt + 1 < Ticks THEN Ins(p).sleep ELSE Ins(p).out])
     \/ /\ At(p, "loop")
        /\ Becomes(p, IF ps[p].cnt + 1 < Ticks
                        THEN [ps[p] EXCEPT !.cnt = @ + 1, !.pc = Ins(p).to] ELSE Step(ps[p]))
     \/ /\ At(p, "exitIf")
        /\ Becomes(p, IF ps[p].res \in Ins(p).set THEN Ended(ps[p], "exit") ELSE Step(ps[p]))
     \/ /\ At(p, "errIfEintr")
        /\ Becomes(p, IF ps[p].res = -1 THEN Ended(ps[p], "errExit") ELSE Step(ps[p]))
     \/ At(p, "exit") /\ Becomes(p, Ended(ps[p], "exit"))
     \/ At(p, "errExit") /\ Becomes(p, Ended(ps[p], "errExit"))
-----------------------------------------------------------------------------
(* Calls that wait: entered in one step, left in another.  sigsuspend      *)
(* changes the mask in the step that enters it.                            *)
Enter(p) ==
  /\ Quiet
  /\ \/ \E o \in {"pause", "sleep", "read", "wait", "sigwaitinfo"} :
          At(p, o) /\ Becomes(p, [ps[p] EXCEPT !.at = "call"])
     \/ /\ At(p, "sigsuspend")
        /\ Becomes(p, [ps[p] EXCEPT !.at = "call", !.env = ps[p].mask,
                         !.mask = IF Ins(p).kept THEN ps[p].old ELSE {}])

\* The call does what it waited for: time is over, the child has ended, a
\* blocked signal is taken synchronously.
Complete(p) ==
  /\ Quiet
  /\ \/ In(p, "sleep") /\ Becomes(p, Step(ps[p]))
     \/ In(p, "wait") /\ ps["child"].st \notin {"none", "run"} /\ Becomes(p, Step(ps[p]))
     \/ /\ In(p, "sigwaitinfo") /\ PendingIn(ps[p], Sigs) # {}
        /\ LET k == First(ps[p], Sigs)
           IN Becomes(p, Step([Without(ps[p], k) EXCEPT !.res = ps[p].pend[k].sig]))

\* Somebody types a line.
Input(p) == In(p, "read") /\ Quiet /\ Becomes(p, Step([ps[p] EXCEPT !.res = 0]))

(* A handler was run during the call: it fails with EINTR, and sigsuspend  *)
(* puts the mask back.                                                     *)
Interrupted(p) ==
  /\ ps[p].st = "run" /\ ps[p].at = "woken" /\ Quiet
  /\ Becomes(p, Step([ps[p] EXCEPT !.res = -1,
                        !.mask = IF Ins(p).op = "sigsuspend" THEN ps[p].env ELSE @]))

(* What handler h, called with the signal blocked, leaves of the process.  *)
Handler(r, h, sig) ==
  CASE h = "basic"    -> signal_basic_handler(r, sig)
    [] h = "suspend"  -> signal_suspend_handler(r, sig)
    [] h = "jump"     -> signal_handler_func(r, sig)
    [] h = "reset"    -> signal_handler_sigint(r, sig)
    [] h = "on_timer" -> on_timer(r, sig)
    [] h = "deref"    -> signal_handler_adv(r, sig)
    [] OTHER          -> Return(r, sig)       \* a handler that prints

Handled(r, h, sig) ==
  CASE h = "SIG_DFL"  -> Ended(r, "killed")
    [] h = "SIG_IGN"  -> r
    [] OTHER          -> Handler(Caught(r, sig), h, sig)

\* The first unblocked signal is delivered.  A handler wakes the call that
\* is waiting, unless that is a read or a wait which is restarted.
DeliverSignal(p) ==
  /\ ps[p].st = "run" /\ PendingIn(ps[p], Sigs \ ps[p].mask) # {} /\ Quiet
  /\ LET k == First(ps[p], Sigs \ ps[p].mask)
         e == ps[p].pend[k]
         d == ps[p].disp[e.sig]
         again == d.h = "SIG_IGN" \/ (d.restart /\ Ins(p).op \in {"read", "wait"})
         r == [Without(ps[p], k) EXCEPT !.at = IF @ = "call" /\ ~again THEN "woken" ELSE @]
     IN Becomes(p, Handled(r, d.h, e.sig))

\* A timer sends its signal, again and again if it is periodic.
Expire(n) ==
  /\ timers[n][2] # "off" /\ ps["main"].st = "run" /\ UNCHANGED <<sample, asked, nsent>>
  /\ timers' = [timers EXCEPT ![n][2] = IF @ = "once" THEN "off" ELSE @]
  /\ Becomes("main", Queued(ps["main"], timers[n][1], IF n = 1 THEN "timer 1" ELSE "timer 2"))

\* A signal from another program: the signal_sender program, or kill.
signal_sender(sig) ==
  /\ nsent < MaxSent /\ ps["main"].st = "run" /\ UNCHANGED <<sample, timers>>
  /\ nsent' = nsent + 1 /\ asked' = asked \cup {sig}
  /\ Becomes("main", Queued(ps["main"], sig, "kill"))

Proceed(p) == \/ Sigprocmask(p) \/ Sigaction(p) \/ ForkCall(p) \/ KillCall(p)
              \/ TimerCall(p) \/ Local(p) \/ Enter(p) \/ Complete(p) \/ Interrupted(p)

SigNext ==
  /\ sample \in SigSamples
  /\ \/ \E p \in SigProcs : Proceed(p) \/ DeliverSignal(p) \/ Input(p)
     \/ \E n \in 1..2 : Expire(n)
     \/ \E sig \in Sendable : signal_sender(sig)

(* Processes run, unblocked signals are delivered and timers expire.       *)
(* Nobody has to type or to send anything.                                 *)
SigFairness ==
  /\ \A p \in SigProcs : /\ WF_sigVars(sample \in SigSamples /\ Proceed(p))
                         /\ WF_sigVars(sample \in SigSamples /\ DeliverSignal(p))
  /\ \A n \in 1..2 : WF_sigVars(sample \in SigSamples /\ Expire(n))
-----------------------------------------------------------------------------
Over(p) == ps[p].st \in {"exit", "errExit", "killed"}

(* The parent of process_sync_by_signal always gets the child's signal,    *)
(* whoever is faster.  In signal_send the signal may be lost, but only to  *)
(* a child that is not yet in pause(): otherwise both end, unless the      *)
(* parent is killed from outside.                                          *)
WaiterWakes ==
  \/ sample = "process_sync_by_signal"
  \/ /\ sample = "signal_send" /\ In("child", "pause")
     /\ ps["main"].st = "run" /\ ps["main"].pc <= 4
  ~> Over("main") /\ (sample = "signal_send" => Over("child") \/ ps["main"].st = "killed")

(* A sample that is to end on request does: SIGQUIT ends signal_suspend    *)
(* and signal_basic, SIGQUIT or SIGTERM ends signal_suspend_sync, SIGTERM  *)
(* ends signal_legacy, at whatever moment it comes.                        *)
Requests == [signal_suspend |-> {QUIT}, signal_basic |-> {QUIT},
             signal_suspend_sync |-> {QUIT, TERM}, signal_legacy |-> {TERM}]
QuitHonoured ==
  sample \in DOMAIN Requests /\ asked \cap Requests[sample] # {} ~> Over("main")

(* signal_longjmp leaves the handler of SIGINT by a jump, without the      *)
(* return that unblocks the signal (signal_handler.c:63-67): every later   *)
(* SIGINT is taken all the same, none stays pending for ever.              *)
JumpUnblocks ==
  sample = "signal_longjmp" /\ PendingIn(ps["main"], {INT}) # {}
    ~> PendingIn(ps["main"], {INT}) = {}

(* The samples that count the expiries of a periodic timer come to the end *)
(* of their loop, timer_func with all its ticks counted and                *)
(* timer_example_settime_signal with its timer deleted, unless a signal    *)
(* from outside kills them, though the signals of several expiries may be  *)
(* merged and may come outside the call that waits.                        *)
Killed == ps["main"].st = "killed" /\ asked # {}
TicksEnd ==
  /\ sample = "timer_example_settime_signal"
       ~> Killed \/ (ps["main"].st = "exit" /\ timers[1][2] = "off")
  /\ sample = "timer_func" ~> Killed \/ ps["main"].cnt = Ticks

(* timer_example.c:86: the loop of timer_example_setitimer is run through  *)
(* to see the periodic expiries, and the program then ends by itself.      *)
FiveTurns ==
  sample = "timer_example_setitimer" ~> Killed \/ ps["main"].st = "exit"

(* As the comment at signal_basic.c:40 has it: the third SIGINT restores   *)
(* the default, so that the fourth ends the process.                       *)
FourthTerminates ==
  [][sample = "signal_basic" /\ ps["main"].cnt = 3 /\ PendingIn(ps["main"], {INT}) # {}
       => PendingIn(ps'["main"], {INT}) # {} \/ ps'["main"].st # "run"]_sigVars
=============================================================================
