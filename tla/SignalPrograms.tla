--------------------------- MODULE SignalPrograms ---------------------------
(***************************************************************************)
(* The samples about signals as programs: sequences of the calls that the  *)
(* module Signals gives a meaning.  A branch names the position it goes to *)
(* and a child starts at the position that ForkTo names.  Sources:         *)
(*   LinuxAPI/signal_basic.c, signal_handler.c, signal_handler2.c,         *)
(*   signal_realtime_handler.c, signal_suspend.c, signal_suspend_sync.c,   *)
(*   process_sync_by_signal.c, and api3/signal_example.c                   *)
(* Printing is left out.  signal() is sigaction with SA_RESTART.           *)
(***************************************************************************)
EXTENDS Samples, Naturals, Sequences

INT   == 2
QUIT  == 3
USR1  == 10
ALRM  == 14
TERM  == 15
RT    == 36
RTMAX == 64
Sigs     == {INT, QUIT, USR1, ALRM, TERM, RT, RTMAX}
Realtime == {RT, RTMAX}    \* queued, the others are one bit each

Call(o)       == [op |-> o]
Block(S)      == [op |-> "block", set |-> S]        \* SIG_BLOCK, mask kept
SetMask(S)    == [op |-> "setmask", set |-> S]      \* SIG_SETMASK, mask kept
Restore       == Call("restore")                    \* back to the kept mask
Handle(S, h)  == [op |-> "sigaction", set |-> S, h |-> h, restart |-> FALSE]
Signal(S, h)  == [op |-> "sigaction", set |-> S, h |-> h, restart |-> TRUE]
ForkTo(n)     == [op |-> "fork", child |-> n]
Kill(q, s)    == [op |-> "kill", to |-> q, sig |-> s]
Goto(n)       == [op |-> "goto", to |-> n]
SleepCall     == Call("sleep")
SuspendKept   == [op |-> "sigsuspend", kept |-> TRUE]
SuspendEmpty  == [op |-> "sigsuspend", kept |-> FALSE]
Pause         == Call("pause")
ExitCall      == Call("exit")
ErrExit       == Call("errExit")
-----------------------------------------------------------------------------
(* Handlers: what they do to the record r of the process they interrupt.   *)
(* The signal is blocked while its handler runs (no sample sets SA_NODEFER *)
(* or another sa_mask), and unblocked when the handler returns.            *)
Caught(r, sig) == [r EXCEPT !.mask = @ \cup {sig}]
Return(r, sig) == [r EXCEPT !.mask = @ \ {sig}]

\* The third SIGINT sets the default action and then sets it to ignore.
signal_basic_handler(r, sig) ==
  IF sig = INT
    THEN Return([r EXCEPT !.cnt = @ + 1,
                          !.disp[INT].h = IF r.cnt + 1 = 3 THEN "SIG_IGN" ELSE @], sig)
    ELSE Return([r EXCEPT !.disp[QUIT].h = "SIG_DFL",
                          !.pend = Append(@, [sig |-> QUIT, from |-> "raise"])], sig)

signal_suspend_handler(r, sig) == Return([r EXCEPT !.flag = @ \/ sig = QUIT], sig)

\* siglongjmp once canjump is set: to the pause loop, with the mask that
\* sigsetjmp saved; had it saved none, the mask of the handler would stay.
signal_handler_func(r, sig) ==
  IF r.flag THEN [r EXCEPT !.pc = 4, !.at = "run", !.mask = IF r.saved THEN r.env ELSE @]
            ELSE Return(r, sig)

\* count = 0
signal_handler_sigint(r, sig) == Return([r EXCEPT !.cnt = 0], sig)
-----------------------------------------------------------------------------
MutBlockLate ==
  << Signal({USR1}, "print"), ForkTo(7),
     Block({USR1}), SuspendEmpty, Restore, ExitCall,
     SleepCall, Kill("main", USR1), ExitCall >>

process_sync_by_signal ==
  << Block({USR1}), Signal({USR1}, "print"), ForkTo(7),
     SuspendEmpty, Restore, ExitCall,
     SleepCall, Kill("main", USR1), ExitCall >>

MutUnblockAndPause ==
  << Handle({INT, QUIT}, "suspend"), [op |-> "ifFlag", to |-> 8],
     Block({INT, QUIT}), SleepCall, Restore, Pause, Goto(2), ExitCall >>

signal_suspend ==
  << Block({INT, QUIT}), Handle({INT, QUIT}, "suspend"),
     [op |-> "ifFlag", to |-> 7], SleepCall,
     SuspendKept, Goto(3),
     Restore, ExitCall >>

signal_suspend_sync ==
  << SetMask(Sigs), SleepCall,
     Call("sigwaitinfo"), [op |-> "exitIf", set |-> {QUIT, TERM}], Goto(3) >>

signal_basic ==
  << Signal({INT, QUIT}, "basic"), Block({INT}), SleepCall, Restore,
     Pause, Goto(5) >>

Sigsetjmp(save) == [op |-> "sigsetjmp", save |-> save]

MutJumpNoMask ==
  << Handle({INT}, "jump"), Sigsetjmp(FALSE), Call("setFlag"), Pause, Goto(4) >>

\* sigsetjmp and canjump = 1 are two steps: a signal in between returns.
signal_longjmp ==
  << Handle({INT}, "jump"), Sigsetjmp(TRUE), Call("setFlag"), Pause, Goto(4) >>

signal_restart ==
  << Signal({INT}, "print"), Call("read"), Call("errIfEintr"), ExitCall >>

signal_realtime == << Signal(Sigs \ {QUIT}, "print"), Pause, Goto(2) >>

signal_legacy ==
  << Signal({INT}, "print"), Signal({QUIT}, "SIG_IGN"), Signal({TERM}, "SIG_DFL"),
     Pause, Goto(4) >>

signal_send ==
  << Signal({INT}, "print"), ForkTo(8),
     SleepCall, Kill("child", INT), Call("wait"), Kill("main", INT), ExitCall,
     Pause, ExitCall >>

signal_block == << SetMask({INT}), Pause, ExitCall >>

\* sigsuspend never returns anything but -1, so the last call is errexit.
api3_signal_suspend ==
  << SetMask(Sigs), Signal({INT}, "reset"), SleepCall, SuspendKept, ErrExit >>

\* The signal sent to oneself is taken before sigsuspend is reached.
signal_sigaction ==
  << Handle({USR1}, "print"), Kill("main", USR1), SuspendEmpty, ErrExit >>
=============================================================================
