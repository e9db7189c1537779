---------------------------- MODULE TimerPrograms ---------------------------
(***************************************************************************)
(* The samples about timers and sleeping, in the calls of SignalPrograms:  *)
(*   LinuxAPI/timer_func.c, timer_sync_expire.c, timer_sleep.c,            *)
(*   timer_advanced_signal.c, timer_clock.c, and                           *)
(*   api3/timer_example.c, time_sleep.c                                    *)
(* Durations are left out: a timer expires and a sleep ends at any time    *)
(* after it was set, as on a loaded machine.                               *)
(***************************************************************************)
EXTENDS SignalPrograms

CONSTANT Ticks   \* turns of the loops that count expiries (5)
ASSUME TicksAssumption == Ticks \in Nat \ {0}

\* setitimer, alarm or timer_settime; timer n sends sig
Timer(n, sig, kind) == [op |-> "timer", n |-> n, sig |-> sig, kind |-> kind]
TimerOff(n)         == Timer(n, ALRM, "off")
Loop(n)             == [op |-> "loop", to |-> n]
-----------------------------------------------------------------------------
\* setalarm = 1
on_timer(r, sig) == Return([r EXCEPT !.flag = TRUE], sig)

(* if(setalarm == 1) { setalarm = 0; if(++loop < 5) ... else break; }: on  *)
(* to the sleep, or out of the loop.                                       *)
TakeTick(sleep, out) == [op |-> "takeTick", sleep |-> sleep, out |-> out]

timer_func ==
  << Handle({ALRM}, "on_timer"), Timer(1, ALRM, "periodic"),
     TakeTick(4, 6), SleepCall, Goto(3),
     TimerOff(1), Timer(1, ALRM, "once"), Pause, ExitCall >>

timer_sync_expire ==
  << Handle({ALRM}, "print"), Timer(1, ALRM, "periodic"), Call("read"),
     TimerOff(1), Call("errIfEintr"), ExitCall >>

timer_sleep == << Handle({INT}, "print"), SleepCall, ExitCall >>

timer_advanced_signal ==
  << Handle({RTMAX}, "print"), Timer(1, RTMAX, "periodic"), Timer(2, RTMAX, "periodic"),
     Pause, Goto(4) >>

timer_clock_nanosleep == << SleepCall, ExitCall >>

\* sleep, nanosleep and select
time_sleep == << Handle({INT}, "print"), SleepCall, SleepCall, SleepCall, ExitCall >>

\* a relative and an absolute sleep
time_clock_nanosleep == << SleepCall, SleepCall, ExitCall >>
-----------------------------------------------------------------------------
(* The handler of the api3 timers follows si_value.sival_ptr, which the    *)
(* POSIX timer sets; the SIGALRM of setitimer or alarm comes from the      *)
(* kernel with a null pointer there, and the handler dies of it.           *)
signal_handler_adv(r, sig) ==
  IF sig = ALRM THEN [r EXCEPT !.st = "killed"] ELSE Return(r, sig)

timer_example_setitimer ==
  << Handle({ALRM}, "deref"), Timer(1, ALRM, "periodic"), Pause, Loop(3),
     TimerOff(1), ExitCall >>

timer_example_alarm ==
  << Handle({ALRM}, "deref"), Timer(1, ALRM, "once"), Pause, ExitCall >>

MutOneShot ==
  << Handle({USR1}, "deref"), Timer(1, USR1, "once"), Pause, Loop(3),
     TimerOff(1), ExitCall >>

timer_example_settime_signal ==
  << Handle({USR1}, "deref"), Timer(1, USR1, "periodic"), Pause, Loop(3),
     TimerOff(1), ExitCall >>
=============================================================================
