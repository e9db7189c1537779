----------------------------- MODULE ThreadLife -----------------------------
(***************************************************************************)
(* How threads begin, what they own and how they end:                      *)
(*   LinuxAPI2/pthread_introduce.c, pthread_cancellation.c, pthread_safe.c *)
(*   LinuxAPI2/pthread_signal.c, api3/pthread_example.c                    *)
(* A thread runs a sequence of calls; thread 0 is main.  A request to      *)
(* cancel is acted on only at a cancellation point.  pthread_create does   *)
(* not fail here.                                                          *)
(***************************************************************************)
EXTENDS Samples, Naturals, Sequences

CONSTANT NumTurns   \* 10 or 5 in the code
ASSUME NumTurnsAssumption == NumTurns \in Nat \ {0}

Owners == 0..3     \* main and the threads it creates
Do(o)       == [op |-> o]
Create(t)   == [op |-> "create", of |-> t]
Join(t)     == [op |-> "join", of |-> t]
Cancel(t)   == [op |-> "cancel", of |-> t]
CancellationPoints == {"sleep", "printf", "printbuf", "sigwait", "join"}

\* The thread functions.
MutNoHandler ==
  << Do("malloc"), Do("sleep"), Do("printf"), Do("free"), Do("loop"), Do("return") >>

thread_func_cleanup ==
  << Do("malloc"), Do("push"), Do("sleep"), Do("printf"), Do("pop"), Do("free"),
     Do("loop"), Do("return") >>
thread_func_safe_with_tsd ==
  << Do("once"), Do("create_key"), Do("getspecific"), Do("snprintf"), Do("printbuf"),
     Do("return") >>
thread_func_safe_with_tls == << Do("snprintf"), Do("printbuf"), Do("return") >>
thread_worker == << Do("sleep"), Do("again") >>
thread_signal_handler == << Do("sigwait"), Do("pthread_kill") >>
thread_func_introduce == << Do("printf"), Do("return") >>
start_routine_create == << Do("printf"), Do("return") >>
start_routine_exit_cancel == << Do("printf"), Do("sleep"), Do("loop"), Do("return") >>

\* What main calls, and the function of each thread it creates.
pthread_introduce ==
  << << Create(1), Join(1), Do("exit") >>, thread_func_introduce >>
pthread_cancellation ==
  << << Create(1), Do("sleep"), Cancel(1), Join(1), Do("exit") >>, thread_func_cleanup >>
pthread_safe(f) ==
  << << Create(1), Create(2), Join(1), Join(2), Do("exit") >>, f, f >>
pthread_signal ==
  << << Do("mask"), Create(1), Create(2), Create(3), Join(1), Join(2), Join(3), Do("exit") >>,
     thread_worker, thread_worker, thread_signal_handler >>
create ==
  << << Create(1), Create(2), Create(3), Join(1), Join(2), Do("detach"), Do("exit") >>,
     start_routine_create, start_routine_create, start_routine_create >>
exit_cancel ==
  << << Create(1), Create(2), Do("sleep"), Cancel(1), Join(2), Do("exit") >>,
     start_routine_exit_cancel, start_routine_exit_cancel >>

Lives == [pthread_introduce |-> pthread_introduce,
          pthread_cancellation |-> pthread_cancellation,
          pthread_safe_tsd |-> pthread_safe(thread_func_safe_with_tsd),
          pthread_safe |-> pthread_safe(thread_func_safe_with_tls),
          pthread_signal |-> pthread_signal, create |-> create, exit_cancel |-> exit_cancel]
LifeSamples == DOMAIN Lives

VARIABLES th,       \* per thread: its record
          proc,     \* the process: run, exit, errExit, killed
          once,     \* pthread_once: never called, called, done
          keys,     \* keys created
          pending   \* SIGINT: not sent, pending, taken

lifeVars == <<th, proc, once, keys, pending>>

NoThread ==
  [st |-> "none", pc |-> 1, turn |-> 0, req |-> FALSE, blocked |-> FALSE,
   arr |-> FALSE, push |-> FALSE,   \* arr is not NULL, cleanup_func is pushed
   allocs |-> 0, frees |-> 0,       \* blocks
   buf |-> 0, said |-> 0]           \* message in the buffer, message printed

(* Threads are at a call of their function, and counts within the turns.   *)
LifeTypeOK ==
  /\ \A t \in Owners :
       /\ th[t].st \in {"none", "run", "over"} /\ th[t].turn \in 0..NumTurns
       /\ th[t].allocs \in 0..NumTurns /\ th[t].frees \in 0..NumTurns
       /\ th[t].buf \in Owners /\ th[t].said \in Owners
       /\ sample \in LifeSamples /\ th[t].st = "run" => th[t].pc \in DOMAIN Lives[sample][t + 1]
  /\ proc \in {"run", "exit", "errExit", "killed"}
  /\ once \in {"never", "called", "done"} /\ keys \in 0..2
  /\ pending \in {"no", "pending", "taken"}

LifeInit ==
  /\ th = [t \in Owners |-> [NoThread EXCEPT !.st = IF t = 0 THEN "run" ELSE @]]
  /\ proc = "run" /\ once = "never" /\ keys = 0 /\ pending = "no"

Now(t)      == Lives[sample][t + 1][th[t].pc]
Runs(t, o)  == proc = "run" /\ th[t].st = "run" /\ Now(t).op = o
Turns(t, r) == th' = [th EXCEPT ![t] = r]
On(r)       == [r EXCEPT !.pc = @ + 1]
Alone       == UNCHANGED <<sample, proc, once, keys, pending>>
-----------------------------------------------------------------------------
Freed(r) == [r EXCEPT !.frees = IF r.arr THEN @ + 1 ELSE @]

\* arr = malloc(100), which may be NULL.
Malloc(t) ==
  /\ Runs(t, "malloc") /\ Alone
  /\ \/ Turns(t, On([th[t] EXCEPT !.arr = TRUE, !.allocs = @ + 1]))
     \/ Turns(t, On([th[t] EXCEPT !.arr = FALSE]))

\* if(arr != NULL) free(arr)
FreeArr(t) == Runs(t, "free") /\ Alone /\ Turns(t, On(Freed(th[t])))

CleanupPush(t) == Runs(t, "push") /\ Alone /\ Turns(t, On([th[t] EXCEPT !.push = TRUE]))

\* pthread_cleanup_pop(0): taken off and not run.
CleanupPop(t) == Runs(t, "pop") /\ Alone /\ Turns(t, On([th[t] EXCEPT !.push = FALSE]))

cleanup_func(r) == [Freed(r) EXCEPT !.push = FALSE]

\* A request to cancel is acted on: the handlers that are pushed are run.
Canceled(t) ==
  /\ \E o \in CancellationPoints : Runs(t, o)
  /\ th[t].req /\ Alone
  /\ Turns(t, [(IF th[t].push THEN cleanup_func(th[t]) ELSE th[t]) EXCEPT !.st = "over"])

Loop(t) ==
  /\ Runs(t, "loop") /\ Alone
  /\ Turns(t, IF th[t].turn + 1 < NumTurns THEN [th[t] EXCEPT !.turn = @ + 1, !.pc = 1] ELSE On(th[t]))
-----------------------------------------------------------------------------
\* pthread_once(&once, create_key): the first caller runs create_key, and
\* the others wait until it has.
PthreadOnce(t) ==
  /\ Runs(t, "once") /\ UNCHANGED <<sample, proc, keys, pending>>
  /\ \/ once = "never" /\ once' = "called" /\ Turns(t, On(th[t]))
     \/ once = "done" /\ UNCHANGED once /\ Turns(t, On(On(th[t])))

create_key(t) ==
  /\ Runs(t, "create_key") /\ UNCHANGED <<sample, proc, pending>>
  /\ keys' = keys + 1 /\ once' = "done" /\ Turns(t, On(th[t]))

\* The buffer of this thread: none yet, so one is allocated and kept.
Getspecific(t) ==
  /\ Runs(t, "getspecific") /\ Alone
  /\ Turns(t, On([th[t] EXCEPT !.arr = TRUE, !.allocs = @ + 1]))

\* Into the thread's own buffer, and from there to the terminal.
Snprintf(t) == Runs(t, "snprintf") /\ Alone /\ Turns(t, On([th[t] EXCEPT !.buf = t]))

\* destructor frees the buffer kept under the key.
destructor(r) == IF sample = "pthread_safe_tsd" THEN Freed(r) ELSE r

Return(t) == Runs(t, "return") /\ Alone /\ Turns(t, [destructor(th[t]) EXCEPT !.st = "over"])
-----------------------------------------------------------------------------
Sleeps(t)  == Runs(t, "sleep") /\ Alone /\ Turns(t, On(th[t]))
Printf(t) ==
  /\ Alone
  /\ \/ Runs(t, "printf") /\ Turns(t, On([th[t] EXCEPT !.said = t]))
     \/ Runs(t, "printbuf") /\ Turns(t, On([th[t] EXCEPT !.said = th[t].buf]))
WorkAgain(t) == Runs(t, "again") /\ Alone /\ Turns(t, [th[t] EXCEPT !.pc = 1])

\* The new thread inherits the mask.
PthreadCreate(t) ==
  /\ Runs(t, "create") /\ Alone
  /\ th' = [th EXCEPT ![t] = On(@),
                      ![Now(t).of] = [NoThread EXCEPT !.st = "run", !.blocked = th[t].blocked]]
PthreadJoin(t)   == Runs(t, "join") /\ th[Now(t).of].st = "over" /\ Alone /\ Turns(t, On(th[t]))
PthreadDetach(t) == Runs(t, "detach") /\ Alone /\ Turns(t, On(th[t]))

\* A thread that is over may be reported as an error, which exit_cancel
\* takes for one.
PthreadCancel(t) ==
  /\ Runs(t, "cancel") /\ UNCHANGED <<sample, once, keys, pending>>
  /\ \/ th' = [th EXCEPT ![t] = On(@), ![Now(t).of].req = TRUE] /\ UNCHANGED proc
     \/ /\ th[Now(t).of].st = "over" /\ sample = "exit_cancel"
        /\ proc' = "errExit" /\ UNCHANGED th

\* main returns or calls exit: every thread ends.
ProcessExit(t) ==
  Runs(t, "exit") /\ proc' = "exit" /\ UNCHANGED <<sample, th, once, keys, pending>>
-----------------------------------------------------------------------------
\* Every signal is blocked, and in every thread created from now on.
SigmaskFill(t) == Runs(t, "mask") /\ Alone /\ Turns(t, On([th[t] EXCEPT !.blocked = TRUE]))

\* SIGINT from the terminal: one thread that does not block it is enough to
\* end the process.
Interrupt ==
  /\ sample = "pthread_signal" /\ proc = "run" /\ pending = "no"
  /\ pending' = "pending" /\ UNCHANGED <<sample, th, once, keys>>
  /\ proc' = IF \A t \in Owners : th[t].st = "run" => th[t].blocked THEN "run" ELSE "killed"

Sigwait(t) ==
  /\ Runs(t, "sigwait") /\ pending = "pending" /\ pending' = "taken"
  /\ Turns(t, On(th[t])) /\ UNCHANGED <<sample, proc, once, keys>>

\* pthread_kill(t1, SIGKILL): whichever thread it names, the process ends.
PthreadKill(t) ==
  /\ Runs(t, "pthread_kill") /\ proc' = "killed" /\ UNCHANGED <<sample, th, once, keys, pending>>

ThreadStep(t) ==
  \/ Malloc(t) \/ FreeArr(t) \/ CleanupPush(t) \/ CleanupPop(t) \/ Canceled(t) \/ Loop(t)
  \/ PthreadOnce(t) \/ create_key(t) \/ Getspecific(t) \/ Snprintf(t) \/ Return(t)
  \/ Sleeps(t) \/ Printf(t) \/ WorkAgain(t) \/ PthreadCreate(t) \/ PthreadJoin(t)
  \/ PthreadDetach(t) \/ PthreadCancel(t) \/ ProcessExit(t)
  \/ SigmaskFill(t) \/ Sigwait(t) \/ PthreadKill(t)

LifeNext == sample \in LifeSamples /\ (Interrupt \/ \E t \in Owners : ThreadStep(t))
-----------------------------------------------------------------------------
\* Every block is freed once: by the thread, by its handler or destructor.
FreedOnce ==
  \A t \in Owners : /\ th[t].frees <= th[t].allocs
                    /\ th[t].st = "over" => th[t].frees = th[t].allocs
OwnMessage  == \A t \in Owners : th[t].said \in {0, t}
KeyOnce     == keys <= 1
OnlySigwait == proc = "killed" => th[0].pc = 1 \/ pending = "taken"

(* However a thread ends, by returning or canceled at any of its           *)
(* cancellation points, what it allocated is freed exactly once            *)
(* (pthread_cancellation.c:47); no thread prints what another one wrote    *)
(* and the key is created once (pthread_safe.c:83); and once main has      *)
(* blocked it, SIGINT reaches no thread but the one in sigwait             *)
(* (pthread_signal.c:29).                                                  *)
EndsClean == FreedOnce /\ OwnMessage /\ KeyOnce /\ OnlySigwait
=============================================================================
