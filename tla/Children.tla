------------------------------ MODULE Children ------------------------------
(***************************************************************************)
(* Parents that wait for their children:                                   *)
(*   LinuxAPI/process_wait_by_signal.c  SIGCHLD handler and sigsuspend     *)
(*   LinuxAPI/process_wait.c            wait() until ECHILD, and waitpid() *)
(*                                      for the first child only           *)
(*   LinuxAPI/process_func.c, process_exec.c, api3/process_manage.c        *)
(*                                      one child, waited for or looked at *)
(* and what the kernel does: a child that ends is a zombie until somebody  *)
(* waits for it, and SIGCHLD is one bit, however many children ended.      *)
(* EchoServer adds a parent of its own to the same kernel.                 *)
(***************************************************************************)
EXTENDS Samples, Naturals, FiniteSets

CONSTANT NumChildren   \* 5 in the code
ASSUME NumChildrenAssumption == NumChildren \in Nat \ {0}

Kids == 1..NumChildren
ExecSamples == {"process_exec", "fork_exec_wait"}   \* the child runs a program
WaitSamples == {"process_wait_by_signal", "process_wait", "process_waitpid", "process_func"}
                 \cup ExecSamples

VARIABLES kid,        \* per child: none, running, stopped, zombie, reaped
          pending,    \* SIGCHLD is pending for the parent
          handler,    \* the parent's handler: idle, loop (around waitpid), return
          par,        \* the parent's next step
          child_cnt,  \* the sample's counter
          forked      \* children forked so far

kernelVars == <<kid, pending, handler>>
chVars == <<kernelVars, par, child_cnt, forked>>

KidStates == {"none", "running", "stopped", "zombie", "reaped"}
Zombies   == {c \in Kids : kid[c] = "zombie"}

(* The parent's and the children's state is well formed. *)
ChTypeOK ==
  /\ kid \in [Kids -> KidStates]
  /\ pending \in BOOLEAN
  /\ handler \in {"idle", "loop", "return"}
  /\ par \in {"fork", "test", "call", "suspend", "restore", "wait", "done",
              "accept", "accepted", "close", "errExit"}
  /\ child_cnt \in 0..NumChildren
  /\ forked \in 0..NumChildren

ChInit ==
  /\ kid = [c \in Kids |-> "none"]
  /\ pending = FALSE /\ handler = "idle"
  /\ par = IF sample = "socket_echo_server" THEN "accept" ELSE "fork"
  /\ child_cnt = NumChildren /\ forked = 0
-----------------------------------------------------------------------------
(* The kernel: the child becomes a zombie and SIGCHLD pending. *)
Exit(c) == kid' = [kid EXCEPT ![c] = "zombie"] /\ pending' = TRUE

MutUnblocked == sample \in {"process_wait_by_signal", "socket_echo_server"} /\ par # "errExit"

(* The signal reaches the handler when it is not blocked: only inside      *)
(* sigsuspend and after the mask is restored in process_wait_by_signal, at *)
(* any time in the echo server; never during the handler itself.           *)
Unblocked ==
  CASE sample = "process_wait_by_signal" -> par \in {"suspend", "done"}
    [] sample = "socket_echo_server"     -> par # "errExit"
    [] OTHER                             -> FALSE

Deliver ==
  /\ pending /\ handler = "idle" /\ Unblocked
  /\ pending' = FALSE /\ handler' = "loop"
  /\ UNCHANGED <<sample, kid, par, child_cnt, forked>>

MutHandler ==
  /\ handler = "loop" /\ handler' = "return"
  /\ \E c \in Zombies : kid' = [kid EXCEPT ![c] = "reaped"]
  /\ child_cnt' = IF sample = "process_wait_by_signal" THEN child_cnt - 1 ELSE child_cnt
  /\ UNCHANGED <<sample, pending, par, forked>>

(* The handler: waitpid(-1, NULL, WNOHANG) until it finds no zombie. *)
sigchld_signal_handler ==
  /\ handler = "loop"
  /\ \/ \E c \in Zombies :
          /\ kid' = [kid EXCEPT ![c] = "reaped"]
          /\ child_cnt' = IF sample = "process_wait_by_signal"
                            THEN child_cnt - 1 ELSE child_cnt
          /\ UNCHANGED handler
     \/ Zombies = {} /\ handler' = "return" /\ UNCHANGED <<kid, child_cnt>>
  /\ UNCHANGED <<sample, pending, par, forked>>

SA_RESTART == sample = "socket_echo_server"   \* sa_flags

(* Back from the handler: sigsuspend returns EINTR; an accept goes on if   *)
(* it is restarted and is fatal otherwise.                                 *)
HandlerReturn ==
  /\ handler = "return" /\ handler' = "idle"
  /\ par' = CASE par = "suspend"                -> "test"
              [] par = "accept" /\ ~SA_RESTART  -> "errExit"
              [] OTHER                          -> par
  /\ UNCHANGED <<sample, kid, pending, child_cnt, forked>>

Kernel == Deliver \/ sigchld_signal_handler \/ HandlerReturn
-----------------------------------------------------------------------------
(* The children sleep and end by themselves; the first one of              *)
(* process_waitpid pauses until a signal ends or stops it.                 *)
ChildExit(c) ==
  /\ sample \in WaitSamples /\ kid[c] = "running"
  /\ sample = "process_waitpid" => c # 1
  /\ Exit(c) /\ UNCHANGED <<sample, handler, par, child_cnt, forked>>

SignalFirst ==
  /\ sample = "process_waitpid" /\ kid[1] = "running" /\ pending' = TRUE
  /\ \E s \in {"zombie", "stopped"} : kid' = [kid EXCEPT ![1] = s]
  /\ UNCHANGED <<sample, handler, par, child_cnt, forked>>

\* The loop around fork(); a failed fork ends the parent.
ForkLoop(next) ==
  /\ par = "fork"
  /\ \/ /\ forked' = forked + 1 /\ kid' = [kid EXCEPT ![forked'] = "running"]
        /\ par' = IF forked' = NumChildren THEN next ELSE "fork"
     \/ par' = "errExit" /\ UNCHANGED <<forked, kid>>
  /\ UNCHANGED <<pending, handler, child_cnt>>

process_wait_by_signal ==
  /\ sample = "process_wait_by_signal" /\ UNCHANGED sample
  /\ handler = "idle"
  /\ \/ ForkLoop("test")
     \/ /\ UNCHANGED <<kernelVars, child_cnt, forked>>
        /\ \/ par = "test" /\ par' = IF child_cnt > 0 THEN "call" ELSE "restore"
           \/ par = "call" /\ par' = "suspend"
           \/ par = "restore" /\ par' = "done"

\* wait() blocks while a child runs, and fails with ECHILD when none is left.
process_wait ==
  /\ sample = "process_wait" /\ UNCHANGED sample
  /\ \/ ForkLoop("wait")
     \/ /\ par = "wait" /\ UNCHANGED <<pending, handler, child_cnt, forked>>
        /\ \/ /\ \E c \in Zombies : kid' = [kid EXCEPT ![c] = "reaped"]
              /\ UNCHANGED par
           \/ /\ \A c \in Kids : kid[c] = "reaped"
              /\ par' = "done" /\ UNCHANGED kid

\* waitpid(first child, WUNTRACED): ended or stopped.
process_waitpid ==
  /\ sample = "process_waitpid" /\ UNCHANGED sample
  /\ \/ ForkLoop("wait")
     \/ /\ par = "wait" /\ kid[1] \in {"zombie", "stopped"} /\ par' = "done"
        /\ kid' = [kid EXCEPT ![1] = IF @ = "zombie" THEN "reaped" ELSE @]
        /\ UNCHANGED <<pending, handler, child_cnt, forked>>

-----------------------------------------------------------------------------
(* One child: fork, and waitpid for it.  Nothing interrupts the wait, since *)
(* no handler is installed.                                                *)
ForkOnce ==
  /\ par = "fork" /\ UNCHANGED <<pending, handler, child_cnt>>
  /\ \/ forked' = 1 /\ kid' = [kid EXCEPT ![1] = "running"] /\ par' = "wait"
     \/ par' = "errExit" /\ UNCHANGED <<forked, kid>>

WaitForIt ==
  /\ par = "wait" /\ kid[1] = "zombie" /\ par' = "done"
  /\ kid' = [kid EXCEPT ![1] = "reaped"]
  /\ UNCHANGED <<pending, handler, child_cnt, forked>>

process_func == sample = "process_func" /\ UNCHANGED sample /\ (ForkOnce \/ WaitForIt)

\* The child calls execve, or errExit if that fails.
process_exec == sample = "process_exec" /\ UNCHANGED sample /\ (ForkOnce \/ WaitForIt)

\* WNOHANG: the parent does not wait for a child that still runs.
fork_exec_wait ==
  /\ sample = "fork_exec_wait" /\ UNCHANGED sample
  /\ \/ ForkOnce \/ WaitForIt
     \/ /\ par = "wait" /\ kid[1] = "running" /\ par' = "done"
        /\ UNCHANGED <<kernelVars, child_cnt, forked>>

Parent == \/ process_wait_by_signal \/ process_wait \/ process_waitpid
          \/ process_func \/ process_exec \/ fork_exec_wait

ChNext == \/ Parent \/ Kernel \/ SignalFirst
          \/ \E c \in Kids : ChildExit(c)

(* Processes run, children end, pending signals are delivered; nobody has  *)
(* to signal the first child of process_waitpid, fork need not fail, and a *)
(* program that was executed need not end.                                 *)
ChFairness == WF_chVars(Parent) /\ WF_chVars(Kernel)
              /\ \A c \in Kids : WF_chVars(sample \notin ExecSamples /\ ChildExit(c))
ChSpec == ChInit /\ [][ChNext]_<<sample, chVars>>
-----------------------------------------------------------------------------
(* No zombie is forgotten: though SIGCHLD is one bit, a child that has     *)
(* ended is announced by it or is about to be found by the handler's loop. *)
NoZombieForgotten ==
  sample \in {"process_wait_by_signal", "socket_echo_server"} /\ Zombies # {}
    => pending \/ handler = "loop"

(* No wake-up is lost between the test of child_cnt and sigsuspend: the    *)
(* parent ends (or could not fork).  So do the parent of one child that    *)
(* ends, and the one that only looks whether its child has ended.          *)
ParentEnds ==
  sample \in {"process_wait_by_signal", "process_wait", "process_func", "fork_exec_wait"}
    ~> par \in {"done", "errExit"}
=============================================================================
