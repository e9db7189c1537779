------------------------------- MODULE Daemon -------------------------------
(***************************************************************************)
(* LinuxAPI/process_daemonize.c: a process turns itself into a daemon with *)
(* two forks and setsid, closes every descriptor, points 0, 1 and 2 at     *)
(* /dev/null, and logs; SIGHUP asks it to close the log and open it again, *)
(* so that the user can move the file away.  The model follows the process *)
(* that goes on after each fork.  make_daemon (api3/process_manage.c) is   *)
(* shorter: one fork, dup instead of dup2, no log and no checks.           *)
(***************************************************************************)
EXTENDS Samples, Integers, FiniteSets

CONSTANTS MaxFd,      \* descriptors 0..MaxFd
          MaxHups, MaxMoves, MaxFailures   \* bounds on the user, the disk

ASSUME DaemonAssumption ==
  MaxFd \in Nat /\ MaxFd >= 4 /\ MaxHups \in Nat /\ MaxMoves \in Nat /\ MaxFailures \in Nat

Fds == 0..MaxFd
\* What a descriptor may be, other than a log file (a number from 1 on).
Closed == -1
Null   == -2
Tty    == -3

VARIABLES dpc,                      \* next step
          gleader, sleader, ctty,   \* group leader, session leader, terminal
          fdt,                      \* descriptor table
          fd,                       \* the sample's static fd
          path,                     \* file at LOG_FILE, 0 if there is none
          lastFile,                 \* files created so far
          hup_signaled,
          unslept,                  \* what sleep returned: zero or some
          wanted,                   \* SIGHUP since the log was last opened
          hups, moves, failures     \* history, for the bounds

dmVars == <<dpc, gleader, sleader, ctty, fdt, fd, path, lastFile, hup_signaled,
            unslept, wanted, hups, moves, failures>>
session == <<gleader, sleader, ctty>>
files   == <<fdt, fd, path, lastFile>>
user    == <<hups, moves>>

Setup   == {"fork1", "setsid", "fork2", "closeall", "devnull"}
Serving == {"sleep", "sleeping", "check", "log_close", "reopen", "reset", "message"}

(* The daemon's state is well formed. *)
DmTypeOK ==
  /\ dpc \in Setup \cup Serving \cup {"log_open", "errExit", "forever"}
  /\ gleader \in BOOLEAN /\ sleader \in BOOLEAN /\ ctty \in BOOLEAN
  /\ lastFile \in Nat /\ path \in 0..lastFile
  /\ fdt \in [Fds -> {Closed, Null, Tty} \cup 1..lastFile] /\ fd \in {-1} \cup 3..MaxFd
  /\ hup_signaled \in BOOLEAN /\ wanted \in BOOLEAN /\ unslept \in {"zero", "some"}
  /\ hups \in 0..MaxHups /\ moves \in 0..MaxMoves /\ failures \in 0..MaxFailures

\* Started from a shell: a group leader with a terminal on 0, 1 and 2.
DmInit ==
  /\ dpc = "fork1" /\ gleader = TRUE /\ sleader = FALSE /\ ctty = TRUE
  /\ fdt = [f \in Fds |-> IF f <= 2 THEN Tty ELSE Closed]
  /\ fd = -1 /\ path = 0 /\ lastFile = 0
  /\ hup_signaled = FALSE /\ unslept = "some" /\ wanted = FALSE
  /\ hups = 0 /\ moves = 0 /\ failures = 0

InDaemon == sample = "process_daemonize"
Fails    == failures < MaxFailures /\ failures' = failures + 1
NoFail   == UNCHANGED failures
OpenSlot(table) == CHOOSE f \in Fds : table[f] = Closed /\ \A g \in Fds : g < f => table[g] # Closed
-----------------------------------------------------------------------------
\* fork, and the parent exits: the child leads neither group nor session.
Fork1 ==
  /\ dpc = "fork1" /\ UNCHANGED <<ctty, files>>
  /\ \/ NoFail /\ dpc' = "setsid" /\ gleader' = FALSE /\ sleader' = FALSE
     \/ Fails /\ dpc' = "errExit" /\ UNCHANGED <<gleader, sleader>>

MutFork2 ==
  /\ dpc = "fork2" /\ dpc' = "closeall" /\ NoFail /\ UNCHANGED <<session, files>>

Fork2 ==
  /\ dpc = "fork2" /\ UNCHANGED <<ctty, files>>
  /\ \/ NoFail /\ dpc' = "closeall" /\ gleader' = FALSE /\ sleader' = FALSE
     \/ Fails /\ dpc' = "errExit" /\ UNCHANGED <<gleader, sleader>>

\* setsid fails for a group leader.
Setsid ==
  /\ dpc = "setsid" /\ NoFail /\ UNCHANGED files
  /\ IF gleader THEN dpc' = "errExit" /\ UNCHANGED session
     ELSE /\ dpc' = IF InDaemon THEN "fork2" ELSE "closeall"
          /\ gleader' = TRUE /\ sleader' = TRUE /\ ctty' = FALSE

CloseAll ==
  /\ dpc = "closeall" /\ dpc' = "devnull" /\ NoFail
  /\ fdt' = [f \in Fds |-> Closed] /\ UNCHANGED <<session, fd, path, lastFile>>

MutDevNull ==
  /\ dpc = "devnull" /\ NoFail /\ UNCHANGED <<session, fd, path, lastFile>>
  /\ fdt' = [fdt EXCEPT ![OpenSlot(fdt)] = Null] /\ dpc' = "log_open"

\* open("/dev/null") must give descriptor 0; dup2 makes 1 and 2.
DevNull ==
  /\ dpc = "devnull" /\ UNCHANGED <<session, fd, path, lastFile>>
  /\ LET closed0 == [fdt EXCEPT ![0] = Closed] IN
       \/ /\ NoFail
          /\ IF OpenSlot(closed0) = 0
               THEN fdt' = [closed0 EXCEPT ![0] = Null, ![1] = Null, ![2] = Null] /\ dpc' = "log_open"
               ELSE fdt' = [closed0 EXCEPT ![OpenSlot(closed0)] = Null] /\ dpc' = "errExit"
       \/ Fails /\ fdt' = closed0 /\ dpc' = "errExit"

\* open and dup twice: 0, 1 and 2, since everything is closed.  If open
\* fails there is nothing to dup; a dup may fail by itself.
DevNullByDup ==
  /\ dpc = "devnull" /\ dpc' = "forever" /\ UNCHANGED <<session, fd, path, lastFile>>
  /\ \/ NoFail /\ fdt' = [f \in Fds |-> IF f <= 2 THEN Null ELSE fdt[f]]
     \/ Fails /\ \E n \in 0..2 : fdt' = [f \in Fds |-> IF f < n THEN Null ELSE fdt[f]]

make_daemon ==
  /\ sample = "make_daemon"
  /\ Fork1 \/ Setsid \/ CloseAll \/ DevNullByDup
  /\ UNCHANGED <<sample, hup_signaled, unslept, wanted, user>>

become_daemon ==
  /\ InDaemon
  /\ Fork1 \/ Setsid \/ Fork2 \/ CloseAll \/ DevNull
  /\ UNCHANGED <<sample, hup_signaled, unslept, wanted, user>>
-----------------------------------------------------------------------------
(* log_open: the file at LOG_FILE, or a new one, on the lowest free        *)
(* descriptor; errExit when it cannot be opened or none is free.           *)
log_open ==
  /\ InDaemon /\ dpc \in {"log_open", "reopen"}
  /\ LET ok == (\E f \in Fds : fdt[f] = Closed)
         file == IF path = 0 THEN lastFile + 1 ELSE path
     IN \/ /\ ok /\ NoFail
           /\ fd' = OpenSlot(fdt) /\ fdt' = [fdt EXCEPT ![OpenSlot(fdt)] = file]
           /\ path' = file /\ lastFile' = IF path = 0 THEN file ELSE lastFile
           /\ wanted' = FALSE /\ dpc' = IF dpc = "reopen" THEN "reset" ELSE "sleep"
        \/ /\ IF ok THEN Fails ELSE NoFail
           /\ dpc' = "errExit" /\ fd' = -1 /\ UNCHANGED <<fdt, path, lastFile, wanted>>
  /\ UNCHANGED <<sample, session, hup_signaled, unslept, user>>

(* log_close writes a last line; if that fails it returns without close. *)
log_close ==
  /\ InDaemon /\ dpc = "log_close" /\ dpc' = "reopen"
  /\ \/ NoFail /\ fdt' = [fdt EXCEPT ![fd] = Closed]
     \/ Fails /\ UNCHANGED fdt
  /\ UNCHANGED <<sample, session, fd, path, lastFile, hup_signaled, unslept, wanted, user>>

LogIdle == UNCHANGED <<sample, session, files, wanted, failures, user>>

\* sleep(unslept): the whole time passes unless SIGHUP cuts it short.
Sleep ==
  /\ UNCHANGED hup_signaled
  /\ \/ dpc = "sleep" /\ dpc' = "sleeping" /\ UNCHANGED unslept
     \/ dpc = "sleeping" /\ dpc' = "check" /\ unslept' = "zero"

MutCheckHup ==
  /\ dpc = "check" /\ UNCHANGED <<hup_signaled, unslept>>
  /\ dpc' = IF hup_signaled /\ unslept = "some" THEN "log_close" ELSE "message"

CheckHup ==
  /\ dpc = "check" /\ UNCHANGED <<hup_signaled, unslept>>
  /\ dpc' = IF hup_signaled THEN "log_close" ELSE "message"

\* hup_signaled = 0, after the log has been opened again.
ResetHup ==
  /\ dpc = "reset" /\ dpc' = "message" /\ hup_signaled' = FALSE /\ UNCHANGED unslept

\* A message every SLEEP_TIME seconds, to whatever fd stands for; otherwise
\* the rest of the time is slept.
Message ==
  /\ dpc = "message" /\ dpc' = "sleep" /\ unslept' = "some" /\ UNCHANGED hup_signaled

process_daemonize == InDaemon /\ LogIdle /\ (Sleep \/ CheckHup \/ ResetHup \/ Message)

(* SIGHUP reaches hup_signal_handler at any moment, before become_daemon   *)
(* too; it is not queued.  It ends a sleep, what is left being rounded.    *)
hup_signal_handler ==
  /\ InDaemon /\ dpc # "errExit" /\ hups < MaxHups /\ hups' = hups + 1
  /\ hup_signaled' = TRUE /\ wanted' = TRUE
  /\ IF dpc = "sleeping" THEN dpc' = "check" /\ unslept' \in {"zero", "some"}
                         ELSE UNCHANGED <<dpc, unslept>>
  /\ UNCHANGED <<sample, session, files, moves, failures>>

\* The user: $ mv <log> <log>.old
Move ==
  /\ InDaemon /\ dpc \in Serving /\ path # 0 /\ moves < MaxMoves /\ moves' = moves + 1
  /\ path' = 0
  /\ UNCHANGED <<sample, dpc, session, fdt, fd, lastFile, hup_signaled, unslept, wanted,
                 hups, failures>>

DaemonStep == make_daemon \/ become_daemon \/ log_open \/ log_close \/ process_daemonize
DmNext == DaemonStep \/ hup_signal_handler \/ Move

(* The daemon runs; nobody has to send it signals. *)
DmFairness == WF_dmVars(DaemonStep)
DmSpec == DmInit /\ [][DmNext]_<<sample, dmVars>>
-----------------------------------------------------------------------------
(* A serving daemon can never get a terminal again (it leads no session),  *)
(* and its log is not one of the descriptors library code prints to.       *)
(* Messages always find an open log, and only a failed write in log_close  *)
(* leaves a descriptor behind.  make_daemon has no terminal either, and    *)
(* none on 0, 1 and 2 unless a call failed.                                *)
Detached ==
  /\ dpc = "forever" => /\ ~ctty /\ \A f \in 0..2 : fdt[f] # Tty
                        /\ failures = 0 => \A f \in 0..2 : fdt[f] = Null
  /\ dpc \in Serving \cup {"log_open"} =>
       /\ ~ctty /\ ~sleader
       /\ \A f \in 0..2 : fdt[f] = Null
       /\ dpc # "log_open" => fd > 2
  /\ dpc \in Serving \ {"reopen"} => fdt[fd] > 0
  /\ Cardinality({f \in Fds : fdt[f] > 0}) <= failures + 1

(* SIGHUP that finds the daemon anywhere but between log_open and the      *)
(* reset of the flag makes it open the log again.                          *)
HupHonoured ==
  hup_signaled /\ wanted /\ dpc # "reset" ~> ~wanted \/ dpc = "errExit"

(* Lines 218-220: on SIGHUP the daemon closes the log and begins a new one *)
(* (at whatever moment the signal comes).                                  *)
EveryHupReopens == wanted ~> ~wanted \/ dpc = "errExit"
=============================================================================
