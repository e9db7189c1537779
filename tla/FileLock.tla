------------------------------ MODULE FileLock ------------------------------
(***************************************************************************)
(* LinuxAPI2/file_lock.c: the whole file locked with flock, or a region of *)
(* it with fcntl, by several runs of the same program.  The command line   *)
(* of a run says which kind of lock, which region and, for a region,       *)
(* whether to wait (b) or to give up (n).                                  *)
(***************************************************************************)
EXTENDS Samples, Naturals, FiniteSets

CONSTANTS Lockers, Bytes    \* runs of the program, bytes of the file

LockSamples == {"file_lock_flock", "file_lock_region"}
Region      == IF sample = "file_lock_flock" THEN {Bytes} ELSE SUBSET Bytes \ {{}}

VARIABLES lk,    \* per run: its arguments, where it is, what F_GETLK said
          held   \* the kernel's table: <<run, type, region>>

lockVars == <<lk, held>>

(* The table holds locks of runs that are alive, with their arguments.     *)
LockTypeOK ==
  /\ \A p \in Lockers :
       /\ lk[p].pc \in {"open", "flock", "getlk", "setlk", "sleep", "pause", "exit", "errExit", "killed"}
       /\ lk[p].type \in {"read", "write"} /\ lk[p].opt \in {"b", "n"} /\ lk[p].region \subseteq Bytes
  /\ \A h \in held : h[1] \in Lockers /\ h[2] = lk[h[1]].type /\ h[3] = lk[h[1]].region
                     /\ lk[h[1]].pc \in {"sleep", "pause"}

\* LOCK_SH or F_RDLCK, LOCK_EX or F_WRLCK; flock always waits.
Arguments ==
  [pc : {"open"}, told : {"nothing"},
   type : IF sample \in LockSamples THEN {"read", "write"} ELSE {"read"},
   opt : IF sample = "file_lock_region" THEN {"b", "n"} ELSE {"b"},
   region : IF sample \in LockSamples THEN Region ELSE {Bytes}]

LockInit ==
  /\ lk \in [Lockers -> Arguments]
  /\ held = {}

Goto(p, l) == lk' = [lk EXCEPT ![p].pc = l]
\* The locks that stand in the way of p's.
Conflicts(p) == {h \in held : h[1] # p /\ h[3] \cap lk[p].region # {}
                              /\ "write" \in {h[2], lk[p].type}}
TakeLock(p)  == held' = held \cup {<<p, lk[p].type, lk[p].region>>}
GiveUp(p)    == held' = {h \in held : h[1] # p}

OpenSample(p) ==
  /\ lk[p].pc = "open" /\ UNCHANGED <<sample, held>>
  /\ \/ Goto(p, IF sample = "file_lock_flock" THEN "flock" ELSE "getlk")
     \/ Goto(p, "errExit")

\* Waits; without an option the kind of lock is whatever was on the stack,
\* and flock takes it for one of the two or refuses it.
Flock(p) ==
  /\ lk[p].pc = "flock" /\ UNCHANGED sample
  /\ \/ Conflicts(p) = {} /\ TakeLock(p) /\ Goto(p, "sleep")
     \/ Goto(p, "errExit") /\ UNCHANGED held

\* LOCK_UN after ten seconds.
Funlock(p) == lk[p].pc = "sleep" /\ Goto(p, "exit") /\ GiveUp(p) /\ UNCHANGED sample

\* F_GETLK: what is said is printed and not used.
lock_region_is_locked(p) ==
  /\ lk[p].pc = "getlk" /\ UNCHANGED <<sample, held>>
  /\ lk' = [lk EXCEPT ![p].pc = "setlk",
                      ![p].told = IF Conflicts(p) = {} THEN "free" ELSE "locked"]

\* F_SETLKW.  What it returns is not looked at, and it cannot fail: a run that
\* waits holds nothing (no EDEADLK) and handles no signal (no EINTR).
lock_region_block(p) ==
  /\ lk[p].pc = "setlk" /\ lk[p].opt = "b" /\ Conflicts(p) = {}
  /\ TakeLock(p) /\ Goto(p, "pause") /\ UNCHANGED sample

MutBelieveGetlk(p) == lk[p].told = "locked"
\* errno == EAGAIN after F_SETLK.
locked_by_others(p) == Conflicts(p) # {}

lock_region_nblock(p) ==
  /\ lk[p].pc = "setlk" /\ lk[p].opt = "n" /\ UNCHANGED sample
  /\ IF locked_by_others(p) THEN Goto(p, "errExit") /\ UNCHANGED held
     ELSE Goto(p, "pause") /\ held' = IF Conflicts(p) = {} THEN held \cup {<<p, lk[p].type, lk[p].region>>}
                                      ELSE held

\* pause lasts until the process is killed, and so may anything else.
KillLocker(p) ==
  /\ lk[p].pc \notin {"exit", "errExit", "killed"} /\ Goto(p, "killed") /\ GiveUp(p)
  /\ UNCHANGED sample

LockStep(p) == \/ OpenSample(p) \/ Flock(p) \/ Funlock(p) \/ lock_region_is_locked(p)
               \/ lock_region_block(p) \/ lock_region_nblock(p)

LockNext == /\ sample \in LockSamples
            /\ \E p \in Lockers : LockStep(p) \/ KillLocker(p)
-----------------------------------------------------------------------------
(* Runs that think they hold a lock, because flock has returned or fcntl   *)
(* has not said EAGAIN, are not in each other's way, whatever F_GETLK said *)
(* before and whoever has come and gone since.                             *)
BeliefsAgree ==
  \A p, r \in Lockers :
    /\ p # r /\ {lk[p].pc, lk[r].pc} \subseteq {"sleep", "pause"}
    /\ "write" \in {lk[p].type, lk[r].type}
    => lk[p].region \cap lk[r].region = {}
=============================================================================
