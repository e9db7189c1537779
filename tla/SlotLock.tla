------------------------------ MODULE SlotLock ------------------------------
(***************************************************************************)
(* What every lock of the repository promises, whatever it is made of: at  *)
(* most Slots members of Procs are in the protected job at a time.  A      *)
(* process that dies in the job takes its slot with it (no sample uses     *)
(* SEM_UNDO or a robust mutex), so the slot counts as taken for ever.      *)
(*                                                                         *)
(* Abstract specification; SysVSem (two slots) and LockedSum (one slot)    *)
(* are shown to implement it.                                              *)
(***************************************************************************)
EXTENDS Naturals, FiniteSets

CONSTANTS Procs, Slots

VARIABLES inside,  \* processes in the job
          lost     \* processes that died in the job

vars == <<inside, lost>>

Init == inside = {} /\ lost = {}

Enter(p) ==
  /\ p \notin inside \cup lost
  /\ Cardinality(inside \cup lost) < Slots
  /\ inside' = inside \cup {p}
  /\ UNCHANGED lost

Leave(p) ==
  /\ p \in inside
  /\ inside' = inside \ {p}
  /\ UNCHANGED lost

Die(p) ==
  /\ p \in inside
  /\ inside' = inside \ {p}
  /\ lost' = lost \cup {p}

Next == \E p \in Procs : Enter(p) \/ Leave(p) \/ Die(p)

Spec == Init /\ [][Next]_vars
=============================================================================
