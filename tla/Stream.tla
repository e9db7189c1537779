------------------------------- MODULE Stream -------------------------------
(***************************************************************************)
(* What a byte or message stream between two processes promises: items     *)
(* come out once, in the order they went in, and at most Capacity of them  *)
(* are on the way.  Abstract specification of the shared-memory transfer,  *)
(* ShmTransfer.                                                            *)
(***************************************************************************)
EXTENDS Naturals, Sequences

CONSTANTS Items, Capacity

VARIABLES sent, received

vars == <<sent, received>>

Init == sent = <<>> /\ received = <<>>

Send(x) ==
  /\ Len(sent) < Len(received) + Capacity
  /\ sent' = Append(sent, x)
  /\ UNCHANGED received

Receive ==
  /\ Len(received) < Len(sent)
  /\ received' = Append(received, sent[Len(received) + 1])
  /\ UNCHANGED sent

Next == Receive \/ \E x \in Items : Send(x)

Spec == Init /\ [][Next]_vars
=============================================================================
