------------------------------ MODULE MCPosixMq -----------------------------
(* Instances of PosixMq for TLC. *)
EXTENDS PosixMq

CONSTANTS w1, w2, r1, t1, t2, t3

TwoWriters   == {w1, w2}
OneReader    == {r1}
ThreeThreads == {t1, t2, t3}
=============================================================================
