----------------------------- MODULE MCSysVSem ------------------------------
(* Instances of SysVSem for TLC. *)
EXTENDS SysVSem

CONSTANTS p1, p2, p3

ThreeProcs == {p1, p2, p3}
=============================================================================
