--------------------------- MODULE MCShmTransfer ----------------------------
(* Instances of ShmTransfer for TLC. *)
EXTENDS ShmTransfer

ThreeChunks == <<2, 1, 2>>
Fresh       == {}
AnyLeftover == [w : {0, 1}, r : {0, 1}]
=============================================================================
