------------------------------ MODULE Samples -------------------------------
(***************************************************************************)
(* Each of the three programs of the repository is a collection of sample  *)
(* functions; its main() calls one of them (the others are commented out). *)
(* Modules whose samples are checked together share this choice: a module  *)
(* takes steps only when the sample is one of its own.                     *)
(***************************************************************************)
VARIABLE sample   \* the function main() calls; never changes
=============================================================================
