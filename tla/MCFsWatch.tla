----------------------------- MODULE MCFsWatch -----------------------------
(* Finite instances of FsWatch for TLC. *)
EXTENDS FsWatch
CONSTANTS a, b
=============================================================================
