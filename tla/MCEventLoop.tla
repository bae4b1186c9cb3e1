---------------------------- MODULE MCEventLoop ----------------------------
(* A finite instance of EventLoop for TLC. *)
EXTENDS EventLoop
CONSTANTS s1
=============================================================================
