---------------------------- MODULE MCHttpAsync ----------------------------
(* A finite instance of HttpAsync for TLC. *)
EXTENDS HttpAsync
CONSTANTS w1, w2
=============================================================================
