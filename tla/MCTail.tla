------------------------------- MODULE MCTail -------------------------------
(* Tail for TLC.                                                           *)
EXTENDS Tail
=============================================================================
