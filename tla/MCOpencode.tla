---------------------------- MODULE MCOpencode ----------------------------
(* Opencode for TLC. *)
EXTENDS Opencode
=============================================================================
