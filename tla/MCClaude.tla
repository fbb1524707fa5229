------------------------------ MODULE MCClaude ------------------------------
(* Claude with two prompts to the session.                                 *)
EXTENDS Claude
=============================================================================
