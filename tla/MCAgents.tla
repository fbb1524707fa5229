---------------------------- MODULE MCAgents ----------------------------
(* Agents for TLC: agents_patient.cfg names the clients, calls and hooks.  *)
EXTENDS Agents
=============================================================================
