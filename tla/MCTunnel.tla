---------------------------- MODULE MCTunnel ----------------------------
(* Tunnel for TLC: tunnel_flow.cfg names the flow and the sockets.         *)
EXTENDS Tunnel
=============================================================================
