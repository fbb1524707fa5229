---------------------------- MODULE MCBridge ----------------------------
(* Bridge for TLC: bridge_live.cfg names the client, session and sockets.  *)
EXTENDS Bridge
=============================================================================
