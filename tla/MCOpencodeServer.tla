-------------------------- MODULE MCOpencodeServer --------------------------
(* OpencodeServer for TLC.                                                 *)
EXTENDS OpencodeServer
=============================================================================
