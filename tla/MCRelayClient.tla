--------------------------- MODULE MCRelayClient ---------------------------
(***************************************************************************)
(* TLC instances of RelayClient.                                           *)
(***************************************************************************)
EXTENDS RelayClient
=============================================================================
