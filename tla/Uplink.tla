------------------------------- MODULE Uplink -------------------------------
(***************************************************************************)
(* What the Bridge takes for granted about the relay uplink: it comes up,  *)
(* stops sending, and goes down before it comes up again.  Bridge has the  *)
(* same three steps as its UplinkOpen, UplinkClosing and UplinkDown;       *)
(* RelayClient implements them.                                            *)
(***************************************************************************)
VARIABLE uplink         \* "open", "closing" or "down"

Init == uplink = "down"

Open == uplink = "down" /\ uplink' = "open"
Closing == uplink = "open" /\ uplink' = "closing"
Down == uplink # "down" /\ uplink' = "down"

Next == Open \/ Closing \/ Down

Spec == Init /\ [][Next]_uplink
=============================================================================
