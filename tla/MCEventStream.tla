---------------------------- MODULE MCEventStream ----------------------------
(* EventStream for TLC: stream_watch.cfg names sessions and phones.        *)
EXTENDS EventStream
=============================================================================
