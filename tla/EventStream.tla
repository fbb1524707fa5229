---------------------------- MODULE EventStream ----------------------------
(***************************************************************************)
(* OpencodeEventStream (agent/opencode-event-stream.ts): the connection to *)
(* opencode's live event feed that all watched sessions share.  It is      *)
(* opened for the first subscriber and closed after the last; in between   *)
(* it is reopened when it breaks, and torn down when it is silent for too  *)
(* long.                                                                   *)
(*                                                                         *)
(* An AbortController is named by the connection it was made for, so       *)
(* `controller' is a connection.  What a connection does after its abort   *)
(* (reject the fetch or the read) is a step of its own: it happens in a    *)
(* later microtask, when other code may have run.                          *)
(*                                                                         *)
(* Abstracted: the backoff delay (it only says when the timer fires) and   *)
(* the text of the frames.                                                 *)
(***************************************************************************)
EXTENDS Naturals, FiniteSets

CONSTANTS
    Sessions,   \* opencode sessions
    Phones,     \* those who may watch one of them
    Conns,      \* connections to /api/event, reused once they are gone
    Nil,        \* no connection, no event
    AnySession, \* what an event without a session id is tagged with here
    Overlap     \* may a subscription start the stream over a connection that is still there?

ASSUME StreamAssumption ==
    /\ IsFiniteSet(Sessions) /\ IsFiniteSet(Phones) /\ IsFiniteSet(Conns)
    /\ Nil \notin Conns \cup Sessions
    /\ AnySession \notin Sessions \cup {Nil}
    /\ Overlap \in BOOLEAN

VARIABLES
    subscribers,    \* registered callbacks, each with the session it is for
    conn,           \* the connections, whoever still refers to them
    controller,     \* this.controller
    connected,      \* this.connected
    reading,        \* this.reading
    disposed,       \* this.disposed
    reconnectTimer, \* "null", "set", or "cleared": stop() clears it and keeps the handle
    watchdog,       \* is the silence check armed?
    silent,         \* has the last beat been longer ago than watchdogMs?
    received        \* how often each subscriber was handed the last event

streamVars == <<controller, connected, reading, disposed,
                reconnectTimer, watchdog, silent>>
vars == <<subscribers, conn, streamVars, received>>

Subscribers == Sessions \X Phones

(* phase:   "none", "opening" until openStream answers, "reading", or       *)
(*          "unread" when connect returned without reading the stream       *)
(* aborted: its controller was aborted                                      *)
(* wedged:  open, but nothing will come through any more                    *)
(* frame:   the event on its way, by the session it is for                  *)
Closed == [phase |-> "none", aborted |-> FALSE, wedged |-> FALSE, frame |-> Nil]

Conn == [phase : {"none", "opening", "reading", "unread"},
         aborted : BOOLEAN, wedged : BOOLEAN,
         frame : Sessions \cup {AnySession, Nil}]

TypeOK ==
    /\ subscribers \subseteq Subscribers
    /\ conn \in [Conns -> Conn]
    /\ controller \in Conns \cup {Nil}
    /\ <<connected, reading, disposed, watchdog, silent>>
           \in BOOLEAN \X BOOLEAN \X BOOLEAN \X BOOLEAN \X BOOLEAN
    /\ reconnectTimer \in {"null", "set", "cleared"}
    /\ received \in [Subscribers -> 0 .. Cardinality(Conns)]
    /\ connected => reading /\ \E c \in Conns : conn[c].phase = "reading"

Watched(subs) == {s[1] : s \in subs}

Init ==
    /\ subscribers = {}
    /\ conn = [c \in Conns |-> Closed]
    /\ controller = Nil
    /\ connected = FALSE /\ reading = FALSE /\ disposed = FALSE
    /\ reconnectTimer = "null"
    /\ watchdog = FALSE /\ silent = FALSE
    /\ received = [s \in Subscribers |-> 0]

-----------------------------------------------------------------------------
(* Helpers of the class.                                                    *)

\* Mutant of Connect: the handle of the old timer is kept.
ConnectKeepsTimer ==
    \E c \in Conns :
        /\ conn[c].phase = "none"
        /\ conn' = [conn EXCEPT ![c].phase = "opening"]
        /\ controller' = c
        /\ reconnectTimer' = IF reconnectTimer = "set" THEN "cleared" ELSE reconnectTimer

(* connect() up to its await. *)
Connect ==
    \E c \in Conns :
        /\ conn[c].phase = "none"
        /\ conn' = [conn EXCEPT ![c].phase = "opening"]
        /\ controller' = c
        /\ reconnectTimer' = "null"

(* scheduleReconnect(): any handle, even of a cleared timer, keeps it away. *)
ScheduleReconnect ==
    reconnectTimer' = IF subscribers = {} \/ reconnectTimer # "null"
                      THEN reconnectTimer ELSE "set"

\* Mutant of Stop: the connection is forgotten, not aborted.
StopKeepsSocket ==
    /\ disposed' = TRUE
    /\ reconnectTimer' = IF reconnectTimer = "set" THEN "cleared" ELSE reconnectTimer
    /\ watchdog' = FALSE
    /\ controller' = Nil
    /\ reading' = FALSE /\ connected' = FALSE
    /\ UNCHANGED conn

(* stop() *)
Stop ==
    /\ disposed' = TRUE
    /\ reconnectTimer' = IF reconnectTimer = "set" THEN "cleared" ELSE reconnectTimer
    /\ watchdog' = FALSE
    /\ conn' = IF controller = Nil \/ conn[controller].phase \in {"none", "unread"}
               THEN conn ELSE [conn EXCEPT ![controller].aborted = TRUE]
    /\ controller' = Nil
    /\ reading' = FALSE /\ connected' = FALSE

-----------------------------------------------------------------------------
\* Mutant of Starts: every subscription starts the stream.
StartsAlways(subs) == TRUE

(* `this.subscribers.size === 1', which counts sessions, not callbacks. *)
Starts(subs) == Cardinality(Watched(subs)) = 1

(* A callback is registered.  With one session watched the stream is        *)
(* started, also when that session was being watched already.               *)
Subscribe(s) ==
    /\ s \notin subscribers
    /\ subscribers' = subscribers \cup {s}
    /\ Overlap \/ Cardinality(Watched(subscribers')) # 1
               \/ \A c \in Conns : conn[c].phase = "none"
    /\ IF Starts(subscribers')
       THEN Connect /\ disposed' = FALSE
       ELSE UNCHANGED <<conn, controller, reconnectTimer, disposed>>
    /\ received' = [received EXCEPT ![s] = 0]
    /\ UNCHANGED <<connected, reading, watchdog, silent>>

Unsubscribe(s) ==
    /\ s \in subscribers
    /\ subscribers' = subscribers \ {s}
    /\ IF subscribers' = {} THEN Stop ELSE UNCHANGED <<conn, controller, connected,
           reading, disposed, reconnectTimer, watchdog>>
    /\ received' = [received EXCEPT ![s] = 0]
    /\ UNCHANGED silent

(* openStream resolves.  Without subscribers connect returns and leaves the *)
(* body unread; otherwise it reads, and the first touch arms the watchdog.  *)
Opened(c) ==
    /\ conn[c].phase = "opening" /\ ~conn[c].aborted
    /\ IF subscribers = {}
       THEN /\ conn' = [conn EXCEPT ![c].phase = "unread"]
            /\ UNCHANGED <<reading, connected, watchdog, silent>>
       ELSE /\ conn' = [conn EXCEPT ![c].phase = "reading"]
            /\ reading' = TRUE /\ connected' = TRUE
            /\ watchdog' = TRUE /\ silent' = FALSE
    /\ UNCHANGED <<subscribers, controller, disposed, reconnectTimer, received>>

(* openStream rejects: the server is not there, or the abort got to it. *)
OpenFailed(c) ==
    /\ conn[c].phase = "opening"
    /\ conn' = [conn EXCEPT ![c] = Closed]
    /\ ScheduleReconnect
    /\ UNCHANGED <<subscribers, controller, connected, reading, disposed,
                   watchdog, silent, received>>

(* A response ends.  Was it being read, by an end of file, an error or an   *)
(* abort, then the read loop cleans up and comes back.                      *)
Ended(c) ==
    /\ conn[c].phase \in {"reading", "unread"}
    /\ conn' = [conn EXCEPT ![c] = Closed]
    /\ IF conn[c].phase = "reading"
       THEN /\ reading' = FALSE /\ connected' = FALSE
            /\ IF disposed THEN UNCHANGED reconnectTimer ELSE ScheduleReconnect
       ELSE UNCHANGED <<reading, connected, reconnectTimer>>
    /\ UNCHANGED <<subscribers, controller, disposed, watchdog, silent, received>>

(* A frame is read: it beats, and its event goes to the callbacks of its    *)
(* session, or to all when it names none.                                   *)
Deliver(c) ==
    /\ conn[c].phase = "reading" /\ ~conn[c].aborted /\ conn[c].frame # Nil
    /\ conn' = [conn EXCEPT ![c].frame = Nil]
    /\ received' = [s \in Subscribers |->
                       IF s \in subscribers /\ conn[c].frame \in {s[1], AnySession}
                       THEN received[s] + 1 ELSE received[s]]
    /\ watchdog' = TRUE /\ silent' = FALSE
    /\ UNCHANGED <<subscribers, controller, connected, reading, disposed, reconnectTimer>>

ReconnectFires ==
    /\ reconnectTimer = "set"
    /\ IF subscribers = {}
       THEN reconnectTimer' = "null" /\ UNCHANGED <<conn, controller>>
       ELSE Connect
    /\ UNCHANGED <<subscribers, connected, reading, disposed, watchdog, silent, received>>

(* The silence check: it is not armed again once it aborted, nor while      *)
(* nothing is read.                                                         *)
WatchdogFires ==
    /\ watchdog /\ (silent \/ ~reading)
    /\ watchdog' = FALSE
    /\ conn' = IF ~reading \/ controller = Nil \/ conn[controller].phase \in {"none", "unread"}
               THEN conn ELSE [conn EXCEPT ![controller].aborted = TRUE]
    /\ UNCHANGED <<subscribers, controller, connected, reading, disposed,
                   reconnectTimer, silent, received>>

-----------------------------------------------------------------------------
(* opencode and the time that passes.                                       *)

(* An event of session s, or of none, is written to every open response. *)
Emit(s) ==
    /\ \E c \in Conns : conn[c].phase = "reading"
    /\ \A c \in Conns : conn[c].frame = Nil
    /\ conn' = [c \in Conns |->
                   IF conn[c].phase = "reading" /\ ~conn[c].wedged /\ ~conn[c].aborted
                   THEN [conn[c] EXCEPT !.frame = s] ELSE conn[c]]
    /\ received' = [x \in Subscribers |-> 0]
    /\ UNCHANGED <<subscribers, streamVars>>

Wedge(c) ==
    /\ conn[c].phase = "reading" /\ ~conn[c].wedged
    /\ conn' = [conn EXCEPT ![c].wedged = TRUE, ![c].frame = Nil]
    /\ UNCHANGED <<subscribers, streamVars, received>>

(* No connection that is read has beaten for watchdogMs. *)
Silence ==
    /\ ~silent
    /\ \A c \in Conns : conn[c].phase = "reading" => conn[c].wedged
    /\ silent' = TRUE
    /\ UNCHANGED <<subscribers, conn, controller, connected, reading, disposed,
                   reconnectTimer, watchdog, received>>

Next ==
    \/ \E s \in Subscribers : Subscribe(s) \/ Unsubscribe(s)
    \/ \E c \in Conns :
          \/ Opened(c) \/ OpenFailed(c) \/ Ended(c) \/ Deliver(c)
          \/ Wedge(c)
    \/ ReconnectFires \/ WatchdogFires \/ Silence
    \/ \E s \in Sessions \cup {AnySession} : Emit(s)

Spec == Init /\ [][Next]_vars

(* Timers fire, an abort is noticed, and opencode answers now and then: a   *)
(* connection that can be opened again and again is opened at last.         *)
Fairness ==
    /\ WF_vars(ReconnectFires) /\ WF_vars(WatchdogFires) /\ WF_vars(Silence)
    /\ \A c \in Conns :
          /\ SF_vars(Opened(c))
          /\ WF_vars(conn[c].phase = "opening" /\ (Opened(c) \/ OpenFailed(c)))
          /\ WF_vars(conn[c].aborted /\ Ended(c))

FairSpec == Spec /\ Fairness

-----------------------------------------------------------------------------
(* Nobody watching, no connection: what is open is being torn down          *)
(* (opencode-event-stream.ts:12, the stop of the last subscriber).          *)
NoIdleSocket ==
    subscribers = {} => \A c \in Conns : conn[c].phase = "none" \/ conn[c].aborted

(* Whatever reconnections race one another, a subscriber is handed an event *)
(* once: a text delta handed twice would be appended twice                  *)
(* (opencode-adapter.ts:208).                                               *)
DeliveredOnce == \A s \in Subscribers : received[s] <= 1

Beating ==
    connected /\ \E c \in Conns : conn[c].phase = "reading" /\ ~conn[c].wedged

(* While somebody watches, a stream that broke, was refused or fell silent  *)
(* comes back (scheduleReconnect, the watchdog).                            *)
StreamReturns == subscribers # {} ~> (Beating \/ subscribers = {})
=============================================================================
