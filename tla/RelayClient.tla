---------------------------- MODULE RelayClient ----------------------------
(***************************************************************************)
(* The daemon's one connection to the relay (relay-client.ts): connecting, *)
(* reconnecting with exponential backoff, and the heartbeat that notices a *)
(* link that died without a word.                                          *)
(*                                                                         *)
(* Every handler compares its socket with the current one, because a       *)
(* socket that was given up still has events to deliver.  Time passes in   *)
(* ticks of 30 s; the backoff is kept in seconds and its timer fires       *)
(* at any time.                                                            *)
(***************************************************************************)
EXTENDS Integers

CONSTANTS
    Sockets,            \* identities of WebSockets to the relay (recycled)
    Nil,                \* no socket, no heartbeat timer
    ErrorListener       \* does anybody listen to 'error' of the RelayClient?

ASSUME NilAssumption == Nil \notin Sockets \cup Int
ASSUME ListenerAssumption == ErrorListener \in BOOLEAN

FirstDelay == 1                 \* s
MaxDelay == 7200                \* 2 h
HeartbeatTicks == 2             \* 60 s
PongTicks == 3                  \* 90 s
MaxAge == PongTicks + 1         \* bound: older pongs are all too old

VARIABLES
    phase,              \* "idle", "running" (shouldReconnect), "stopped", or
                        \* "crashed" by an 'error' event nobody handles
    ws,                 \* the current socket or Nil
    socks,              \* readyState of every socket
    reconnectDelay,     \* s until the next but one attempt
    reconnectTimer,     \* is the reconnect timer armed?
    heartbeat,          \* ticks until the heartbeat, Nil when it is off
    pongAge,            \* ticks since lastPongTime, at most MaxAge
    pinged,             \* ghost: a ping of this link is unanswered
    silent,             \* ghost: the current link died without a word
    told                \* ghost: the last of 'connected' and 'disconnected'

vars == <<phase, ws, socks, reconnectDelay, reconnectTimer, heartbeat,
          pongAge, pinged, silent, told>>
link == <<reconnectDelay, reconnectTimer, heartbeat, pongAge, pinged, silent, told>>

TypeOK ==
    /\ phase \in {"idle", "running", "stopped", "crashed"}
    /\ ws \in Sockets \cup {Nil}
    /\ socks \in [Sockets -> {"unused", "connecting", "open", "closing"}]
    /\ reconnectDelay \in FirstDelay..MaxDelay
    /\ reconnectTimer \in BOOLEAN
    /\ heartbeat \in 0..HeartbeatTicks \cup {Nil}
    /\ pongAge \in 0..MaxAge
    /\ pinged \in BOOLEAN /\ silent \in BOOLEAN
    /\ told \in {"connected", "disconnected"}

Init ==
    /\ phase = "idle"
    /\ ws = Nil
    /\ socks = [w \in Sockets |-> "unused"]
    /\ reconnectDelay = FirstDelay
    /\ reconnectTimer = FALSE
    /\ heartbeat = Nil
    /\ pongAge = 0
    /\ pinged = FALSE
    /\ silent = FALSE
    /\ told = "disconnected"

-----------------------------------------------------------------------------
\* doConnect: give up the current socket, start another.
DoConnect ==
    \E w \in Sockets :
        /\ socks[w] = "unused"
        /\ socks' = [x \in Sockets |-> IF x = w THEN "connecting"
                                       ELSE IF x = ws THEN "closing"
                                       ELSE socks[x]]
        /\ ws' = w

\* The first call of connect.
Connect ==
    /\ phase = "idle"
    /\ phase' = "running"
    /\ DoConnect
    /\ UNCHANGED link

\* scheduleReconnect.
ScheduleReconnect ==
    IF phase = "running"
    THEN /\ reconnectTimer' = TRUE
         /\ reconnectDelay' = IF reconnectDelay * 2 < MaxDelay THEN reconnectDelay * 2 ELSE MaxDelay
    ELSE UNCHANGED <<reconnectTimer, reconnectDelay>>

\* What the 'close' handler does for the current socket.
LinkLost ==
    /\ ws' = Nil
    /\ heartbeat' = Nil
    /\ told' = "disconnected"
    /\ silent' = FALSE
    /\ pinged' = FALSE
    /\ ScheduleReconnect
    /\ UNCHANGED pongAge

-----------------------------------------------------------------------------
(* Events of a socket. *)

\* Mutant of Opened: the age of the last pong is that of the previous link.
OpenedStalePong(w) ==
    /\ socks[w] = "connecting"
    /\ socks' = [socks EXCEPT ![w] = "open"]
    /\ IF ws = w
       THEN /\ reconnectDelay' = FirstDelay
            /\ heartbeat' = HeartbeatTicks
            /\ told' = "connected"
            /\ UNCHANGED <<reconnectTimer, pongAge, pinged, silent>>
       ELSE UNCHANGED link
    /\ UNCHANGED <<phase, ws>>

Opened(w) ==
    /\ socks[w] = "connecting"
    /\ socks' = [socks EXCEPT ![w] = "open"]
    /\ IF ws = w
       THEN /\ reconnectDelay' = FirstDelay
            /\ pongAge' = 0
            /\ heartbeat' = HeartbeatTicks
            /\ told' = "connected"
            /\ UNCHANGED <<reconnectTimer, pinged, silent>>
       ELSE UNCHANGED link
    /\ UNCHANGED <<phase, ws>>

\* Nobody handles the 'error' of the current socket: EventEmitter throws, and
\* the process dies with its sockets and timers.
Dies(w) == ws = w /\ ~ErrorListener

Crash ==
    /\ phase' = "crashed"
    /\ ws' = Nil
    /\ socks' = [w \in Sockets |-> "unused"]
    /\ reconnectTimer' = FALSE
    /\ heartbeat' = Nil
    /\ silent' = FALSE
    /\ told' = "disconnected"
    /\ UNCHANGED <<reconnectDelay, pongAge, pinged>>

\* Mutant of Failed: only an established link is worth a reconnection.
FailedGivesUp(w) ==
    /\ socks[w] = "connecting"
    /\ socks' = [socks EXCEPT ![w] = "unused"]
    /\ ws' = IF ws = w THEN Nil ELSE ws
    /\ UNCHANGED <<phase, link>>

\* The connection attempt fails: 'error', then 'close'.
Failed(w) ==
    /\ socks[w] = "connecting"
    /\ IF Dies(w)
       THEN Crash
       ELSE /\ socks' = [socks EXCEPT ![w] = "unused"]
            /\ IF ws = w THEN LinkLost ELSE UNCHANGED <<ws, link>>
            /\ UNCHANGED phase

\* The connection breaks: 'error'; 'close' follows.
Broken(w) ==
    /\ socks[w] = "open"
    /\ ~(ws = w /\ silent)
    /\ IF Dies(w)
       THEN Crash
       ELSE /\ socks' = [socks EXCEPT ![w] = "closing"]
            /\ UNCHANGED <<phase, ws, link>>

\* The relay closes the connection.
RelayCloses(w) ==
    /\ socks[w] = "open"
    /\ ~(ws = w /\ silent)
    /\ socks' = [socks EXCEPT ![w] = "closing"]
    /\ UNCHANGED <<phase, ws, link>>

\* 'close': of the current socket, or of one that was given up.
Closed(w) ==
    /\ socks[w] = "closing"
    /\ socks' = [socks EXCEPT ![w] = "unused"]
    /\ IF ws = w THEN LinkLost ELSE UNCHANGED <<ws, link>>
    /\ UNCHANGED phase

\* The current link dies without a word: sleep, a lost route, a dead relay.
Silenced ==
    /\ ws # Nil
    /\ socks[ws] = "open"
    /\ silent' = TRUE
    /\ UNCHANGED <<phase, ws, socks, reconnectDelay, reconnectTimer,
                   heartbeat, pongAge, pinged, told>>

Pong ==
    /\ ws # Nil
    /\ socks[ws] = "open"
    /\ ~silent
    /\ pinged
    /\ pongAge' = 0
    /\ pinged' = FALSE
    /\ UNCHANGED <<phase, ws, socks, reconnectDelay, reconnectTimer,
                   heartbeat, silent, told>>

-----------------------------------------------------------------------------
(* Timers. *)

ReconnectTimerFires ==
    /\ reconnectTimer
    /\ reconnectTimer' = FALSE
    /\ IF phase = "running" THEN DoConnect ELSE UNCHANGED <<ws, socks>>
    /\ UNCHANGED <<phase, reconnectDelay, heartbeat, pongAge, pinged, silent, told>>

\* 30 s pass.  The heartbeat that is due comes first.
Tick ==
    /\ heartbeat \notin {0, Nil}
    /\ heartbeat' = heartbeat - 1
    /\ pongAge' = IF pongAge < MaxAge THEN pongAge + 1 ELSE MaxAge
    /\ UNCHANGED <<phase, ws, socks, reconnectDelay, reconnectTimer,
                   pinged, silent, told>>

\* Mutant of Heartbeat: it never gives the link up.
HeartbeatPatient ==
    /\ heartbeat = 0
    /\ heartbeat' = HeartbeatTicks
    /\ pinged' = (pinged \/ (ws # Nil /\ socks[ws] = "open"))
    /\ UNCHANGED <<phase, ws, socks, reconnectDelay, reconnectTimer,
                   pongAge, silent, told>>

\* Mutant of Heartbeat: it drops the socket and reconnects by itself, so that
\* the 'close' that follows is that of a stale socket.
HeartbeatDrops ==
    /\ heartbeat = 0
    /\ IF socks[ws] = "open" /\ pongAge > PongTicks
       THEN /\ socks' = [socks EXCEPT ![ws] = "closing"]
            /\ ws' = Nil
            /\ heartbeat' = Nil
            /\ silent' = FALSE
            /\ ScheduleReconnect
            /\ UNCHANGED pinged
       ELSE /\ heartbeat' = HeartbeatTicks
            /\ pinged' = (pinged \/ socks[ws] = "open")
            /\ UNCHANGED <<ws, socks, reconnectTimer, reconnectDelay, silent>>
    /\ UNCHANGED <<phase, pongAge, told>>

\* Every 60 s: ping, or terminate when the last pong is older than 90 s.
Heartbeat ==
    /\ heartbeat = 0
    /\ heartbeat' = HeartbeatTicks
    /\ IF ws # Nil /\ socks[ws] = "open"
       THEN IF pongAge > PongTicks
            THEN socks' = [socks EXCEPT ![ws] = "closing"] /\ UNCHANGED pinged
            ELSE pinged' = TRUE /\ UNCHANGED socks
       ELSE UNCHANGED <<socks, pinged>>
    /\ UNCHANGED <<phase, ws, reconnectDelay, reconnectTimer,
                   pongAge, silent, told>>

\* disconnect: nothing is emitted, the socket is stale from now on.
Disconnect ==
    /\ phase = "running"
    /\ phase' = "stopped"
    /\ reconnectTimer' = FALSE
    /\ heartbeat' = Nil
    /\ socks' = [w \in Sockets |-> IF w = ws THEN "closing" ELSE socks[w]]
    /\ ws' = Nil
    /\ silent' = FALSE
    /\ pinged' = FALSE
    /\ UNCHANGED <<reconnectDelay, pongAge, told>>

-----------------------------------------------------------------------------
SocketEvent ==
    \E w \in Sockets : Opened(w) \/ Failed(w) \/ Broken(w) \/ RelayCloses(w) \/ Closed(w)

Next ==
    \/ Connect \/ Disconnect
    \/ SocketEvent \/ Silenced \/ Pong
    \/ ReconnectTimerFires \/ Tick \/ Heartbeat

Spec == Init /\ [][Next]_vars

\* Timers fire, time passes, close events come, and an attempt that is made
\* again and again succeeds once.
Fairness ==
    /\ WF_vars(ReconnectTimerFires)
    /\ WF_vars(Tick)
    /\ WF_vars(Heartbeat)
    /\ \A w \in Sockets : WF_vars(Closed(w))
    /\ SF_vars(\E w \in Sockets : ws = w /\ Opened(w))

FairSpec == Spec /\ Fairness

-----------------------------------------------------------------------------
(* Properties *)

Connected == ws # Nil /\ socks[ws] = "open"

\* There is never a second connection to the relay: a socket that is not the
\* current one is on its way out (relay-client.ts:51-60, 145-156).
OneLiveSocket ==
    \A w \in Sockets : socks[w] \in {"connecting", "open"} => ws = w

\* Timers belong to the state they are for: the reconnect timer only runs when
\* there is no socket, the heartbeat only for a link that was up, and what was
\* stopped has neither (relay-client.ts:97-104, 124-137, 145-178).
TimersBelong ==
    /\ reconnectTimer => ws = Nil /\ phase = "running"
    /\ heartbeat # Nil => ws # Nil /\ socks[ws] \in {"open", "closing"}

\* What the Bridge knows of the link.
UplinkState ==
    CASE told = "disconnected" -> "down"
      [] told = "connected" /\ Connected -> "open"
      [] OTHER -> "closing"
UplinkSteps == INSTANCE Uplink WITH uplink <- UplinkState

\* The uplink the Bridge relies on (bridge.ts:224-254): it is told of the loss
\* of a link before there is another one, and a link that began to close never
\* comes back to life.
ImplementsUplink == UplinkSteps!Spec

\* Whenever the daemon runs without a link, 'disconnected' was the last it
\* heard: the Bridge has torn its sessions down (bridge.ts:235-247).
LossIsTold ==
    phase = "running" =>
        (told = "connected" <=> ws # Nil /\ socks[ws] \in {"open", "closing"})

\* A link is given up only when a ping of it is unanswered
\* (relay-client.ts:158-171).
OnlyUnansweredDropped == [][Heartbeat /\ socks' # socks => pinged]_vars

\* A link that died without a word is given up (relay-client.ts:158-171).
SilenceEnds == silent ~> ~silent

\* The daemon finds its way back to the relay, whatever happens to the link
\* (relay-client.ts:124-137).
Reconnects == phase = "running" ~> (Connected \/ phase # "running")

\* "so a rate-limited/offline relay is retried rarely instead of hammered"
\* (relay-client.ts:127-128): a relay that cannot be reached is retried.
SurvivesOfflineRelay == phase # "crashed"

=============================================================================
