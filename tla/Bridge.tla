------------------------------- MODULE Bridge -------------------------------
(***************************************************************************)
(* The Bridge of the daemon (relay-server/src/bridge.ts): it multiplexes   *)
(* the client connections that arrive over the one relay uplink and gives  *)
(* each handshaken client a WebSocket of its own to the local ttyd.        *)
(*                                                                         *)
(* Sessions are JavaScript objects: the Map `sessions` finds the current   *)
(* one of a connId, while the event handlers and timers of a socket keep a *)
(* reference to the object they were created for.  Both are modelled, the  *)
(* Map and the object identities, because a connId may come back while     *)
(* callbacks of the session that used it before are still pending.         *)
(*                                                                         *)
(* Every action is one turn of the event loop.                             *)
(***************************************************************************)
EXTENDS Integers, Sequences

CONSTANTS
    ConnIds,        \* connection ids the relay hands out
    Sessions,       \* identities of ClientSession objects
    Sockets,        \* identities of local ttyd WebSockets (recycled once closed)
    Nil,            \* JavaScript null / undefined
    MaxFrames,      \* bound: frames each session takes in each direction
    MaxTimers,      \* bound: a client attaches again only below this many timers
    ReuseConnIds    \* may the relay give out a connId a second time?

ASSUME NilAssumption == Nil \notin ConnIds \cup Sessions \cup Sockets
ASSUME BoundAssumption == MaxFrames \in Nat /\ MaxTimers \in Nat
ASSUME ReuseAssumption == ReuseConnIds \in BOOLEAN

VARIABLES
    running,        \* Bridge.running: the relay handlers are registered
    uplink,         \* the relay WebSocket: "open", "closing" or "down"
    sessions,       \* the Map: connId -> session or Nil
    session,        \* the fields of every session object
    ws,             \* every local ttyd socket: its readyState and its session
    rx,             \* terminal frames session s decrypted from its client
    toTtyd,         \* ... and the ones it wrote to a ttyd socket
    tx,             \* output chunks session s read from its ttyd sockets
    toClient        \* ... and the ones it sent up the relay

vars == <<running, uplink, sessions, session, ws, rx, toTtyd, tx, toClient>>
history == <<rx, toTtyd, tx, toClient>>

SocketStates == {"unused", "connecting", "open", "closing"}

Session == [connId : ConnIds \cup {Nil},        \* Nil: not created yet
            key : BOOLEAN,                      \* session.key # null
            localWs : Sockets \cup {Nil},
            pendingLocalFrames : Seq(Nat),
            outFrames : Seq(Nat),
            flushScheduled : BOOLEAN,
            timers : Nat]                       \* armed 2 s reconnect timers

NewSession(c) == [connId |-> c, key |-> FALSE, localWs |-> Nil,
                  pendingLocalFrames |-> <<>>, outFrames |-> <<>>,
                  flushScheduled |-> FALSE, timers |-> 0]

UnusedSocket == [state |-> "unused", session |-> Nil]

TypeOK ==
    /\ running \in BOOLEAN
    /\ uplink \in {"open", "closing", "down"}
    /\ sessions \in [ConnIds -> Sessions \cup {Nil}]
    /\ session \in [Sessions -> Session]
    /\ ws \in [Sockets -> [state : SocketStates, session : Sessions \cup {Nil}]]
    /\ rx \in [Sessions -> Nat]
    /\ toTtyd \in [Sessions -> Seq(Nat)]
    /\ tx \in [Sessions -> Nat]
    /\ toClient \in [Sessions -> Seq(Nat)]

Init ==
    /\ running = TRUE
    /\ uplink = "down"
    /\ sessions = [c \in ConnIds |-> Nil]
    /\ session = [s \in Sessions |-> NewSession(Nil)]
    /\ ws = [w \in Sockets |-> UnusedSocket]
    /\ rx = [s \in Sessions |-> 0]
    /\ toTtyd = [s \in Sessions |-> <<>>]
    /\ tx = [s \in Sessions |-> 0]
    /\ toClient = [s \in Sessions |-> <<>>]

-----------------------------------------------------------------------------
(* Which session a callback is about. *)

Created(s) == session[s].connId # Nil

\* s is the session the Map holds for its connId.
Alive(s) == Created(s) /\ sessions[session[s].connId] = s

\* this.sessions.has(session.connId): some session holds the connId of s.
HasConnId(s) == Created(s) /\ sessions[session[s].connId] # Nil

\* The relay delivers an event to the bridge.
Delivered == running /\ uplink = "open"

\* ws.close(): readyState CLOSING until the close event.
CloseSocket(socks, w) ==
    [x \in Sockets |-> IF x = w THEN [socks[x] EXCEPT !.state = "closing"]
                                ELSE socks[x]]

-----------------------------------------------------------------------------
(* teardownSession, for every session of the set S. *)

\* Mutant of Cleared: the key of the session survives.
ClearedKeepsKey(r) == [r EXCEPT !.pendingLocalFrames = <<>>, !.outFrames = <<>>]

Cleared(r) == [r EXCEPT !.key = FALSE, !.pendingLocalFrames = <<>>,
                        !.outFrames = <<>>]

ClosedBy(S) ==
    [w \in Sockets |-> IF \E s \in S : session[s].localWs = w
                       THEN [ws[w] EXCEPT !.state = "closing"] ELSE ws[w]]

\* The session leaves the Map with its key and buffers dropped; its socket is
\* asked to close but session.localWs keeps pointing at it.
Teardown(S) ==
    /\ session' = [s \in Sessions |-> IF s \in S THEN Cleared(session[s])
                                                 ELSE session[s]]
    /\ sessions' = [c \in ConnIds |-> IF sessions[c] \in S THEN Nil ELSE sessions[c]]
    /\ ws' = ClosedBy(S)

AliveSessions == {s \in Sessions : Alive(s)}

-----------------------------------------------------------------------------
(* Events of the relay uplink. *)

\* createSession: whatever still holds the connId is torn down first.
ClientConnect(c) ==
    /\ Delivered
    /\ ReuseConnIds \/ \A s \in Sessions : session[s].connId # c
    /\ \E s \in Sessions :
          LET old == {sessions[c]} \ {Nil}
          IN  /\ ~Created(s)
              /\ session' = [t \in Sessions |->
                                IF t = s THEN NewSession(c)
                                ELSE IF t \in old THEN Cleared(session[t])
                                ELSE session[t]]
              /\ sessions' = [sessions EXCEPT ![c] = s]
              /\ ws' = ClosedBy(old)
    /\ UNCHANGED <<running, uplink, history>>

ClientOffline(c) ==
    /\ Delivered
    /\ sessions[c] # Nil
    /\ Teardown({sessions[c]})
    /\ UNCHANGED <<running, uplink, history>>

\* connectLocal: a fresh socket replaces the current one; r is session[s] as
\* the caller leaves it.
ConnectLocal(s, r) ==
    /\ running
    /\ \E w \in Sockets :
          /\ ws[w].state = "unused"
          /\ ws' = [CloseSocket(ws, session[s].localWs)
                       EXCEPT ![w] = [state |-> "connecting", session |-> s]]
          /\ session' = [session EXCEPT ![s] = [r EXCEPT !.localWs = w]]

\* handleHandshake for a phone, or for a mesh peer that is let in.  A client
\* may handshake again on the same connection.
Handshake(c) ==
    LET s == sessions[c]
    IN  /\ Delivered
        /\ s # Nil
        /\ session[s].timers < MaxTimers
        /\ ConnectLocal(s, [session[s] EXCEPT !.key = TRUE])
        /\ UNCHANGED <<running, uplink, sessions, history>>

\* handleHandshake for a mesh peer that is evicted or asked to retry.
HandshakeRejected(c) ==
    /\ Delivered
    /\ sessions[c] # Nil
    /\ Teardown({sessions[c]})
    /\ UNCHANGED <<running, uplink, history>>

\* handleTerminalAttach: the phone picked another terminal.
TerminalAttach(c) ==
    LET s == sessions[c]
    IN  /\ Delivered
        /\ s # Nil
        /\ session[s].key
        /\ session[s].timers < MaxTimers
        /\ ConnectLocal(s, session[s])
        /\ UNCHANGED <<running, uplink, sessions, history>>

\* handleData + forwardToTtyd: a terminal frame is written, queued while the
\* socket connects, or dropped.
ForwardToTtyd(s) ==
    LET w == session[s].localWs
        n == rx[s] + 1
    IN  CASE w # Nil /\ ws[w].state = "open" ->
               /\ toTtyd' = [toTtyd EXCEPT ![s] = Append(@, n)]
               /\ UNCHANGED session
          [] w # Nil /\ ws[w].state = "connecting" ->
               /\ session' = [session EXCEPT ![s].pendingLocalFrames = Append(@, n)]
               /\ UNCHANGED toTtyd
          [] OTHER -> UNCHANGED <<session, toTtyd>>

TerminalData(c) ==
    LET s == sessions[c]
    IN  /\ Delivered
        /\ s # Nil
        /\ session[s].key
        /\ rx[s] < MaxFrames
        /\ rx' = [rx EXCEPT ![s] = @ + 1]
        /\ ForwardToTtyd(s)
        /\ UNCHANGED <<running, uplink, sessions, ws, tx, toClient>>

UplinkOpen ==
    /\ uplink = "down"
    /\ uplink' = "open"
    /\ UNCHANGED <<running, sessions, session, ws, history>>

\* The relay socket started to close: relay.send drops, no event comes in.
UplinkClosing ==
    /\ uplink = "open"
    /\ uplink' = "closing"
    /\ UNCHANGED <<running, sessions, session, ws, history>>

\* 'disconnected' -> teardownAllSessions.
UplinkDown ==
    /\ uplink # "down"
    /\ uplink' = "down"
    /\ IF running THEN Teardown(AliveSessions)
                  ELSE UNCHANGED <<sessions, session, ws>>
    /\ UNCHANGED <<running, history>>

\* Bridge.stop on shutdown.
Stop ==
    /\ running
    /\ running' = FALSE
    /\ Teardown(AliveSessions)
    /\ UNCHANGED <<uplink, history>>

-----------------------------------------------------------------------------
(* Events of the local ttyd sockets, of the timers and of setImmediate. *)

\* Mutant of LocalOpen: the queue is written but not emptied.
LocalOpenKeepsPending(w) ==
    LET s == ws[w].session
    IN  /\ ws[w].state = "connecting"
        /\ ws' = [ws EXCEPT ![w].state = "open"]
        /\ toTtyd' = [toTtyd EXCEPT ![s] = @ \o session[s].pendingLocalFrames]
        /\ UNCHANGED <<running, uplink, sessions, session, rx, tx, toClient>>

\* The socket connects: everything queued while it was connecting goes out.
LocalOpen(w) ==
    LET s == ws[w].session
    IN  /\ ws[w].state = "connecting"
        /\ ws' = [ws EXCEPT ![w].state = "open"]
        /\ IF session[s].localWs = w
           THEN /\ toTtyd' = [toTtyd EXCEPT ![s] = @ \o session[s].pendingLocalFrames]
                /\ session' = [session EXCEPT ![s].pendingLocalFrames = <<>>]
           ELSE UNCHANGED <<toTtyd, session>>
        /\ UNCHANGED <<running, uplink, sessions, rx, tx, toClient>>

\* ttyd hangs up.
LocalClosing(w) ==
    /\ ws[w].state = "open"
    /\ ws' = [ws EXCEPT ![w].state = "closing"]
    /\ UNCHANGED <<running, uplink, sessions, session, history>>

\* Mutant of LocalClosed: no reconnect timer is armed.
LocalClosedForgets(w) ==
    LET s == ws[w].session
    IN  /\ ws[w].state \in {"connecting", "closing"}
        /\ ws' = [ws EXCEPT ![w] = UnusedSocket]
        /\ session' = IF session[s].localWs # w THEN session
                      ELSE [session EXCEPT ![s].localWs = Nil]
        /\ UNCHANGED <<running, uplink, sessions, history>>

\* 'close': also the end of a connection attempt ttyd refused.  A reconnect
\* timer is armed while the Map has an entry for the connId of the session.
LocalClosed(w) ==
    LET s == ws[w].session
    IN  /\ ws[w].state \in {"connecting", "closing"}
        /\ ws' = [ws EXCEPT ![w] = UnusedSocket]
        /\ session' = IF session[s].localWs # w THEN session
                      ELSE [session EXCEPT ![s].localWs = Nil,
                                           ![s].timers = IF HasConnId(s) THEN @ + 1 ELSE @]
        /\ UNCHANGED <<running, uplink, sessions, history>>

\* The reconnect timer of session s fires.
TimerFires(s) ==
    LET r == [session[s] EXCEPT !.timers = @ - 1]
    IN  /\ session[s].timers > 0
        /\ IF running /\ HasConnId(s) /\ session[s].localWs = Nil
           THEN ConnectLocal(s, r)
           ELSE /\ session' = [session EXCEPT ![s] = r]
                /\ UNCHANGED ws
        /\ UNCHANGED <<running, uplink, sessions, history>>

\* A ttyd message: buffered for the flush of this event-loop turn.
LocalMessage(w) ==
    LET s == ws[w].session
    IN  /\ ws[w].state \in {"open", "closing"}
        /\ session[s].localWs = w
        /\ session[s].key
        /\ tx[s] < MaxFrames
        /\ tx' = [tx EXCEPT ![s] = @ + 1]
        /\ session' = [session EXCEPT ![s].outFrames = Append(@, tx[s] + 1),
                                      ![s].flushScheduled = TRUE]
        /\ UNCHANGED <<running, uplink, sessions, ws, rx, toTtyd, toClient>>

\* Mutant of FlushOutput: the batch is sent but not reset.
FlushKeepsBatch(s) ==
    /\ session[s].flushScheduled
    /\ session' = [session EXCEPT ![s].flushScheduled = FALSE]
    /\ toClient' = [toClient EXCEPT ![s] = @ \o session[s].outFrames]
    /\ UNCHANGED <<running, uplink, sessions, ws, rx, toTtyd, tx>>

\* flushOutput: RelayClient.send drops unless the uplink is open.
FlushOutput(s) ==
    /\ session[s].flushScheduled
    /\ session' = [session EXCEPT ![s].flushScheduled = FALSE, ![s].outFrames = <<>>]
    /\ toClient' = IF session[s].key /\ uplink = "open"
                   THEN [toClient EXCEPT ![s] = @ \o session[s].outFrames]
                   ELSE toClient
    /\ UNCHANGED <<running, uplink, sessions, ws, rx, toTtyd, tx>>

-----------------------------------------------------------------------------
RelayEvent ==
    \/ \E c \in ConnIds : \/ ClientConnect(c)
                          \/ ClientOffline(c)
                          \/ Handshake(c)
                          \/ HandshakeRejected(c)
                          \/ TerminalAttach(c)
                          \/ TerminalData(c)
    \/ UplinkOpen
    \/ UplinkClosing
    \/ UplinkDown

LocalEvent ==
    \/ \E w \in Sockets : \/ LocalOpen(w)
                          \/ LocalClosing(w)
                          \/ LocalClosed(w)
                          \/ LocalMessage(w)
    \/ \E s \in Sessions : \/ TimerFires(s)
                           \/ FlushOutput(s)

Next == RelayEvent \/ LocalEvent \/ Stop

Spec == Init /\ [][Next]_vars

\* Fairness: the event loop runs what is due.  A close event and a
\* setImmediate callback stay due until they run; a due timer can in the model
\* be held up by the bound on Sockets alone; and ttyd, which the daemon
\* restarts when it exits, does not refuse the same session for ever.
Fairness ==
    /\ \A w \in Sockets : WF_vars(ws[w].state = "closing" /\ LocalClosed(w))
    /\ \A s \in Sessions :
          /\ SF_vars(TimerFires(s))
          /\ WF_vars(FlushOutput(s))
          /\ SF_vars(\E w \in Sockets : ws[w].session = s /\ LocalOpen(w))

FairSpec == Spec /\ Fairness

-----------------------------------------------------------------------------
(* Properties *)

LiveSocket(w) == ws[w].state \in {"connecting", "open"}

\* A ttyd connection that is up, or coming up, is the current one of its
\* session: re-handshakes, re-attaches and reconnect timers never leave a
\* second one behind (bridge.ts:593-643).
OneSocketPerSession ==
    \A w \in Sockets : LiveSocket(w) => session[ws[w].session].localWs = w

\* No ttyd connection outlives its session: each one kept alive holds a tmux
\* client and wakes the CPU (bridge.ts:235-240).  It holds as long as the relay
\* does not give a connId out again.
NoOrphanTtyd ==
    \A w \in Sockets : LiveSocket(w) => Alive(ws[w].session)

\* A session that left the Map writes nothing more, neither keystrokes to a
\* terminal nor output to a client, whatever callbacks of it are still to run
\* and whoever uses its connId now (bridge.ts:670-681).
DeadSessionsAreMute ==
    [][\A s \in Sessions :
          (toTtyd'[s] # toTtyd[s] \/ toClient'[s] # toClient[s]) => Alive(s)]_vars

\* Keystrokes reach the terminal in the order typed and at most once, across
\* queueing, reconnects and re-attaches (bridge.ts:303-311, 614-619).
Input == INSTANCE LossyFifo WITH Chans <- Sessions, sent <- rx, got <- toTtyd
InputInOrder == Input!Spec

\* Terminal output reaches the client in the order read and at most once,
\* across batching and socket changes (bridge.ts:621-632, 657-668).
Output == INSTANCE LossyFifo WITH Chans <- Sessions, sent <- tx, got <- toClient
OutputInOrder == Output!Spec

\* A handshaken client gets an open terminal sooner or later, however often
\* ttyd drops it, unless the client leaves (bridge.ts:634-643).
TtydAttached ==
    \A s \in Sessions :
        (Alive(s) /\ session[s].key)
            ~> (~Alive(s) \/ (session[s].localWs # Nil
                              /\ ws[session[s].localWs].state = "open"))

\* What a session held is given back for good once it is gone: no socket, no
\* timer, no armed flush (bridge.ts:657-681).
SessionReleased ==
    \A s \in Sessions :
        (Created(s) /\ ~Alive(s))
            ~> [](/\ \A w \in Sockets : ws[w].session # s
                  /\ session[s].timers = 0
                  /\ ~session[s].flushScheduled)
-----------------------------------------------------------------------------
(* The inductive invariant behind the safety properties. *)

\* The Map files a session under its own connId.
MapKeyed == \A c \in ConnIds : sessions[c] # Nil => session[sessions[c]].connId = c

\* session.localWs is a socket in use, made for that session.
CurrentSocketUsed ==
    \A s \in Sessions : session[s].localWs # Nil =>
        /\ ws[session[s].localWs].session = s
        /\ ws[session[s].localWs].state # "unused"

\* A socket in use belongs to a session that was created.
SocketOwned ==
    \A w \in Sockets : ws[w].state # "unused" =>
        ws[w].session \in Sessions /\ Created(ws[w].session)

\* A session that is not in the Map has no key and nothing buffered.
GoneIsCleared ==
    \A s \in Sessions : ~Alive(s) =>
        /\ ~session[s].key
        /\ session[s].pendingLocalFrames = <<>>
        /\ session[s].outFrames = <<>>

\* Sockets, sessions and the Map agree about one another (bridge.ts:256-260,
\* 593-653, 670-681).
BridgeInv ==
    /\ MapKeyed
    /\ CurrentSocketUsed
    /\ SocketOwned
    /\ OneSocketPerSession
    /\ GoneIsCleared
=============================================================================
