---------------------------- MODULE BridgeProofs ----------------------------
(***************************************************************************)
(* Theorems about Bridge, for every set of connection ids, sessions and    *)
(* sockets and every value of the bounds, and how it fits the link to the  *)
(* relay.                                                                  *)
(***************************************************************************)
EXTENDS Bridge, TLAPS

(***************************************************************************)
(* Types                                                                   *)
(***************************************************************************)

\* The empty buffer is a buffer.
LEMMA EmptyBuffer == <<>> \in Seq(Nat)
OBVIOUS

\* What the handlers do to a session object keeps it one.
LEMMA NewSessionType == \A c \in ConnIds \cup {Nil} : NewSession(c) \in Session
BY NilAssumption, EmptyBuffer DEF NewSession, Session

LEMMA ClearedType == \A r \in Session : Cleared(r) \in Session
BY EmptyBuffer DEF Cleared, Session

LEMMA FieldTypes ==
    ASSUME NEW r \in Session
    PROVE  /\ [r EXCEPT !.key = TRUE] \in Session
           /\ [r EXCEPT !.localWs = Nil] \in Session
           /\ [r EXCEPT !.pendingLocalFrames = <<>>] \in Session
           /\ [r EXCEPT !.flushScheduled = FALSE, !.outFrames = <<>>] \in Session
           /\ r.timers > 0 => [r EXCEPT !.timers = r.timers - 1] \in Session
           /\ [r EXCEPT !.localWs = Nil, !.timers = r.timers + 1] \in Session
           /\ [r EXCEPT !.localWs = Nil, !.timers = r.timers] \in Session
<1>1. [r EXCEPT !.key = TRUE] \in Session
  BY DEF Session
<1>2. [r EXCEPT !.localWs = Nil] \in Session
  BY DEF Session
<1>3. [r EXCEPT !.pendingLocalFrames = <<>>] \in Session
  BY EmptyBuffer DEF Session
<1>4. [r EXCEPT !.flushScheduled = FALSE, !.outFrames = <<>>] \in Session
  BY EmptyBuffer DEF Session
<1>5. ASSUME r.timers > 0 PROVE [r EXCEPT !.timers = r.timers - 1] \in Session
  <2>1. r.timers - 1 \in Nat
    BY <1>5 DEF Session
  <2>2. \A n \in Nat : [r EXCEPT !.timers = n] \in Session
    BY DEF Session
  <2> QED
    BY <2>1, <2>2
<1>6. [r EXCEPT !.localWs = Nil, !.timers = r.timers + 1] \in Session
  <2>1. r.timers + 1 \in Nat
    BY DEF Session
  <2>2. \A n \in Nat : [r EXCEPT !.localWs = Nil, !.timers = n] \in Session
    BY DEF Session
  <2> QED
    BY <2>1, <2>2
<1>7. [r EXCEPT !.localWs = Nil, !.timers = r.timers] \in Session
  BY DEF Session
<1> QED
  BY <1>1, <1>2, <1>3, <1>4, <1>5, <1>6, <1>7

LEMMA BufferTypes ==
    ASSUME NEW r \in Session, NEW n \in Nat
    PROVE  /\ [r EXCEPT !.pendingLocalFrames = Append(@, n)] \in Session
           /\ [r EXCEPT !.outFrames = Append(@, n), !.flushScheduled = TRUE] \in Session
<1>1. Append(r.pendingLocalFrames, n) \in Seq(Nat) /\ Append(r.outFrames, n) \in Seq(Nat)
  BY DEF Session
<1> QED
  BY <1>1 DEF Session

\* Closing the sockets of a set of sessions leaves well-formed sockets.
LEMMA ClosedByType ==
    ASSUME TypeOK, NEW S
    PROVE  ClosedBy(S) \in [Sockets -> [state : SocketStates,
                                        session : Sessions \cup {Nil}]]
BY DEF TypeOK, ClosedBy, SocketStates

LEMMA TeardownType ==
    ASSUME TypeOK, NEW S, Teardown(S)
    PROVE  /\ session' \in [Sessions -> Session]
           /\ sessions' \in [ConnIds -> Sessions \cup {Nil}]
           /\ ws' \in [Sockets -> [state : SocketStates,
                                   session : Sessions \cup {Nil}]]
BY ClosedByType, ClearedType DEF TypeOK, Teardown

LEMMA ConnectLocalType ==
    ASSUME TypeOK, NEW s \in Sessions, NEW r \in Session, ConnectLocal(s, r)
    PROVE  /\ session' \in [Sessions -> Session]
           /\ ws' \in [Sockets -> [state : SocketStates,
                                   session : Sessions \cup {Nil}]]
<1>1. PICK w \in Sockets :
          /\ ws' = [CloseSocket(ws, session[s].localWs)
                       EXCEPT ![w] = [state |-> "connecting", session |-> s]]
          /\ session' = [session EXCEPT ![s] = [r EXCEPT !.localWs = w]]
  BY DEF ConnectLocal
<1>2. [r EXCEPT !.localWs = w] \in Session
  BY DEF Session
<1>3. CloseSocket(ws, session[s].localWs)
          \in [Sockets -> [state : SocketStates, session : Sessions \cup {Nil}]]
  BY DEF TypeOK, CloseSocket, SocketStates
<1> QED
  BY <1>1, <1>2, <1>3 DEF TypeOK, SocketStates

\* Every step keeps the types.
LEMMA TypeStep == TypeOK /\ [Next]_vars => TypeOK'
<1> SUFFICES ASSUME TypeOK, [Next]_vars PROVE TypeOK'
  OBVIOUS
<1> USE NilAssumption, BoundAssumption
<1>1. ASSUME NEW c \in ConnIds, ClientConnect(c) PROVE TypeOK'
  <2>1. PICK s \in Sessions :
          LET old == {sessions[c]} \ {Nil}
          IN  /\ session' = [t \in Sessions |->
                                IF t = s THEN NewSession(c)
                                ELSE IF t \in old THEN Cleared(session[t])
                                ELSE session[t]]
              /\ sessions' = [sessions EXCEPT ![c] = s]
              /\ ws' = ClosedBy(old)
    BY <1>1 DEF ClientConnect
  <2>2. session' \in [Sessions -> Session]
    BY <2>1, NewSessionType, ClearedType DEF TypeOK
  <2>3. sessions' \in [ConnIds -> Sessions \cup {Nil}]
    BY <2>1 DEF TypeOK
  <2>4. ws' \in [Sockets -> [state : SocketStates, session : Sessions \cup {Nil}]]
    BY <2>1, ClosedByType
  <2> QED
    BY <1>1, <2>2, <2>3, <2>4 DEF ClientConnect, history, TypeOK
<1>2. ASSUME NEW c \in ConnIds, ClientOffline(c) PROVE TypeOK'
  BY <1>2, TeardownType DEF ClientOffline, history, TypeOK
<1>3. ASSUME NEW c \in ConnIds, Handshake(c) PROVE TypeOK'
  <2>1. sessions[c] \in Sessions
    BY <1>3 DEF Handshake, TypeOK
  <2>2. [session[sessions[c]] EXCEPT !.key = TRUE] \in Session
    BY <2>1, FieldTypes DEF TypeOK
  <2> QED
    BY <1>3, <2>1, <2>2, ConnectLocalType DEF Handshake, history, TypeOK
<1>4. ASSUME NEW c \in ConnIds, HandshakeRejected(c) PROVE TypeOK'
  BY <1>4, TeardownType DEF HandshakeRejected, history, TypeOK
<1>5. ASSUME NEW c \in ConnIds, TerminalAttach(c) PROVE TypeOK'
  <2>1. sessions[c] \in Sessions
    BY <1>5 DEF TerminalAttach, TypeOK
  <2>2. session[sessions[c]] \in Session
    BY <2>1 DEF TypeOK
  <2> QED
    BY <1>5, <2>1, <2>2, ConnectLocalType DEF TerminalAttach, history, TypeOK
<1>6. ASSUME NEW c \in ConnIds, TerminalData(c) PROVE TypeOK'
  <2>1. sessions[c] \in Sessions
    BY <1>6 DEF TerminalData, TypeOK
  <2>2. rx' \in [Sessions -> Nat] /\ rx[sessions[c]] + 1 \in Nat
    BY <1>6, <2>1 DEF TerminalData, TypeOK
  <2> DEFINE s == sessions[c]
             n == rx[s] + 1
  <2>3. toTtyd' \in [Sessions -> Seq(Nat)] /\ session' \in [Sessions -> Session]
    <3>1. CASE toTtyd' = [toTtyd EXCEPT ![s] = Append(@, n)] /\ session' = session
      BY <2>1, <2>2, <3>1 DEF TypeOK
    <3>2. CASE /\ session' = [session EXCEPT ![s].pendingLocalFrames = Append(@, n)]
               /\ toTtyd' = toTtyd
      BY <2>1, <2>2, <3>2, BufferTypes DEF TypeOK
    <3>3. CASE session' = session /\ toTtyd' = toTtyd
      BY <3>3 DEF TypeOK
    <3> QED
      BY <1>6, <3>1, <3>2, <3>3 DEF TerminalData, ForwardToTtyd
  <2> QED
    BY <1>6, <2>2, <2>3 DEF TerminalData, TypeOK
<1>7. CASE UplinkOpen
  BY <1>7 DEF UplinkOpen, history, TypeOK
<1>8. CASE UplinkClosing
  BY <1>8 DEF UplinkClosing, history, TypeOK
<1>9. CASE UplinkDown
  BY <1>9, TeardownType DEF UplinkDown, history, TypeOK
<1>10. CASE Stop
  BY <1>10, TeardownType DEF Stop, history, TypeOK
<1>11. ASSUME NEW w \in Sockets, LocalOpen(w) PROVE TypeOK'
  <2> DEFINE s == ws[w].session
  <2>1. CASE UNCHANGED <<toTtyd, session>>
    BY <1>11, <2>1 DEF LocalOpen, TypeOK, SocketStates
  <2>2. CASE /\ s \in Sessions
             /\ toTtyd' = [toTtyd EXCEPT ![s] = @ \o session[s].pendingLocalFrames]
             /\ session' = [session EXCEPT ![s].pendingLocalFrames = <<>>]
    <3>1. toTtyd[s] \in Seq(Nat) /\ session[s] \in Session
      BY <2>2 DEF TypeOK
    <3>2. toTtyd[s] \o session[s].pendingLocalFrames \in Seq(Nat)
      BY <3>1 DEF Session
    <3>3. toTtyd' \in [Sessions -> Seq(Nat)]
      BY <2>2, <3>2 DEF TypeOK
    <3>4. [session[s] EXCEPT !.pendingLocalFrames = <<>>] \in Session
      BY <3>1, FieldTypes
    <3>5. session' \in [Sessions -> Session]
      BY <2>2, <3>4 DEF TypeOK
    <3> QED
      BY <1>11, <3>3, <3>5 DEF LocalOpen, TypeOK, SocketStates
  <2>3. CASE /\ s \notin Sessions
             /\ toTtyd' = [toTtyd EXCEPT ![s] = @ \o session[s].pendingLocalFrames]
             /\ session' = [session EXCEPT ![s].pendingLocalFrames = <<>>]
    <3>1. toTtyd' \in [Sessions -> Seq(Nat)]
      BY <2>3 DEF TypeOK
    <3>2. session' \in [Sessions -> Session]
      BY <2>3 DEF TypeOK
    <3> QED
      BY <1>11, <3>1, <3>2 DEF LocalOpen, TypeOK, SocketStates
  <2> QED
    BY <1>11, <2>1, <2>2, <2>3 DEF LocalOpen
<1>12. ASSUME NEW w \in Sockets, LocalClosing(w) PROVE TypeOK'
  BY <1>12 DEF LocalClosing, history, TypeOK, SocketStates
<1>13. ASSUME NEW w \in Sockets, LocalClosed(w) PROVE TypeOK'
  <2>1. session' \in [Sessions -> Session]
    BY <1>13, FieldTypes DEF LocalClosed, TypeOK
  <2> QED
    BY <1>13, <2>1 DEF LocalClosed, history, TypeOK, SocketStates, UnusedSocket
<1>14. ASSUME NEW w \in Sockets, LocalMessage(w) PROVE TypeOK'
  <2> DEFINE s == ws[w].session
  <2>1. CASE s \in Sessions
    <3>1. tx[s] + 1 \in Nat /\ tx' \in [Sessions -> Nat]
      BY <1>14, <2>1 DEF LocalMessage, TypeOK
    <3>2. session' \in [Sessions -> Session]
      BY <1>14, <2>1, <3>1, BufferTypes DEF LocalMessage, TypeOK
    <3> QED
      BY <1>14, <3>1, <3>2 DEF LocalMessage, TypeOK
  <2>2. CASE s \notin Sessions
    BY <1>14, <2>2 DEF LocalMessage, TypeOK
  <2> QED
    BY <2>1, <2>2
<1>15. ASSUME NEW s \in Sessions, TimerFires(s) PROVE TypeOK'
  <2> DEFINE r == [session[s] EXCEPT !.timers = @ - 1]
  <2>1. r \in Session
    BY <1>15, FieldTypes DEF TimerFires, TypeOK
  <2>2. CASE ConnectLocal(s, r)
    BY <1>15, <2>1, <2>2, ConnectLocalType DEF TimerFires, history, TypeOK
  <2>3. CASE session' = [session EXCEPT ![s] = r] /\ UNCHANGED ws
    <3>1. session' \in [Sessions -> Session]
      BY <2>1, <2>3 DEF TypeOK
    <3> QED
      BY <1>15, <2>3, <3>1 DEF TimerFires, history, TypeOK
  <2> QED
    BY <1>15, <2>2, <2>3 DEF TimerFires
<1>16. ASSUME NEW s \in Sessions, FlushOutput(s) PROVE TypeOK'
  <2>1. session' \in [Sessions -> Session]
    BY <1>16, FieldTypes DEF FlushOutput, TypeOK
  <2>2. toClient[s] \o session[s].outFrames \in Seq(Nat)
    BY DEF TypeOK, Session
  <2> QED
    BY <1>16, <2>1, <2>2 DEF FlushOutput, TypeOK
<1>17. CASE UNCHANGED vars
  BY <1>17 DEF vars, TypeOK
<1> QED
  BY <1>1, <1>2, <1>3, <1>4, <1>5, <1>6, <1>7, <1>8, <1>9, <1>10, <1>11, <1>12,
     <1>13, <1>14, <1>15, <1>16, <1>17
  DEF Next, RelayEvent, LocalEvent

\* Every reachable state of the bridge is well-formed.
THEOREM TypeCorrect == Spec => []TypeOK
<1>1. Init => TypeOK
  BY NilAssumption DEF Init, TypeOK, NewSession, Session, UnusedSocket, SocketStates
<1> QED
  BY <1>1, TypeStep, PTL DEF Spec
(***************************************************************************)
(* The inductive invariant                                                 *)
(***************************************************************************)

\* What a teardown of the sessions S does to each session, socket and entry.
LEMMA TeardownFacts ==
    ASSUME TypeOK, NEW S, Teardown(S)
    PROVE  /\ \A s \in Sessions :
                 /\ session'[s].connId = session[s].connId
                 /\ session'[s].localWs = session[s].localWs
                 /\ s \notin S => session'[s] = session[s]
                 /\ s \in S => /\ ~session'[s].key
                               /\ session'[s].pendingLocalFrames = <<>>
                               /\ session'[s].outFrames = <<>>
           /\ \A c \in ConnIds :
                 sessions'[c] = IF sessions[c] \in S THEN Nil ELSE sessions[c]
           /\ \A w \in Sockets :
                 /\ ws'[w].session = ws[w].session
                 /\ ws'[w].state = IF \E s \in S : session[s].localWs = w
                                   THEN "closing" ELSE ws[w].state
<1>1. \A s \in Sessions : session[s] \in Session
  BY DEF TypeOK
<1>2. \A s \in Sessions : session'[s] = IF s \in S THEN Cleared(session[s]) ELSE session[s]
  BY DEF Teardown
<1>3. \A r \in Session : /\ Cleared(r).connId = r.connId
                         /\ Cleared(r).localWs = r.localWs
                         /\ Cleared(r).key = FALSE
                         /\ Cleared(r).pendingLocalFrames = <<>>
                         /\ Cleared(r).outFrames = <<>>
  BY DEF Cleared, Session
<1>4. \A w \in Sockets :
          ws'[w] = IF \E s \in S : session[s].localWs = w
                   THEN [ws[w] EXCEPT !.state = "closing"] ELSE ws[w]
  BY DEF Teardown, ClosedBy
<1>5. \A w \in Sockets : ws[w] \in [state : SocketStates, session : Sessions \cup {Nil}]
  BY DEF TypeOK
<1>6. \A s \in Sessions :
          /\ session'[s].connId = session[s].connId
          /\ session'[s].localWs = session[s].localWs
          /\ s \notin S => session'[s] = session[s]
          /\ s \in S => /\ ~session'[s].key
                        /\ session'[s].pendingLocalFrames = <<>>
                        /\ session'[s].outFrames = <<>>
  BY <1>1, <1>2, <1>3
<1>7. \A w \in Sockets :
          /\ ws'[w].session = ws[w].session
          /\ ws'[w].state = IF \E s \in S : session[s].localWs = w
                            THEN "closing" ELSE ws[w].state
  BY <1>4, <1>5
<1> QED
  BY <1>6, <1>7 DEF Teardown

\* A teardown of sessions of the Map keeps the invariant.
LEMMA TeardownInv ==
    ASSUME TypeOK, BridgeInv, NEW S \in SUBSET Sessions, Teardown(S)
    PROVE  BridgeInv'
<1> USE NilAssumption
<1>1. MapKeyed'
  BY TeardownFacts DEF BridgeInv, MapKeyed, TypeOK
<1>2. CurrentSocketUsed'
  <2> SUFFICES ASSUME NEW s \in Sessions, session'[s].localWs # Nil
               PROVE  /\ ws'[session'[s].localWs].session = s
                      /\ ws'[session'[s].localWs].state # "unused"
    BY DEF CurrentSocketUsed
  <2>1. session'[s].localWs = session[s].localWs /\ session[s].localWs \in Sockets
    BY TeardownFacts DEF TypeOK, Session
  <2> QED
    BY <2>1, TeardownFacts DEF BridgeInv, CurrentSocketUsed
<1>3. SocketOwned'
  <2> SUFFICES ASSUME NEW w \in Sockets, ws'[w].state # "unused"
               PROVE  /\ ws'[w].session \in Sessions
                      /\ session'[ws'[w].session].connId # Nil
    BY DEF SocketOwned, Created
  <2>1. ws'[w].session = ws[w].session
    BY TeardownFacts
  <2>2. ws[w].state # "unused"
    BY TeardownFacts DEF BridgeInv, CurrentSocketUsed
  <2>3. ws[w].session \in Sessions /\ session[ws[w].session].connId # Nil
    BY <2>2 DEF BridgeInv, SocketOwned, Created
  <2> QED
    BY <2>1, <2>3, TeardownFacts
<1>4. OneSocketPerSession'
  <2> SUFFICES ASSUME NEW w \in Sockets, LiveSocket(w)'
               PROVE  session'[ws'[w].session].localWs = w
    BY DEF OneSocketPerSession
  <2>1. LiveSocket(w)
    BY TeardownFacts DEF LiveSocket
  <2>2. ws[w].session \in Sessions /\ session[ws[w].session].localWs = w
    BY <2>1 DEF BridgeInv, OneSocketPerSession, SocketOwned, LiveSocket
  <2> QED
    BY <2>2, TeardownFacts
<1>5. GoneIsCleared'
  <2> SUFFICES ASSUME NEW s \in Sessions, ~Alive(s)'
               PROVE  /\ ~session'[s].key
                      /\ session'[s].pendingLocalFrames = <<>>
                      /\ session'[s].outFrames = <<>>
    BY DEF GoneIsCleared
  <2>1. CASE s \in S
    BY <2>1, TeardownFacts
  <2>2. CASE s \notin S
    <3>1. session'[s] = session[s] /\ session[s].connId \in ConnIds \cup {Nil}
      BY <2>2, TeardownFacts DEF TypeOK, Session
    <3>2. ~Alive(s)
      BY <2>2, <3>1, TeardownFacts DEF Alive, Created
    <3> QED
      BY <3>1, <3>2 DEF BridgeInv, GoneIsCleared
  <2> QED
    BY <2>1, <2>2
<1> QED
  BY <1>1, <1>2, <1>3, <1>4, <1>5 DEF BridgeInv
\* What connectLocal does: a fresh socket w becomes the current one of s, the
\* one it replaces starts to close.
LEMMA ConnectLocalFacts ==
    ASSUME TypeOK, NEW s \in Sessions, NEW r \in Session, ConnectLocal(s, r)
    PROVE  \E w \in Sockets :
              /\ ws[w].state = "unused"
              /\ ws'[w].state = "connecting"
              /\ ws'[w].session = s
              /\ \A x \in Sockets \ {w} :
                    /\ ws'[x].session = ws[x].session
                    /\ ws'[x].state = IF x = session[s].localWs THEN "closing"
                                                                ELSE ws[x].state
              /\ session'[s].localWs = w
              /\ session'[s].connId = r.connId
              /\ session'[s].key = r.key
              /\ session'[s].pendingLocalFrames = r.pendingLocalFrames
              /\ session'[s].outFrames = r.outFrames
              /\ \A t \in Sessions \ {s} : session'[t] = session[t]
<1>1. PICK w \in Sockets :
          /\ ws[w].state = "unused"
          /\ ws' = [CloseSocket(ws, session[s].localWs)
                       EXCEPT ![w] = [state |-> "connecting", session |-> s]]
          /\ session' = [session EXCEPT ![s] = [r EXCEPT !.localWs = w]]
  BY DEF ConnectLocal
<1>2. ws'[w] = [state |-> "connecting", session |-> s]
  BY <1>1 DEF CloseSocket
<1>3. \A x \in Sockets \ {w} :
          ws'[x] = IF x = session[s].localWs THEN [ws[x] EXCEPT !.state = "closing"]
                                             ELSE ws[x]
  BY <1>1 DEF CloseSocket
<1>4. \A x \in Sockets : ws[x] \in [state : SocketStates, session : Sessions \cup {Nil}]
  BY DEF TypeOK
<1>5. session'[s] = [r EXCEPT !.localWs = w]
  BY <1>1 DEF TypeOK
<1>6. /\ session'[s].localWs = w
      /\ session'[s].connId = r.connId
      /\ session'[s].key = r.key
      /\ session'[s].pendingLocalFrames = r.pendingLocalFrames
      /\ session'[s].outFrames = r.outFrames
  BY <1>5 DEF Session
<1>7. \A t \in Sessions \ {s} : session'[t] = session[t]
  BY <1>1 DEF TypeOK
<1>8. \A x \in Sockets \ {w} :
          /\ ws'[x].session = ws[x].session
          /\ ws'[x].state = IF x = session[s].localWs THEN "closing" ELSE ws[x].state
  BY <1>3, <1>4
<1> QED
  BY <1>1, <1>2, <1>6, <1>7, <1>8

\* connectLocal for a created session keeps the invariant; the caller may
\* have given a session of the Map its key.
LEMMA ConnectLocalInv ==
    ASSUME TypeOK, BridgeInv, NEW s \in Sessions, NEW r \in Session,
           ConnectLocal(s, r), UNCHANGED sessions, Created(s),
           r.connId = session[s].connId,
           r.pendingLocalFrames = session[s].pendingLocalFrames,
           r.outFrames = session[s].outFrames,
           Alive(s) \/ r.key = session[s].key
    PROVE  BridgeInv'
<1>1. PICK w \in Sockets :
          /\ ws[w].state = "unused"
          /\ ws'[w].state = "connecting"
          /\ ws'[w].session = s
          /\ \A x \in Sockets \ {w} :
                /\ ws'[x].session = ws[x].session
                /\ ws'[x].state = IF x = session[s].localWs THEN "closing"
                                                            ELSE ws[x].state
          /\ session'[s].localWs = w
          /\ session'[s].connId = session[s].connId
          /\ session'[s].key = r.key
          /\ session'[s].pendingLocalFrames = session[s].pendingLocalFrames
          /\ session'[s].outFrames = session[s].outFrames
          /\ \A t \in Sessions \ {s} : session'[t] = session[t]
  BY ConnectLocalFacts
<1>2. \A t \in Sessions : session'[t].connId = session[t].connId
  BY <1>1
<1>3. MapKeyed'
  BY <1>2 DEF BridgeInv, MapKeyed, TypeOK
<1>4. CurrentSocketUsed'
  <2> SUFFICES ASSUME NEW t \in Sessions, session'[t].localWs # Nil
               PROVE  /\ ws'[session'[t].localWs].session = t
                      /\ ws'[session'[t].localWs].state # "unused"
    BY DEF CurrentSocketUsed
  <2>1. CASE t = s
    BY <1>1, <2>1
  <2>2. CASE t # s
    <3>1. session'[t] = session[t] /\ session[t].localWs \in Sockets
      BY <1>1, <2>2 DEF TypeOK, Session
    <3>2. ws[session[t].localWs].session = t /\ ws[session[t].localWs].state # "unused"
      BY <3>1 DEF BridgeInv, CurrentSocketUsed
    <3> QED
      BY <1>1, <3>1, <3>2
  <2> QED
    BY <2>1, <2>2
<1>5. SocketOwned'
  <2> SUFFICES ASSUME NEW x \in Sockets, ws'[x].state # "unused"
               PROVE  /\ ws'[x].session \in Sessions
                      /\ session'[ws'[x].session].connId # Nil
    BY DEF SocketOwned, Created
  <2>1. CASE x = w
    BY <1>1, <2>1 DEF Created
  <2>2. CASE x # w
    <3>1. ws[x].state # "unused"
      BY <1>1, <2>2, NilAssumption DEF BridgeInv, CurrentSocketUsed
    <3>2. ws[x].session \in Sessions /\ session[ws[x].session].connId # Nil
      BY <3>1 DEF BridgeInv, SocketOwned, Created
    <3> QED
      BY <1>1, <1>2, <2>2, <3>2
  <2> QED
    BY <2>1, <2>2
<1>6. OneSocketPerSession'
  <2> SUFFICES ASSUME NEW x \in Sockets, LiveSocket(x)'
               PROVE  session'[ws'[x].session].localWs = x
    BY DEF OneSocketPerSession
  <2>1. CASE x = w
    BY <1>1, <2>1
  <2>2. CASE x # w
    <3>1. LiveSocket(x) /\ x # session[s].localWs /\ ws'[x].session = ws[x].session
      BY <1>1, <2>2 DEF LiveSocket
    <3>2. ws[x].session \in Sessions /\ session[ws[x].session].localWs = x
      BY <3>1 DEF BridgeInv, OneSocketPerSession, SocketOwned, LiveSocket
    <3> QED
      BY <1>1, <3>1, <3>2
  <2> QED
    BY <2>1, <2>2
<1>7. GoneIsCleared'
  <2> SUFFICES ASSUME NEW t \in Sessions, ~Alive(t)'
               PROVE  /\ ~session'[t].key
                      /\ session'[t].pendingLocalFrames = <<>>
                      /\ session'[t].outFrames = <<>>
    BY DEF GoneIsCleared
  <2>1. ~Alive(t)
    BY <1>2 DEF Alive, Created
  <2> QED
    BY <1>1, <2>1 DEF BridgeInv, GoneIsCleared
<1> QED
  BY <1>3, <1>4, <1>5, <1>6, <1>7 DEF BridgeInv
\* A created session on the Map is the one its connId leads to.
LEMMA MapEntryAlive ==
    ASSUME TypeOK, BridgeInv, NEW c \in ConnIds, sessions[c] # Nil
    PROVE  sessions[c] \in Sessions /\ Created(sessions[c]) /\ Alive(sessions[c])
BY NilAssumption DEF TypeOK, BridgeInv, MapKeyed, Created, Alive

\* createSession keeps the invariant.
LEMMA ClientConnectInv ==
    ASSUME TypeOK, BridgeInv, NEW c \in ConnIds, ClientConnect(c)
    PROVE  BridgeInv'
<1> DEFINE old == {sessions[c]} \ {Nil}
<1> USE NilAssumption
<1>1. PICK s \in Sessions :
          /\ ~Created(s)
          /\ session' = [t \in Sessions |->
                            IF t = s THEN NewSession(c)
                            ELSE IF t \in old THEN Cleared(session[t])
                            ELSE session[t]]
          /\ sessions' = [sessions EXCEPT ![c] = s]
          /\ ws' = ClosedBy(old)
  BY DEF ClientConnect
<1>2. session'[s] = NewSession(c)
  BY <1>1
<1>3. /\ session'[s].connId = c
      /\ session'[s].localWs = Nil
      /\ session'[s].key = FALSE
      /\ session'[s].pendingLocalFrames = <<>>
      /\ session'[s].outFrames = <<>>
  BY <1>2 DEF NewSession
<1>4. \A t \in Sessions \ {s} :
          session'[t] = IF t \in old THEN Cleared(session[t]) ELSE session[t]
  BY <1>1
<1>5. \A t \in Sessions \ {s} :
          /\ session'[t].connId = session[t].connId
          /\ session'[t].localWs = session[t].localWs
          /\ t \notin old => session'[t] = session[t]
          /\ t \in old => /\ ~session'[t].key
                          /\ session'[t].pendingLocalFrames = <<>>
                          /\ session'[t].outFrames = <<>>
  <2>1. \A t \in Sessions : session[t] \in Session
    BY DEF TypeOK
  <2>2. \A r \in Session : /\ Cleared(r).connId = r.connId
                           /\ Cleared(r).localWs = r.localWs
                           /\ Cleared(r).key = FALSE
                           /\ Cleared(r).pendingLocalFrames = <<>>
                           /\ Cleared(r).outFrames = <<>>
    BY DEF Cleared, Session
  <2> HIDE DEF old
  <2> QED
    BY <1>4, <2>1, <2>2
<1>6. \A w \in Sockets :
          /\ ws'[w].session = ws[w].session
          /\ ws'[w].state = IF \E t \in old : session[t].localWs = w
                            THEN "closing" ELSE ws[w].state
  <2>1. \A w \in Sockets :
            ws'[w] = IF \E t \in old : session[t].localWs = w
                     THEN [ws[w] EXCEPT !.state = "closing"] ELSE ws[w]
    BY <1>1 DEF ClosedBy
  <2>2. \A w \in Sockets : ws[w] \in [state : SocketStates, session : Sessions \cup {Nil}]
    BY DEF TypeOK
  <2> HIDE DEF old
  <2> QED
    BY <2>1, <2>2
<1>7. \A w \in Sockets : ws'[w].state # "unused" =>
          /\ ws[w].state # "unused"
          /\ ws[w].session \in Sessions \ {s}
          /\ session[ws[w].session].connId # Nil
  <2>1. old \subseteq Sessions
    BY DEF TypeOK
  <2>2. \A w \in Sockets : ws'[w].state # "unused" => ws[w].state # "unused"
    BY <1>6, <2>1 DEF BridgeInv, CurrentSocketUsed
  <2> QED
    BY <1>1, <2>2 DEF BridgeInv, SocketOwned, Created
<1>8. MapKeyed'
  BY <1>1, <1>3, <1>5 DEF BridgeInv, MapKeyed, TypeOK, Created
<1>9. CurrentSocketUsed'
  <2> SUFFICES ASSUME NEW t \in Sessions, session'[t].localWs # Nil
               PROVE  /\ ws'[session'[t].localWs].session = t
                      /\ ws'[session'[t].localWs].state # "unused"
    BY DEF CurrentSocketUsed
  <2>1. t # s /\ session'[t].localWs = session[t].localWs
    BY <1>3, <1>5
  <2>2. session[t].localWs \in Sockets
    BY <2>1 DEF TypeOK, Session
  <2>3. ws[session[t].localWs].session = t /\ ws[session[t].localWs].state # "unused"
    BY <2>1 DEF BridgeInv, CurrentSocketUsed
  <2> HIDE DEF old
  <2> QED
    BY <1>6, <2>1, <2>2, <2>3
<1>10. SocketOwned'
  <2> SUFFICES ASSUME NEW w \in Sockets, ws'[w].state # "unused"
               PROVE  /\ ws'[w].session \in Sessions
                      /\ session'[ws'[w].session].connId # Nil
    BY DEF SocketOwned, Created
  <2> QED
    BY <1>5, <1>6, <1>7
<1>11. OneSocketPerSession'
  <2> SUFFICES ASSUME NEW w \in Sockets, LiveSocket(w)'
               PROVE  session'[ws'[w].session].localWs = w
    BY DEF OneSocketPerSession
  <2>1. LiveSocket(w)
    BY <1>6 DEF LiveSocket
  <2>2. ws[w].session \in Sessions \ {s} /\ session[ws[w].session].localWs = w
    BY <1>7, <2>1 DEF BridgeInv, OneSocketPerSession, LiveSocket
  <2> QED
    BY <1>5, <1>6, <2>2
<1>12. GoneIsCleared'
  <2> SUFFICES ASSUME NEW t \in Sessions, ~Alive(t)'
               PROVE  /\ ~session'[t].key
                      /\ session'[t].pendingLocalFrames = <<>>
                      /\ session'[t].outFrames = <<>>
    BY DEF GoneIsCleared
  <2>1. CASE t = s \/ t \in old
    BY <1>3, <1>5, <2>1
  <2>2. CASE t # s /\ t \notin old
    <3>1. session'[t] = session[t] /\ session[t].connId \in ConnIds \cup {Nil}
      BY <1>5, <2>2 DEF TypeOK, Session
    <3>2. ~Alive(t)
      BY <1>1, <2>2, <3>1 DEF Alive, Created, TypeOK
    <3> QED
      BY <3>1, <3>2 DEF BridgeInv, GoneIsCleared
  <2> QED
    BY <2>1, <2>2
<1> QED
  BY <1>8, <1>9, <1>10, <1>11, <1>12 DEF BridgeInv
\* A handler that moves frames alone keeps the invariant: buffers and key of a
\* session change only while it is in the Map, or become empty.
LEMMA FramesInv ==
    ASSUME TypeOK, BridgeInv, UNCHANGED <<sessions, ws>>,
           \A s \in Sessions :
              /\ session'[s].connId = session[s].connId
              /\ session'[s].localWs = session[s].localWs
              /\ session'[s].key = session[s].key
              /\ \/ Alive(s)
                 \/ /\ session'[s].pendingLocalFrames \in
                           {<<>>, session[s].pendingLocalFrames}
                    /\ session'[s].outFrames \in {<<>>, session[s].outFrames}
    PROVE  BridgeInv'
<1>1. MapKeyed'
  BY DEF BridgeInv, MapKeyed, TypeOK
<1>2. CurrentSocketUsed'
  BY DEF BridgeInv, CurrentSocketUsed
<1>3. SocketOwned'
  BY DEF BridgeInv, SocketOwned, Created
<1>4. OneSocketPerSession'
  BY DEF BridgeInv, OneSocketPerSession, SocketOwned, LiveSocket
<1>5. GoneIsCleared'
  <2> SUFFICES ASSUME NEW t \in Sessions, ~Alive(t)'
               PROVE  /\ ~session'[t].key
                      /\ session'[t].pendingLocalFrames = <<>>
                      /\ session'[t].outFrames = <<>>
    BY DEF GoneIsCleared
  <2>1. ~Alive(t)
    BY DEF Alive, Created
  <2> QED
    BY <2>1 DEF BridgeInv, GoneIsCleared
<1> QED
  BY <1>1, <1>2, <1>3, <1>4, <1>5 DEF BridgeInv

\* A socket in use that does not change hands, and is not revived, keeps the
\* invariant.
LEMMA SocketInv ==
    ASSUME TypeOK, BridgeInv, UNCHANGED sessions, NEW w \in Sockets,
           ws[w].state # "unused",
           \A x \in Sockets \ {w} : ws'[x] = ws[x],
           ws'[w].session = ws[w].session,
           ws'[w].state # "unused",
           LiveSocket(w)' => LiveSocket(w),
           \A s \in Sessions :
              /\ session'[s].connId = session[s].connId
              /\ session'[s].localWs = session[s].localWs
              /\ session'[s].key = session[s].key
              /\ session'[s].pendingLocalFrames \in {<<>>, session[s].pendingLocalFrames}
              /\ session'[s].outFrames = session[s].outFrames
    PROVE  BridgeInv'
<1>1. MapKeyed'
  BY DEF BridgeInv, MapKeyed, TypeOK
<1>2. CurrentSocketUsed'
  <2> SUFFICES ASSUME NEW s \in Sessions, session[s].localWs # Nil
               PROVE  /\ ws'[session[s].localWs].session = s
                      /\ ws'[session[s].localWs].state # "unused"
    BY DEF CurrentSocketUsed
  <2>1. session[s].localWs \in Sockets
    BY DEF TypeOK, Session
  <2> QED
    BY <2>1 DEF BridgeInv, CurrentSocketUsed
<1>3. SocketOwned'
  BY DEF BridgeInv, SocketOwned, Created
<1>4. OneSocketPerSession'
  BY DEF BridgeInv, OneSocketPerSession, SocketOwned, LiveSocket
<1>5. GoneIsCleared'
  <2> SUFFICES ASSUME NEW t \in Sessions, ~Alive(t)'
               PROVE  /\ ~session'[t].key
                      /\ session'[t].pendingLocalFrames = <<>>
                      /\ session'[t].outFrames = <<>>
    BY DEF GoneIsCleared
  <2>1. ~Alive(t)
    BY DEF Alive, Created
  <2> QED
    BY <2>1 DEF BridgeInv, GoneIsCleared
<1> QED
  BY <1>1, <1>2, <1>3, <1>4, <1>5 DEF BridgeInv

\* The close of a socket keeps the invariant.
LEMMA LocalClosedInv ==
    ASSUME TypeOK, BridgeInv, NEW w \in Sockets, LocalClosed(w)
    PROVE  BridgeInv'
<1> DEFINE s == ws[w].session
<1> USE NilAssumption
<1>1. s \in Sessions /\ sessions' = sessions
  BY DEF LocalClosed, BridgeInv, SocketOwned
<1>2. ws'[w] = UnusedSocket /\ \A x \in Sockets \ {w} : ws'[x] = ws[x]
  BY DEF LocalClosed, TypeOK
<1>3. /\ \A t \in Sessions :
            /\ session'[t].connId = session[t].connId
            /\ session'[t].key = session[t].key
            /\ session'[t].pendingLocalFrames = session[t].pendingLocalFrames
            /\ session'[t].outFrames = session[t].outFrames
            /\ session'[t].localWs = IF t = s /\ session[s].localWs = w
                                     THEN Nil ELSE session[t].localWs
  <2>1. \A t \in Sessions : session[t] \in Session
    BY DEF TypeOK
  <2>2. CASE session[s].localWs # w
    BY <2>2 DEF LocalClosed
  <2>3. CASE session[s].localWs = w
    <3>1. \A t \in Sessions \ {s} : session'[t] = session[t]
      BY <1>1, <2>3 DEF LocalClosed, TypeOK
    <3>2. \E n : session'[s] = [session[s] EXCEPT !.localWs = Nil, !.timers = n]
      BY <1>1, <2>3 DEF LocalClosed, TypeOK
    <3>3. session[s] \in Session
      BY <1>1 DEF TypeOK
    <3>4. /\ session'[s].connId = session[s].connId
          /\ session'[s].key = session[s].key
          /\ session'[s].pendingLocalFrames = session[s].pendingLocalFrames
          /\ session'[s].outFrames = session[s].outFrames
          /\ session'[s].localWs = Nil
      BY <3>2, <3>3 DEF Session
    <3> QED
      BY <2>3, <3>1, <3>4
  <2> QED
    BY <2>2, <2>3
<1> HIDE DEF s
<1>4. MapKeyed'
  BY <1>1, <1>3 DEF BridgeInv, MapKeyed, TypeOK
<1>5. CurrentSocketUsed'
  <2> SUFFICES ASSUME NEW t \in Sessions, session'[t].localWs # Nil
               PROVE  /\ ws'[session'[t].localWs].session = t
                      /\ ws'[session'[t].localWs].state # "unused"
    BY DEF CurrentSocketUsed
  <2>1. session'[t].localWs = session[t].localWs /\ session[t].localWs \in Sockets
    BY <1>3 DEF TypeOK, Session
  <2>2. ws[session[t].localWs].session = t /\ ws[session[t].localWs].state # "unused"
    BY <2>1 DEF BridgeInv, CurrentSocketUsed
  <2>3. session[t].localWs # w
    BY <1>3, <2>1, <2>2 DEF s
  <2> QED
    BY <1>2, <2>1, <2>2, <2>3
<1>6. SocketOwned'
  BY <1>2, <1>3 DEF BridgeInv, SocketOwned, Created, UnusedSocket
<1>7. OneSocketPerSession'
  <2> SUFFICES ASSUME NEW x \in Sockets, LiveSocket(x)'
               PROVE  session'[ws'[x].session].localWs = x
    BY DEF OneSocketPerSession
  <2>1. x # w /\ ws'[x] = ws[x]
    BY <1>2 DEF LiveSocket, UnusedSocket
  <2>2. ws[x].session \in Sessions /\ session[ws[x].session].localWs = x
    BY <2>1 DEF BridgeInv, OneSocketPerSession, SocketOwned, LiveSocket
  <2> QED
    BY <1>3, <2>1, <2>2
<1>8. GoneIsCleared'
  <2> SUFFICES ASSUME NEW t \in Sessions, ~Alive(t)'
               PROVE  /\ ~session'[t].key
                      /\ session'[t].pendingLocalFrames = <<>>
                      /\ session'[t].outFrames = <<>>
    BY DEF GoneIsCleared
  <2>1. ~Alive(t)
    BY <1>1, <1>3 DEF Alive, Created
  <2> QED
    BY <1>3, <2>1 DEF BridgeInv, GoneIsCleared
<1> QED
  BY <1>4, <1>5, <1>6, <1>7, <1>8 DEF BridgeInv
\* Every step keeps the invariant.
LEMMA BridgeInvStep == TypeOK /\ BridgeInv /\ [Next]_vars => BridgeInv'
<1> SUFFICES ASSUME TypeOK, BridgeInv, [Next]_vars PROVE BridgeInv'
  OBVIOUS
<1> USE NilAssumption
<1>0. \A s \in Sessions : session[s] \in Session
  BY DEF TypeOK
<1>1. ASSUME NEW c \in ConnIds, ClientConnect(c) PROVE BridgeInv'
  BY <1>1, ClientConnectInv
<1>2. ASSUME NEW c \in ConnIds, ClientOffline(c) PROVE BridgeInv'
  BY <1>2, MapEntryAlive, TeardownInv DEF ClientOffline
<1>3. ASSUME NEW c \in ConnIds, Handshake(c) PROVE BridgeInv'
  <2> DEFINE s == sessions[c]
             r == [session[s] EXCEPT !.key = TRUE]
  <2>1. s \in Sessions /\ Created(s) /\ Alive(s)
    BY <1>3, MapEntryAlive DEF Handshake
  <2>2. /\ r \in Session
        /\ r.connId = session[s].connId
        /\ r.pendingLocalFrames = session[s].pendingLocalFrames
        /\ r.outFrames = session[s].outFrames
    BY <1>0, <2>1 DEF Session
  <2>3. ConnectLocal(s, r) /\ UNCHANGED sessions
    BY <1>3 DEF Handshake
  <2> QED
    BY <2>1, <2>2, <2>3, ConnectLocalInv
<1>4. ASSUME NEW c \in ConnIds, HandshakeRejected(c) PROVE BridgeInv'
  BY <1>4, MapEntryAlive, TeardownInv DEF HandshakeRejected
<1>5. ASSUME NEW c \in ConnIds, TerminalAttach(c) PROVE BridgeInv'
  <2> DEFINE s == sessions[c]
  <2>1. s \in Sessions /\ Created(s) /\ Alive(s)
    BY <1>5, MapEntryAlive DEF TerminalAttach
  <2>2. ConnectLocal(s, session[s]) /\ UNCHANGED sessions
    BY <1>5 DEF TerminalAttach
  <2> QED
    BY <1>0, <2>1, <2>2, ConnectLocalInv
<1>6. ASSUME NEW c \in ConnIds, TerminalData(c) PROVE BridgeInv'
  <2> DEFINE s == sessions[c]
             n == rx[s] + 1
  <2>1. s \in Sessions /\ Alive(s)
    BY <1>6, MapEntryAlive DEF TerminalData
  <2>2. \/ session' = session
        \/ session' = [session EXCEPT ![s].pendingLocalFrames = Append(@, n)]
    BY <1>6 DEF TerminalData, ForwardToTtyd
  <2>3. \A t \in Sessions \ {s} : session'[t] = session[t]
    BY <2>2 DEF TypeOK
  <2>4. /\ session'[s].connId = session[s].connId
        /\ session'[s].localWs = session[s].localWs
        /\ session'[s].key = session[s].key
    BY <1>0, <2>1, <2>2 DEF TypeOK, Session
  <2> HIDE DEF s
  <2>5. UNCHANGED <<sessions, ws>>
    BY <1>6 DEF TerminalData
  <2> QED
    BY <2>1, <2>3, <2>4, <2>5, FramesInv
<1>7. CASE UplinkOpen
  BY <1>7, FramesInv DEF UplinkOpen
<1>8. CASE UplinkClosing
  BY <1>8, FramesInv DEF UplinkClosing
<1>9. CASE UplinkDown
  <2>1. CASE running
    BY <1>9, <2>1, TeardownInv DEF UplinkDown, AliveSessions
  <2>2. CASE ~running
    BY <1>9, <2>2, FramesInv DEF UplinkDown
  <2> QED
    BY <2>1, <2>2
<1>10. CASE Stop
  BY <1>10, TeardownInv DEF Stop, AliveSessions
<1>11. ASSUME NEW w \in Sockets, LocalOpen(w) PROVE BridgeInv'
  <2> DEFINE s == ws[w].session
  <2>1. /\ ws[w].state = "connecting" /\ ws'[w].state = "open"
        /\ ws'[w].session = ws[w].session
        /\ \A x \in Sockets \ {w} : ws'[x] = ws[x]
        /\ UNCHANGED sessions
    BY <1>11 DEF LocalOpen, TypeOK
  <2>2. s \in Sessions
    BY <2>1 DEF BridgeInv, SocketOwned
  <2>3. \/ session' = session
        \/ session' = [session EXCEPT ![s].pendingLocalFrames = <<>>]
    BY <1>11 DEF LocalOpen
  <2>4. \A t \in Sessions \ {s} : session'[t] = session[t]
    BY <2>3 DEF TypeOK
  <2>5. /\ session'[s].connId = session[s].connId
        /\ session'[s].localWs = session[s].localWs
        /\ session'[s].key = session[s].key
        /\ session'[s].pendingLocalFrames \in {<<>>, session[s].pendingLocalFrames}
        /\ session'[s].outFrames = session[s].outFrames
    <3>1. CASE session' = session
      BY <3>1
    <3>2. CASE session' = [session EXCEPT ![s].pendingLocalFrames = <<>>]
      <4>1. session'[s] = [session[s] EXCEPT !.pendingLocalFrames = <<>>]
        BY <2>2, <3>2 DEF TypeOK
      <4>2. \A r \in Session : \A e :
                LET q == [r EXCEPT !.pendingLocalFrames = e]
                IN  /\ q.connId = r.connId
                    /\ q.localWs = r.localWs
                    /\ q.key = r.key
                    /\ q.pendingLocalFrames = e
                    /\ q.outFrames = r.outFrames
        BY DEF Session
      <4> QED
        BY <1>0, <2>2, <4>1, <4>2
    <3> QED
      BY <2>3, <3>1, <3>2
  <2> HIDE DEF s
  <2> QED
    BY <2>1, <2>2, <2>4, <2>5, SocketInv DEF LiveSocket
<1>12. ASSUME NEW w \in Sockets, LocalClosing(w) PROVE BridgeInv'
  <2>1. /\ ws[w].state = "open" /\ ws'[w].state = "closing"
        /\ ws'[w].session = ws[w].session
        /\ \A x \in Sockets \ {w} : ws'[x] = ws[x]
        /\ UNCHANGED <<sessions, session>>
    BY <1>12 DEF LocalClosing, TypeOK
  <2> QED
    BY <2>1, SocketInv DEF LiveSocket
<1>13. ASSUME NEW w \in Sockets, LocalClosed(w) PROVE BridgeInv'
  BY <1>13, LocalClosedInv
<1>14. ASSUME NEW w \in Sockets, LocalMessage(w) PROVE BridgeInv'
  <2> DEFINE s == ws[w].session
  <2>1. s \in Sessions
    BY <1>14 DEF LocalMessage, BridgeInv, SocketOwned
  <2>2. Alive(s)
    BY <1>14, <2>1 DEF LocalMessage, BridgeInv, GoneIsCleared
  <2>3. session' = [session EXCEPT ![s].outFrames = Append(@, tx[s] + 1),
                                   ![s].flushScheduled = TRUE]
    BY <1>14 DEF LocalMessage
  <2>4. \A t \in Sessions \ {s} : session'[t] = session[t]
    BY <2>3 DEF TypeOK
  <2>5. /\ session'[s].connId = session[s].connId
        /\ session'[s].localWs = session[s].localWs
        /\ session'[s].key = session[s].key
    BY <1>0, <2>1, <2>3 DEF TypeOK, Session
  <2> HIDE DEF s
  <2>6. UNCHANGED <<sessions, ws>>
    BY <1>14 DEF LocalMessage
  <2> QED
    BY <2>1, <2>2, <2>4, <2>5, <2>6, FramesInv
<1>15. ASSUME NEW s \in Sessions, TimerFires(s) PROVE BridgeInv'
  <2> DEFINE r == [session[s] EXCEPT !.timers = @ - 1]
  <2>1. r \in Session
    BY <1>15, FieldTypes DEF TimerFires, TypeOK
  <2>2. /\ r.connId = session[s].connId
        /\ r.localWs = session[s].localWs
        /\ r.key = session[s].key
        /\ r.pendingLocalFrames = session[s].pendingLocalFrames
        /\ r.outFrames = session[s].outFrames
    BY <1>0 DEF Session
  <2> HIDE DEF r
  <2>3. CASE HasConnId(s) /\ ConnectLocal(s, r)
    BY <1>15, <2>1, <2>2, <2>3, ConnectLocalInv DEF TimerFires, HasConnId
  <2>4. CASE session' = [session EXCEPT ![s] = r] /\ UNCHANGED ws
    <3>1. session'[s] = r /\ \A t \in Sessions \ {s} : session'[t] = session[t]
      BY <2>4 DEF TypeOK
    <3>2. UNCHANGED sessions
      BY <1>15 DEF TimerFires
    <3> QED
      BY <2>2, <2>4, <3>1, <3>2, FramesInv
  <2> QED
    BY <1>15, <2>3, <2>4 DEF TimerFires, r
<1>16. ASSUME NEW s \in Sessions, FlushOutput(s) PROVE BridgeInv'
  <2>1. session' = [session EXCEPT ![s].flushScheduled = FALSE, ![s].outFrames = <<>>]
    BY <1>16 DEF FlushOutput
  <2>2. \A t \in Sessions \ {s} : session'[t] = session[t]
    BY <2>1 DEF TypeOK
  <2>3. /\ session'[s].connId = session[s].connId
        /\ session'[s].localWs = session[s].localWs
        /\ session'[s].key = session[s].key
        /\ session'[s].pendingLocalFrames = session[s].pendingLocalFrames
        /\ session'[s].outFrames = <<>>
    BY <1>0, <2>1 DEF TypeOK, Session
  <2>4. UNCHANGED <<sessions, ws>>
    BY <1>16 DEF FlushOutput
  <2> QED
    BY <2>2, <2>3, <2>4, FramesInv
<1>17. CASE UNCHANGED vars
  BY <1>17, FramesInv DEF vars
<1> QED
  BY <1>1, <1>2, <1>3, <1>4, <1>5, <1>6, <1>7, <1>8, <1>9, <1>10, <1>11, <1>12,
     <1>13, <1>14, <1>15, <1>16, <1>17
  DEF Next, RelayEvent, LocalEvent

\* Sockets, sessions and the Map agree in every reachable state, connIds given
\* out again or not.
THEOREM LinksAgree == Spec => []BridgeInv
<1>1. Init => TypeOK
  BY NilAssumption DEF Init, TypeOK, NewSession, Session, UnusedSocket, SocketStates
<1>2. Init => BridgeInv
  BY NilAssumption DEF Init, BridgeInv, MapKeyed, CurrentSocketUsed, SocketOwned,
     OneSocketPerSession, GoneIsCleared, LiveSocket, NewSession, UnusedSocket
<1> QED
  BY <1>1, <1>2, TypeStep, BridgeInvStep, PTL DEF Spec

\* A session never has two ttyd connections that are up or coming up.
THEOREM OneSocket == Spec => []OneSocketPerSession
<1>1. BridgeInv => OneSocketPerSession
  BY DEF BridgeInv
<1> QED
  BY <1>1, LinksAgree, PTL

\* A session that left the Map stays mute.
LEMMA MuteStep ==
    ASSUME TypeOK, BridgeInv, [Next]_vars, NEW s \in Sessions, ~Alive(s)
    PROVE  toTtyd'[s] = toTtyd[s] /\ toClient'[s] = toClient[s]
<1>1. /\ ~session[s].key
      /\ session[s].pendingLocalFrames = <<>>
      /\ session[s].outFrames = <<>>
  BY DEF BridgeInv, GoneIsCleared
<1>2. ASSUME NEW c \in ConnIds, TerminalData(c) PROVE toTtyd'[s] = toTtyd[s]
  <2>1. sessions[c] # s
    BY <1>1, <1>2 DEF TerminalData
  <2> QED
    BY <1>2, <2>1 DEF TerminalData, ForwardToTtyd, TypeOK
<1>3. ASSUME NEW w \in Sockets, LocalOpen(w) PROVE toTtyd'[s] = toTtyd[s]
  <2>1. toTtyd[s] \in Seq(Nat) /\ toTtyd[s] \o <<>> = toTtyd[s]
    BY DEF TypeOK
  <2>2. CASE UNCHANGED toTtyd
    BY <2>2
  <2>3. CASE toTtyd' = [toTtyd EXCEPT ![ws[w].session] =
                            @ \o session[ws[w].session].pendingLocalFrames]
    BY <1>1, <2>1, <2>3 DEF TypeOK
  <2> QED
    BY <1>3, <2>2, <2>3 DEF LocalOpen
<1>4. ASSUME NEW t \in Sessions, FlushOutput(t) PROVE toClient'[s] = toClient[s]
  BY <1>1, <1>4 DEF FlushOutput, TypeOK
<1>5. ASSUME NEW c \in ConnIds, TerminalData(c) PROVE toClient' = toClient
  BY <1>5 DEF TerminalData
<1>6. ASSUME NEW w \in Sockets, LocalOpen(w) PROVE toClient' = toClient
  BY <1>6 DEF LocalOpen
<1>7. ASSUME NEW t \in Sessions, FlushOutput(t) PROVE toTtyd' = toTtyd
  BY <1>7 DEF FlushOutput
<1>8. \/ UNCHANGED <<toTtyd, toClient>>
      \/ \E c \in ConnIds : TerminalData(c)
      \/ \E w \in Sockets : LocalOpen(w)
      \/ \E t \in Sessions : FlushOutput(t)
  BY DEF Next, RelayEvent, LocalEvent, ClientConnect, ClientOffline, Handshake,
     HandshakeRejected, TerminalAttach, UplinkOpen, UplinkClosing, UplinkDown, Stop,
     LocalClosing, LocalClosed, LocalMessage, TimerFires, history, vars
<1> QED
  BY <1>2, <1>3, <1>4, <1>5, <1>6, <1>7, <1>8

\* Whatever callbacks of a session are still to run once it left the Map, they
\* write nothing, even when its connId is in use again.
THEOREM GoneIsMute == Spec => DeadSessionsAreMute
<1> DEFINE Mute == \A s \in Sessions :
                      (toTtyd'[s] # toTtyd[s] \/ toClient'[s] # toClient[s]) => Alive(s)
<1>1. TypeOK /\ BridgeInv /\ [Next]_vars => [Mute]_vars
  BY MuteStep
<1>2. [][Mute]_vars <=> DeadSessionsAreMute
  BY DEF DeadSessionsAreMute
<1> HIDE DEF Mute
<1> QED
  BY <1>1, <1>2, TypeCorrect, LinksAgree, PTL DEF Spec

(***************************************************************************)
(* Connection ids that are never given out again                           *)
(***************************************************************************)

\* No two sessions were created for the same connId.
UniqueConnIds ==
    \A s, t \in Sessions :
        Created(s) /\ session[s].connId = session[t].connId => s = t

\* Queueing input, or emptying the queue, touches no connId.
LEMMA PendingKeepsConnId ==
    ASSUME TypeOK, NEW s, NEW e,
           session' = [session EXCEPT ![s].pendingLocalFrames = e]
    PROVE  \A t \in Sessions : session'[t].connId = session[t].connId
<1>1. \A t \in Sessions :
          session'[t] = IF t = s THEN [session[t] EXCEPT !.pendingLocalFrames = e]
                                 ELSE session[t]
  BY DEF TypeOK
<1>2. \A r \in Session : [r EXCEPT !.pendingLocalFrames = e].connId = r.connId
  BY DEF Session
<1> QED
  BY <1>1, <1>2 DEF TypeOK

\* What a step can do to the Map, the connIds and the live sockets.
LEMMA StepShape ==
    ASSUME TypeOK, BridgeInv, [Next]_vars
    PROVE  \/ \E c \in ConnIds : ClientConnect(c)
           \/ \E S \in SUBSET Sessions : Teardown(S)
           \/ \E s \in Sessions : \E r \in Session :
                 /\ HasConnId(s)
                 /\ ConnectLocal(s, r)
                 /\ UNCHANGED sessions
                 /\ r.connId = session[s].connId
           \/ /\ UNCHANGED sessions
              /\ \A s \in Sessions : session'[s].connId = session[s].connId
              /\ \A w \in Sockets : LiveSocket(w)' =>
                    LiveSocket(w) /\ ws'[w].session = ws[w].session
<1> USE NilAssumption
<1> DEFINE Quiet == /\ UNCHANGED sessions
                    /\ \A s \in Sessions : session'[s].connId = session[s].connId
                    /\ \A w \in Sockets : LiveSocket(w)' =>
                          LiveSocket(w) /\ ws'[w].session = ws[w].session
           Linked == \E s \in Sessions : \E r \in Session :
                        /\ HasConnId(s)
                        /\ ConnectLocal(s, r)
                        /\ UNCHANGED sessions
                        /\ r.connId = session[s].connId
           Torn == \E S \in SUBSET Sessions : Teardown(S)
<1>0. \A s \in Sessions : session[s] \in Session
  BY DEF TypeOK
<1>1. ASSUME NEW c \in ConnIds, ClientOffline(c) \/ HandshakeRejected(c) PROVE Torn
  BY <1>1, MapEntryAlive DEF ClientOffline, HandshakeRejected
<1>2. ASSUME NEW c \in ConnIds, Handshake(c) PROVE Linked
  <2>1. sessions[c] \in Sessions /\ HasConnId(sessions[c])
    BY <1>2, MapEntryAlive DEF Handshake, HasConnId, Alive
  <2>2. /\ [session[sessions[c]] EXCEPT !.key = TRUE] \in Session
        /\ [session[sessions[c]] EXCEPT !.key = TRUE].connId = session[sessions[c]].connId
    BY <1>0, <2>1 DEF Session
  <2> QED
    BY <1>2, <2>1, <2>2 DEF Handshake
<1>3. ASSUME NEW c \in ConnIds, TerminalAttach(c) PROVE Linked
  BY <1>0, <1>3, MapEntryAlive DEF TerminalAttach, HasConnId, Alive
<1>4. ASSUME NEW c \in ConnIds, TerminalData(c) PROVE Quiet
  <2>1. sessions[c] \in Sessions
    BY <1>4, MapEntryAlive DEF TerminalData
  <2>2. \A s \in Sessions : session'[s].connId = session[s].connId
    BY <1>4, PendingKeepsConnId DEF TerminalData, ForwardToTtyd
  <2> QED
    BY <1>4, <2>2 DEF TerminalData, LiveSocket
<1>5. ASSUME UplinkOpen \/ UplinkClosing PROVE Quiet
  BY <1>5 DEF UplinkOpen, UplinkClosing, LiveSocket
<1>6. ASSUME UplinkDown PROVE Torn \/ Quiet
  BY <1>6 DEF UplinkDown, AliveSessions, LiveSocket
<1>7. ASSUME Stop PROVE Torn
  BY <1>7 DEF Stop, AliveSessions
<1>8. ASSUME NEW w \in Sockets, LocalOpen(w) PROVE Quiet
  <2>1. \A s \in Sessions : session'[s].connId = session[s].connId
    BY <1>8, PendingKeepsConnId DEF LocalOpen
  <2>2. ws[w].state = "connecting" /\ ws' = [ws EXCEPT ![w].state = "open"]
    BY <1>8 DEF LocalOpen
  <2>3. \A x \in Sockets : LiveSocket(x)' =>
            LiveSocket(x) /\ ws'[x].session = ws[x].session
    BY <2>2 DEF LiveSocket, TypeOK
  <2> QED
    BY <1>8, <2>1, <2>3 DEF LocalOpen
<1>9. ASSUME NEW w \in Sockets, LocalClosing(w) PROVE Quiet
  BY <1>9 DEF LocalClosing, LiveSocket, TypeOK
<1>10. ASSUME NEW w \in Sockets, LocalClosed(w) PROVE Quiet
  <2>1. \A s \in Sessions : session'[s].connId = session[s].connId
    BY <1>0, <1>10 DEF LocalClosed, TypeOK, Session
  <2> QED
    BY <1>10, <2>1 DEF LocalClosed, LiveSocket, UnusedSocket, TypeOK
<1>11. ASSUME NEW w \in Sockets, LocalMessage(w) PROVE Quiet
  <2>1. \A s \in Sessions : session'[s].connId = session[s].connId
    BY <1>0, <1>11 DEF LocalMessage, TypeOK, Session
  <2> QED
    BY <1>11, <2>1 DEF LocalMessage, LiveSocket
<1>12. ASSUME NEW s \in Sessions, TimerFires(s) PROVE Linked \/ Quiet
  <2> DEFINE r == [session[s] EXCEPT !.timers = @ - 1]
  <2>1. r \in Session /\ r.connId = session[s].connId
    BY <1>0, <1>12, FieldTypes DEF TimerFires, Session
  <2>2. CASE HasConnId(s) /\ ConnectLocal(s, r)
    BY <1>12, <2>1, <2>2 DEF TimerFires
  <2>3. CASE session' = [session EXCEPT ![s] = r] /\ UNCHANGED ws
    <3>1. \A t \in Sessions : session'[t].connId = session[t].connId
      BY <2>1, <2>3 DEF TypeOK
    <3> QED
      BY <1>12, <2>3, <3>1 DEF TimerFires, LiveSocket
  <2> QED
    BY <1>12, <2>2, <2>3 DEF TimerFires
<1>13. ASSUME NEW s \in Sessions, FlushOutput(s) PROVE Quiet
  <2>1. \A t \in Sessions : session'[t].connId = session[t].connId
    BY <1>0, <1>13 DEF FlushOutput, TypeOK, Session
  <2> QED
    BY <1>13, <2>1 DEF FlushOutput, LiveSocket
<1>14. ASSUME UNCHANGED vars PROVE Quiet
  BY <1>14 DEF vars, LiveSocket
<1> HIDE DEF Quiet, Linked, Torn
<1>15. (\E c \in ConnIds : ClientConnect(c)) \/ Torn \/ Linked \/ Quiet
  BY <1>1, <1>2, <1>3, <1>4, <1>5, <1>6, <1>7, <1>8, <1>9, <1>10, <1>11, <1>12,
     <1>13, <1>14 DEF Next, RelayEvent, LocalEvent
<1> QED
  BY <1>15 DEF Quiet, Linked, Torn
\* A connId that no session can take twice belongs to one session for ever.
LEMMA UniqueStep ==
    ASSUME ReuseConnIds = FALSE, TypeOK, BridgeInv, UniqueConnIds, [Next]_vars
    PROVE  UniqueConnIds'
<1>1. ASSUME NEW c \in ConnIds, ClientConnect(c) PROVE UniqueConnIds'
  <2>1. PICK s \in Sessions :
            session' = [t \in Sessions |->
                           IF t = s THEN NewSession(c)
                           ELSE IF t \in {sessions[c]} \ {Nil} THEN Cleared(session[t])
                           ELSE session[t]]
    BY <1>1 DEF ClientConnect
  <2>2. \A t \in Sessions : session[t].connId # c
    BY <1>1 DEF ClientConnect
  <2>3. \A r \in Session : Cleared(r).connId = r.connId
    BY DEF Cleared, Session
  <2>4. \A t \in Sessions : session'[t].connId = IF t = s THEN c ELSE session[t].connId
    BY <2>1, <2>3 DEF NewSession, TypeOK
  <2> QED
    BY <2>2, <2>4 DEF UniqueConnIds, Created
<1>2. ASSUME \A s \in Sessions : session'[s].connId = session[s].connId
      PROVE  UniqueConnIds'
  BY <1>2 DEF UniqueConnIds, Created
<1>3. ASSUME NEW S, Teardown(S) PROVE UniqueConnIds'
  BY <1>2, <1>3, TeardownFacts
<1>4. ASSUME NEW s \in Sessions, NEW r \in Session, ConnectLocal(s, r),
             r.connId = session[s].connId
      PROVE  UniqueConnIds'
  BY <1>2, <1>4, ConnectLocalFacts
<1> QED
  BY <1>1, <1>2, <1>3, <1>4, StepShape

\* When connIds are not reused, the one session a connId leads to is the only
\* one the timers of that connId can reconnect.
LEMMA NoOrphanStep ==
    ASSUME ReuseConnIds = FALSE, TypeOK, BridgeInv, UniqueConnIds, NoOrphanTtyd,
           [Next]_vars
    PROVE  NoOrphanTtyd'
<1> USE NilAssumption
<1>1. ASSUME NEW c \in ConnIds, ClientConnect(c) PROVE NoOrphanTtyd'
  <2>1. PICK s \in Sessions :
            /\ ~Created(s)
            /\ session' = [t \in Sessions |->
                              IF t = s THEN NewSession(c)
                              ELSE IF t \in {sessions[c]} \ {Nil} THEN Cleared(session[t])
                              ELSE session[t]]
            /\ sessions' = [sessions EXCEPT ![c] = s]
            /\ ws' = ClosedBy({sessions[c]} \ {Nil})
    BY <1>1 DEF ClientConnect
  <2>2. \A t \in Sessions : session[t].connId # c
    BY <1>1 DEF ClientConnect
  <2>3. sessions[c] = Nil
    BY <2>2, MapEntryAlive DEF BridgeInv, MapKeyed
  <2>4. ws' = ws
    <3>1. \A w \in Sockets : ws'[w] = ws[w]
      BY <2>1, <2>3 DEF ClosedBy
    <3> QED
      BY <2>1, <3>1 DEF ClosedBy, TypeOK
  <2> SUFFICES ASSUME NEW w \in Sockets, LiveSocket(w)'
               PROVE  Alive(ws[w].session)'
    BY DEF NoOrphanTtyd
  <2>5. ws[w].session \in Sessions /\ Alive(ws[w].session) /\ Created(ws[w].session)
    BY <2>4 DEF BridgeInv, SocketOwned, LiveSocket, NoOrphanTtyd
  <2>6. ws[w].session # s /\ session'[ws[w].session] = session[ws[w].session]
    BY <2>1, <2>3, <2>5
  <2> QED
    BY <2>1, <2>2, <2>4, <2>5, <2>6 DEF Alive, Created, TypeOK
<1>2. ASSUME NEW S \in SUBSET Sessions, Teardown(S) PROVE NoOrphanTtyd'
  <2> SUFFICES ASSUME NEW w \in Sockets, LiveSocket(w)'
               PROVE  Alive(ws[w].session)'
    BY DEF NoOrphanTtyd
  <2>1. LiveSocket(w) /\ ws'[w].session = ws[w].session
    BY <1>2, TeardownFacts DEF LiveSocket
  <2>2. /\ ws[w].session \in Sessions
        /\ Alive(ws[w].session)
        /\ session[ws[w].session].localWs = w
    BY <2>1 DEF BridgeInv, SocketOwned, OneSocketPerSession, LiveSocket, NoOrphanTtyd
  <2>3. ws[w].session \notin S
    BY <1>2, <2>2, TeardownFacts DEF LiveSocket
  <2>4. session[ws[w].session].connId \in ConnIds
    BY <2>2 DEF Alive, Created, TypeOK, Session
  <2>5. session'[ws[w].session].connId = session[ws[w].session].connId
    BY <1>2, <2>2, TeardownFacts
  <2>6. sessions'[session[ws[w].session].connId] = ws[w].session
    BY <1>2, <2>2, <2>3, <2>4, TeardownFacts DEF Alive
  <2> QED
    BY <2>1, <2>4, <2>5, <2>6 DEF Alive, Created
<1>3. ASSUME NEW s \in Sessions, NEW r \in Session, HasConnId(s), ConnectLocal(s, r),
             UNCHANGED sessions, r.connId = session[s].connId
      PROVE  NoOrphanTtyd'
  <2>1. Alive(s)
    <3>1. session[s].connId \in ConnIds
      BY <1>3 DEF HasConnId, Created, TypeOK, Session
    <3>2. /\ sessions[session[s].connId] \in Sessions
          /\ session[sessions[session[s].connId]].connId = session[s].connId
      BY <1>3, <3>1 DEF HasConnId, BridgeInv, MapKeyed, TypeOK
    <3> QED
      BY <1>3, <3>2 DEF HasConnId, UniqueConnIds, Alive
  <2>2. \A t \in Sessions : session'[t].connId = session[t].connId
    BY <1>3, ConnectLocalFacts
  <2>3. \A t \in Sessions : Alive(t)' <=> Alive(t)
    BY <1>3, <2>2 DEF Alive, Created
  <2>4. \A w \in Sockets : LiveSocket(w)' =>
            ws'[w].session = s \/ (LiveSocket(w) /\ ws'[w].session = ws[w].session)
    BY <1>3, ConnectLocalFacts DEF LiveSocket
  <2> SUFFICES ASSUME NEW w \in Sockets, LiveSocket(w)'
               PROVE  Alive(ws[w].session)'
    BY DEF NoOrphanTtyd
  <2>5. ws'[w].session \in Sessions /\ Alive(ws'[w].session)
    BY <2>1, <2>4 DEF NoOrphanTtyd, BridgeInv, SocketOwned, LiveSocket
  <2> QED
    BY <1>3, <2>2, <2>5 DEF Alive, Created
<1>4. ASSUME UNCHANGED sessions,
             \A s \in Sessions : session'[s].connId = session[s].connId,
             \A w \in Sockets : LiveSocket(w)' =>
                 LiveSocket(w) /\ ws'[w].session = ws[w].session
      PROVE  NoOrphanTtyd'
  <2> SUFFICES ASSUME NEW w \in Sockets, LiveSocket(w)'
               PROVE  Alive(ws[w].session)'
    BY DEF NoOrphanTtyd
  <2>1. /\ ws'[w].session = ws[w].session
        /\ ws[w].session \in Sessions
        /\ Alive(ws[w].session)
    BY <1>4 DEF NoOrphanTtyd, BridgeInv, SocketOwned, LiveSocket
  <2> QED
    BY <1>4, <2>1 DEF Alive, Created
<1> QED
  BY <1>1, <1>2, <1>3, <1>4, StepShape

\* No ttyd connection outlives its session as long as the relay gives each
\* connId out once.
THEOREM NoOrphans ==
    ASSUME ReuseConnIds = FALSE
    PROVE  Spec => []NoOrphanTtyd
<1>1. Init => UniqueConnIds /\ NoOrphanTtyd
  BY DEF Init, UniqueConnIds, NoOrphanTtyd, Created, NewSession, LiveSocket,
     UnusedSocket
<1>2. TypeOK /\ BridgeInv /\ UniqueConnIds /\ NoOrphanTtyd /\ [Next]_vars
         => UniqueConnIds' /\ NoOrphanTtyd'
  BY UniqueStep, NoOrphanStep
<1> QED
  BY <1>1, <1>2, TypeCorrect, LinksAgree, PTL DEF Spec
(***************************************************************************)
(* Order of the frames: Bridge implements two instances of LossyFifo       *)
(***************************************************************************)

\* What was written to the terminal, then what is queued for it, is in order;
\* the same for the client.
FramesOrdered ==
    \A s \in Sessions :
        /\ Input!InOrder(toTtyd[s] \o session[s].pendingLocalFrames, rx[s])
        /\ Output!InOrder(toClient[s] \o session[s].outFrames, tx[s])

\* Nothing is queued for a socket that is open.
QueueWaits ==
    \A s \in Sessions :
        session[s].pendingLocalFrames # <<>> /\ session[s].localWs # Nil
            => ws[session[s].localWs].state # "open"

\* InOrder is the same operator in both instances.
LEMMA SameOrder == \A q, n : Output!InOrder(q, n) <=> Input!InOrder(q, n)
BY DEF Output!InOrder, Input!InOrder

\* The next item can follow what is in order.
LEMMA OrderAppend ==
    ASSUME NEW q \in Seq(Nat), NEW n \in Nat, Input!InOrder(q, n)
    PROVE  Input!InOrder(Append(q, n + 1), n + 1)
<1> DEFINE a == Append(q, n + 1)
<1>1. Len(a) = Len(q) + 1 /\ Len(q) \in Nat
  OBVIOUS
<1>2. a[Len(q) + 1] = n + 1 /\ \A i \in 1..Len(q) : a[i] = q[i]
  OBVIOUS
<1> HIDE DEF a
<1>3. \A i \in 1..Len(a) : a[i] \in 1..(n + 1)
  BY <1>1, <1>2 DEF Input!InOrder
<1>4. ASSUME NEW i \in 1..Len(a), NEW j \in 1..Len(a), i < j PROVE a[i] < a[j]
  <2>1. CASE j = Len(q) + 1
    <3>1. i \in 1..Len(q)
      BY <1>1, <1>4, <2>1
    <3>2. q[i] \in 1..n
      BY <3>1 DEF Input!InOrder
    <3> QED
      BY <1>2, <2>1, <3>1, <3>2
  <2>2. CASE j # Len(q) + 1
    <3>1. i \in 1..Len(q) /\ j \in 1..Len(q)
      BY <1>1, <1>4, <2>2
    <3> QED
      BY <1>2, <1>4, <3>1 DEF Input!InOrder
  <2> QED
    BY <2>1, <2>2
<1> QED
  BY <1>3, <1>4 DEF Input!InOrder, a

\* An item that is dropped leaves a gap, not disorder.
LEMMA OrderGap ==
    ASSUME NEW q \in Seq(Nat), NEW n \in Nat, Input!InOrder(q, n)
    PROVE  Input!InOrder(q, n + 1)
BY DEF Input!InOrder

\* Dropping what is still queued keeps the order.
LEMMA OrderPrefix ==
    ASSUME NEW p \in Seq(Nat), NEW q \in Seq(Nat), NEW n \in Nat,
           Input!InOrder(p \o q, n)
    PROVE  Input!InOrder(p, n)
<1>1. Len(p \o q) = Len(p) + Len(q) /\ Len(p) \in Nat /\ Len(q) \in Nat
  OBVIOUS
<1>2. \A i \in 1..Len(p) : (p \o q)[i] = p[i] /\ i \in 1..Len(p \o q)
  OBVIOUS
<1> QED
  BY <1>1, <1>2 DEF Input!InOrder

\* Handing the queue over extends what came out.
LEMMA ExtendsConcat ==
    ASSUME NEW p \in Seq(Nat), NEW q \in Seq(Nat)
    PROVE  Input!Extends(p, p \o q)
<1>1. Len(p \o q) = Len(p) + Len(q) /\ Len(p) \in Nat /\ Len(q) \in Nat
  OBVIOUS
<1>2. \A i \in 1..Len(p) : (p \o q)[i] = p[i]
  OBVIOUS
<1> QED
  BY <1>1, <1>2 DEF Input!Extends

LEMMA AppendConcat ==
    ASSUME NEW p \in Seq(Nat), NEW q \in Seq(Nat), NEW n \in Nat
    PROVE  /\ p \o Append(q, n) = Append(p \o q, n)
           /\ Append(p, n) \o <<>> = Append(p, n)
           /\ p \o <<>> = p
           /\ p \o q \in Seq(Nat)
           /\ Append(p, n) \in Seq(Nat)
OBVIOUS
\* What a step can do to the input of a session.
InputKept(s) ==
    /\ rx'[s] = rx[s]
    /\ toTtyd'[s] = toTtyd[s]
    /\ session'[s].pendingLocalFrames \in {<<>>, session[s].pendingLocalFrames}

InputTaken(s) ==
    /\ rx'[s] = rx[s] + 1
    /\ \/ /\ session[s].localWs # Nil
          /\ ws[session[s].localWs].state = "open"
          /\ toTtyd'[s] = Append(toTtyd[s], rx[s] + 1)
          /\ session'[s].pendingLocalFrames = session[s].pendingLocalFrames
       \/ /\ session[s].localWs # Nil
          /\ ws[session[s].localWs].state = "connecting"
          /\ toTtyd'[s] = toTtyd[s]
          /\ session'[s].pendingLocalFrames =
                Append(session[s].pendingLocalFrames, rx[s] + 1)
       \/ /\ toTtyd'[s] = toTtyd[s]
          /\ session'[s].pendingLocalFrames = session[s].pendingLocalFrames

InputFlushed(s) ==
    /\ rx'[s] = rx[s]
    /\ toTtyd'[s] = toTtyd[s] \o session[s].pendingLocalFrames
    /\ session'[s].pendingLocalFrames = <<>>

\* ... and to its output.
OutputKept(s) ==
    /\ tx'[s] = tx[s]
    /\ toClient'[s] = toClient[s]
    /\ session'[s].outFrames \in {<<>>, session[s].outFrames}

OutputRead(s) ==
    /\ tx'[s] = tx[s] + 1
    /\ toClient'[s] = toClient[s]
    /\ session'[s].outFrames = Append(session[s].outFrames, tx[s] + 1)

OutputFlushed(s) ==
    /\ tx'[s] = tx[s]
    /\ toClient'[s] = toClient[s] \o session[s].outFrames
    /\ session'[s].outFrames = <<>>

\* The fields the handlers assign, read back.
LEMMA FieldReads ==
    ASSUME NEW r \in Session, NEW e
    PROVE  /\ LET q == [r EXCEPT !.pendingLocalFrames = e]
              IN  q.pendingLocalFrames = e /\ q.outFrames = r.outFrames
           /\ LET q == [r EXCEPT !.outFrames = e, !.flushScheduled = TRUE]
              IN  q.outFrames = e /\ q.pendingLocalFrames = r.pendingLocalFrames
           /\ LET q == [r EXCEPT !.flushScheduled = FALSE, !.outFrames = e]
              IN  q.outFrames = e /\ q.pendingLocalFrames = r.pendingLocalFrames
           /\ LET q == [r EXCEPT !.localWs = Nil, !.timers = e]
              IN  q.outFrames = r.outFrames /\ q.pendingLocalFrames = r.pendingLocalFrames
           /\ LET q == [r EXCEPT !.timers = e]
              IN  q.outFrames = r.outFrames /\ q.pendingLocalFrames = r.pendingLocalFrames
           /\ LET q == [r EXCEPT !.key = TRUE]
              IN  q.outFrames = r.outFrames /\ q.pendingLocalFrames = r.pendingLocalFrames
BY DEF Session

\* connectLocal moves no frame.
LEMMA ConnectLocalFrames ==
    ASSUME TypeOK, NEW t \in Sessions, NEW r \in Session, ConnectLocal(t, r),
           r.pendingLocalFrames = session[t].pendingLocalFrames,
           r.outFrames = session[t].outFrames,
           UNCHANGED history, NEW s \in Sessions
    PROVE  InputKept(s) /\ OutputKept(s)
BY ConnectLocalFacts DEF history, InputKept, OutputKept

\* A teardown drops frames, it moves none.
LEMMA TeardownFrames ==
    ASSUME TypeOK, NEW S, Teardown(S), UNCHANGED history, NEW s \in Sessions
    PROVE  InputKept(s) /\ OutputKept(s)
BY TeardownFacts DEF history, InputKept, OutputKept

\* Every step moves the frames of a session in one of these ways.
LEMMA FrameShape ==
    ASSUME TypeOK, BridgeInv, [Next]_vars, NEW s \in Sessions
    PROVE  /\ InputKept(s) \/ InputTaken(s) \/ InputFlushed(s)
           /\ OutputKept(s) \/ OutputRead(s) \/ OutputFlushed(s)
<1> USE NilAssumption
<1> DEFINE Shape == /\ InputKept(s) \/ InputTaken(s) \/ InputFlushed(s)
                    /\ OutputKept(s) \/ OutputRead(s) \/ OutputFlushed(s)
<1>0. session[s] \in Session /\ \A t \in Sessions : session[t] \in Session
  BY DEF TypeOK
<1>1. ASSUME NEW c \in ConnIds, ClientConnect(c) PROVE Shape
  <2>1. /\ UNCHANGED history
        /\ session'[s] = session[s] \/ session'[s] = Cleared(session[s])
                                    \/ session'[s] = NewSession(c)
    BY <1>1 DEF ClientConnect
  <2>2. /\ Cleared(session[s]).pendingLocalFrames = <<>>
        /\ Cleared(session[s]).outFrames = <<>>
    BY <1>0 DEF Cleared, Session
  <2>3. NewSession(c).pendingLocalFrames = <<>> /\ NewSession(c).outFrames = <<>>
    BY DEF NewSession
  <2> QED
    BY <2>1, <2>2, <2>3 DEF history, InputKept, OutputKept
<1>2. ASSUME NEW c \in ConnIds, ClientOffline(c) \/ HandshakeRejected(c) PROVE Shape
  BY <1>2, TeardownFrames DEF ClientOffline, HandshakeRejected
<1>3. ASSUME NEW c \in ConnIds, Handshake(c) PROVE Shape
  <2>1. sessions[c] \in Sessions
    BY <1>3, MapEntryAlive DEF Handshake
  <2>2. [session[sessions[c]] EXCEPT !.key = TRUE] \in Session
    BY <1>0, <2>1, FieldTypes
  <2> QED
    BY <1>0, <1>3, <2>1, <2>2, FieldReads, ConnectLocalFrames DEF Handshake
<1>4. ASSUME NEW c \in ConnIds, TerminalAttach(c) PROVE Shape
  BY <1>0, <1>4, MapEntryAlive, ConnectLocalFrames DEF TerminalAttach
<1>5. ASSUME NEW c \in ConnIds, TerminalData(c) PROVE Shape
  <2> DEFINE t == sessions[c]
  <2>1. t \in Sessions /\ rx' = [rx EXCEPT ![t] = @ + 1] /\ UNCHANGED <<tx, toClient>>
    BY <1>5, MapEntryAlive DEF TerminalData
  <2>2. CASE s # t
    BY <1>5, <2>1, <2>2 DEF TerminalData, ForwardToTtyd, TypeOK, InputKept, OutputKept
  <2>3. CASE s = t
    <3>1. rx'[s] = rx[s] + 1
      BY <2>1, <2>3 DEF TypeOK
    <3>2. CASE /\ session[s].localWs # Nil
               /\ ws[session[s].localWs].state = "open"
               /\ toTtyd' = [toTtyd EXCEPT ![s] = Append(@, rx[s] + 1)]
               /\ UNCHANGED session
      BY <2>1, <3>1, <3>2 DEF TypeOK, InputTaken, OutputKept
    <3>3. CASE /\ session[s].localWs # Nil
               /\ ws[session[s].localWs].state = "connecting"
               /\ session' = [session EXCEPT ![s].pendingLocalFrames = Append(@, rx[s] + 1)]
               /\ UNCHANGED toTtyd
      <4>1. session'[s] = [session[s] EXCEPT !.pendingLocalFrames =
                              Append(session[s].pendingLocalFrames, rx[s] + 1)]
        BY <3>3 DEF TypeOK
      <4> QED
        BY <1>0, <2>1, <3>1, <3>3, <4>1, FieldReads DEF InputTaken, OutputKept
    <3>4. CASE UNCHANGED <<session, toTtyd>>
      BY <2>1, <3>1, <3>4 DEF InputTaken, OutputKept
    <3> QED
      BY <1>5, <2>3, <3>2, <3>3, <3>4 DEF TerminalData, ForwardToTtyd
  <2> QED
    BY <2>2, <2>3
<1>6. ASSUME UplinkOpen \/ UplinkClosing \/ UNCHANGED vars PROVE Shape
  BY <1>6 DEF UplinkOpen, UplinkClosing, vars, history, InputKept, OutputKept
<1>7. ASSUME UplinkDown PROVE Shape
  <2>1. CASE running
    BY <1>7, <2>1, TeardownFrames DEF UplinkDown
  <2>2. CASE ~running
    BY <1>7, <2>2 DEF UplinkDown, history, InputKept, OutputKept
  <2> QED
    BY <2>1, <2>2
<1>8. ASSUME Stop PROVE Shape
  BY <1>8, TeardownFrames DEF Stop
<1>9. ASSUME NEW w \in Sockets, LocalOpen(w) PROVE Shape
  <2> DEFINE t == ws[w].session
  <2>1. CASE UNCHANGED <<toTtyd, session>>
    BY <1>9, <2>1 DEF LocalOpen, InputKept, OutputKept
  <2>2. CASE /\ toTtyd' = [toTtyd EXCEPT ![t] = @ \o session[t].pendingLocalFrames]
             /\ session' = [session EXCEPT ![t].pendingLocalFrames = <<>>]
    <3>1. CASE s # t
      BY <1>9, <2>2, <3>1 DEF LocalOpen, TypeOK, InputKept, OutputKept
    <3>2. CASE s = t
      <4>1. session'[s] = [session[s] EXCEPT !.pendingLocalFrames = <<>>]
        BY <2>2, <3>2 DEF TypeOK
      <4>2. toTtyd'[s] = toTtyd[s] \o session[s].pendingLocalFrames
        BY <2>2, <3>2 DEF TypeOK
      <4>3. UNCHANGED <<rx, tx, toClient>>
        BY <1>9 DEF LocalOpen
      <4>4. \A e : session'[s] = [session[s] EXCEPT !.pendingLocalFrames = e] =>
                /\ session'[s].pendingLocalFrames = e
                /\ session'[s].outFrames = session[s].outFrames
        BY <1>0, FieldReads
      <4> QED
        BY <4>1, <4>2, <4>3, <4>4 DEF InputFlushed, OutputKept
    <3> QED
      BY <3>1, <3>2
  <2> QED
    BY <1>9, <2>1, <2>2 DEF LocalOpen
<1>10. ASSUME NEW w \in Sockets, LocalClosing(w) PROVE Shape
  BY <1>10 DEF LocalClosing, history, InputKept, OutputKept
<1>11. ASSUME NEW w \in Sockets, LocalClosed(w) PROVE Shape
  <2>1. \/ session'[s] = session[s]
        \/ \E e : session'[s] = [session[s] EXCEPT !.localWs = Nil, !.timers = e]
    BY <1>11 DEF LocalClosed, TypeOK
  <2>2. /\ session'[s].pendingLocalFrames = session[s].pendingLocalFrames
        /\ session'[s].outFrames = session[s].outFrames
    <3>1. CASE session'[s] = session[s]
      BY <3>1
    <3>2. CASE \E e : session'[s] = [session[s] EXCEPT !.localWs = Nil, !.timers = e]
      <4>1. PICK e : session'[s] = [session[s] EXCEPT !.localWs = Nil, !.timers = e]
        BY <3>2
      <4> QED
        BY <1>0, <4>1 DEF Session
    <3> QED
      BY <2>1, <3>1, <3>2
  <2> QED
    BY <1>11, <2>2 DEF LocalClosed, history, InputKept, OutputKept
<1>12. ASSUME NEW w \in Sockets, LocalMessage(w) PROVE Shape
  <2> DEFINE t == ws[w].session
  <2>1. /\ tx' = [tx EXCEPT ![t] = @ + 1]
        /\ session' = [session EXCEPT ![t].outFrames = Append(@, tx[t] + 1),
                                      ![t].flushScheduled = TRUE]
        /\ UNCHANGED <<rx, toTtyd, toClient>>
    BY <1>12 DEF LocalMessage
  <2>2. CASE s # t
    BY <2>1, <2>2 DEF TypeOK, InputKept, OutputKept
  <2>3. CASE s = t
    <3>1. session'[s] = [session[s] EXCEPT !.outFrames = Append(session[s].outFrames, tx[s] + 1),
                                           !.flushScheduled = TRUE]
      BY <2>1, <2>3 DEF TypeOK
    <3>2. tx'[s] = tx[s] + 1
      BY <2>1, <2>3 DEF TypeOK
    <3>3. /\ session'[s].outFrames = Append(session[s].outFrames, tx[s] + 1)
          /\ session'[s].pendingLocalFrames = session[s].pendingLocalFrames
      BY <1>0, <3>1, FieldReads
    <3> QED
      BY <2>1, <3>2, <3>3 DEF InputKept, OutputRead
  <2> QED
    BY <2>2, <2>3
<1>13. ASSUME NEW t \in Sessions, TimerFires(t) PROVE Shape
  <2> DEFINE r == [session[t] EXCEPT !.timers = @ - 1]
  <2>1. r \in Session
    BY <1>13, FieldTypes DEF TimerFires, TypeOK
  <2>2. /\ r.pendingLocalFrames = session[t].pendingLocalFrames
        /\ r.outFrames = session[t].outFrames
    BY <1>0, FieldReads
  <2>3. UNCHANGED history
    BY <1>13 DEF TimerFires
  <2> HIDE DEF r
  <2>4. CASE ConnectLocal(t, r)
    BY <2>1, <2>2, <2>3, <2>4, ConnectLocalFrames
  <2>5. CASE session' = [session EXCEPT ![t] = r]
    BY <2>2, <2>3, <2>5 DEF TypeOK, history, InputKept, OutputKept
  <2> QED
    BY <1>13, <2>4, <2>5 DEF TimerFires, r
<1>14. ASSUME NEW t \in Sessions, FlushOutput(t) PROVE Shape
  <2>1. session' = [session EXCEPT ![t].flushScheduled = FALSE, ![t].outFrames = <<>>]
    BY <1>14 DEF FlushOutput
  <2>2. UNCHANGED <<rx, toTtyd, tx>>
    BY <1>14 DEF FlushOutput
  <2>3. \/ toClient'[s] = toClient[s]
        \/ s = t /\ toClient'[s] = toClient[s] \o session[s].outFrames
    BY <1>14 DEF FlushOutput, TypeOK
  <2>4. CASE s # t
    BY <2>1, <2>2, <2>3, <2>4 DEF TypeOK, InputKept, OutputKept
  <2>5. CASE s = t
    <3>1. session'[s] = [session[s] EXCEPT !.flushScheduled = FALSE, !.outFrames = <<>>]
      BY <2>1, <2>5 DEF TypeOK
    <3>2. \A e : session'[s] = [session[s] EXCEPT !.flushScheduled = FALSE, !.outFrames = e] =>
              /\ session'[s].outFrames = e
              /\ session'[s].pendingLocalFrames = session[s].pendingLocalFrames
      BY <1>0, FieldReads
    <3> QED
      BY <2>2, <2>3, <3>1, <3>2 DEF InputKept, OutputKept, OutputFlushed
  <2> QED
    BY <2>4, <2>5
<1> HIDE DEF Shape
<1>15. Shape
  BY <1>1, <1>2, <1>3, <1>4, <1>5, <1>6, <1>7, <1>8, <1>9, <1>10, <1>11, <1>12,
     <1>13, <1>14 DEF Next, RelayEvent, LocalEvent
<1> QED
  BY <1>15 DEF Shape
\* A socket is open because it was, or because it opens in this step.
LEMMA OpenShape ==
    ASSUME TypeOK, BridgeInv, [Next]_vars, NEW w \in Sockets, ws'[w].state = "open"
    PROVE  \/ ws[w].state = "open" /\ ws'[w].session = ws[w].session
           \/ LocalOpen(w)
<1> USE NilAssumption
<1> DEFINE Was == ws[w].state = "open" /\ ws'[w].session = ws[w].session
<1>1. ASSUME NEW c \in ConnIds, ClientConnect(c) PROVE Was
  <2>1. PICK S : ws' = ClosedBy(S)
    BY <1>1 DEF ClientConnect
  <2>2. ws'[w] = ws[w] \/ ws'[w] = [ws[w] EXCEPT !.state = "closing"]
    BY <2>1 DEF ClosedBy
  <2>3. ws[w] \in [state : SocketStates, session : Sessions \cup {Nil}]
    BY DEF TypeOK
  <2> QED
    BY <2>2, <2>3
<1>2. ASSUME NEW S, Teardown(S) PROVE Was
  BY <1>2, TeardownFacts
<1>3. ASSUME NEW s \in Sessions, NEW r \in Session, ConnectLocal(s, r) PROVE Was
  BY <1>3, ConnectLocalFacts
<1>4. ASSUME NEW c \in ConnIds, Handshake(c) PROVE Was
  <2>1. sessions[c] \in Sessions
    BY <1>4, MapEntryAlive DEF Handshake
  <2>2. [session[sessions[c]] EXCEPT !.key = TRUE] \in Session
    BY <2>1, FieldTypes DEF TypeOK
  <2> QED
    BY <1>3, <1>4, <2>1, <2>2 DEF Handshake
<1>5. ASSUME NEW c \in ConnIds, TerminalAttach(c) PROVE Was
  BY <1>3, <1>5, MapEntryAlive DEF TerminalAttach, TypeOK
<1>6. ASSUME NEW s \in Sessions, TimerFires(s) PROVE Was
  <2> DEFINE r == [session[s] EXCEPT !.timers = @ - 1]
  <2>1. r \in Session
    BY <1>6, FieldTypes DEF TimerFires, TypeOK
  <2>2. ConnectLocal(s, r) \/ UNCHANGED ws
    BY <1>6 DEF TimerFires
  <2> HIDE DEF r
  <2> QED
    BY <1>3, <2>1, <2>2
<1>7. ASSUME NEW x \in Sockets, LocalOpen(x), x # w PROVE Was
  BY <1>7 DEF LocalOpen, TypeOK
<1>8. ASSUME NEW x \in Sockets, LocalClosing(x) \/ LocalClosed(x) PROVE Was
  <2>1. x # w
    BY <1>8 DEF LocalClosing, LocalClosed, UnusedSocket, TypeOK
  <2>2. ws'[w] = ws[w]
    BY <1>8, <2>1 DEF LocalClosing, LocalClosed, TypeOK
  <2> QED
    BY <2>2
<1>9. ASSUME UNCHANGED ws PROVE Was
  BY <1>9
<1>10. \/ \E c \in ConnIds : \/ ClientConnect(c)
                             \/ Handshake(c)
                             \/ TerminalAttach(c)
       \/ \E s \in Sessions : TimerFires(s)
       \/ \E x \in Sockets : LocalOpen(x) \/ LocalClosing(x) \/ LocalClosed(x)
       \/ \E S : Teardown(S)
       \/ UNCHANGED ws
  BY DEF Next, RelayEvent, LocalEvent, ClientOffline, HandshakeRejected, TerminalData,
     UplinkOpen, UplinkClosing, UplinkDown, Stop, LocalMessage, FlushOutput, vars
<1> QED
  BY <1>1, <1>2, <1>4, <1>5, <1>6, <1>7, <1>8, <1>9, <1>10

LEMMA QueueWaitsStep ==
    ASSUME TypeOK, TypeOK', BridgeInv, BridgeInv', QueueWaits, [Next]_vars
    PROVE  QueueWaits'
<1> SUFFICES ASSUME NEW s \in Sessions, session'[s].localWs # Nil,
                    ws'[session'[s].localWs].state = "open"
             PROVE  session'[s].pendingLocalFrames = <<>>
  BY DEF QueueWaits
<1> DEFINE w == session'[s].localWs
<1>1. w \in Sockets /\ ws'[w].session = s
  BY DEF TypeOK, Session, BridgeInv, CurrentSocketUsed
<1>2. CASE ws[w].state = "open" /\ ws'[w].session = ws[w].session
  <2>1. session[s].localWs = w
    BY <1>1, <1>2 DEF BridgeInv, OneSocketPerSession, LiveSocket
  <2>2. session[s].pendingLocalFrames = <<>>
    BY <1>1, <1>2, <2>1, NilAssumption DEF QueueWaits
  <2>3. ~(ws[session[s].localWs].state = "connecting")
    BY <1>2, <2>1
  <2> QED
    BY <2>2, <2>3, FrameShape DEF InputKept, InputTaken, InputFlushed
<1>3. CASE LocalOpen(w)
  <2>1. ws[w].session = s /\ ws[w].state = "connecting"
    BY <1>1, <1>3 DEF LocalOpen, TypeOK
  <2>2. session[s].localWs = w
    BY <1>1, <2>1 DEF BridgeInv, OneSocketPerSession, LiveSocket
  <2>3. session' = [session EXCEPT ![s].pendingLocalFrames = <<>>]
    BY <1>3, <2>1, <2>2 DEF LocalOpen
  <2>4. \A r \in Session : \A e : [r EXCEPT !.pendingLocalFrames = e].pendingLocalFrames = e
    BY DEF Session
  <2>5. session'[s] = [session[s] EXCEPT !.pendingLocalFrames = <<>>]
    BY <2>3 DEF TypeOK
  <2> QED
    BY <2>4, <2>5 DEF TypeOK
<1> QED
  BY <1>1, <1>2, <1>3, OpenShape

LEMMA FramesOrderedStep ==
    ASSUME TypeOK, BridgeInv, QueueWaits, FramesOrdered, [Next]_vars
    PROVE  FramesOrdered'
<1> SUFFICES ASSUME NEW s \in Sessions
             PROVE  /\ Input!InOrder(toTtyd'[s] \o session'[s].pendingLocalFrames, rx'[s])
                    /\ Output!InOrder(toClient'[s] \o session'[s].outFrames, tx'[s])
  BY DEF FramesOrdered, Input!InOrder, Output!InOrder
<1> DEFINE p == session[s].pendingLocalFrames
           o == session[s].outFrames
           t == toTtyd[s]
           c == toClient[s]
<1>1. p \in Seq(Nat) /\ o \in Seq(Nat) /\ t \in Seq(Nat) /\ c \in Seq(Nat)
  BY DEF TypeOK, Session
<1>2. rx[s] \in Nat /\ tx[s] \in Nat
  BY DEF TypeOK
<1>3. Input!InOrder(t \o p, rx[s]) /\ Input!InOrder(c \o o, tx[s])
  BY SameOrder DEF FramesOrdered
<1>4. Input!InOrder(t, rx[s]) /\ Input!InOrder(c, tx[s])
  <2> HIDE DEF p, o, t, c
  <2> QED
    BY <1>1, <1>2, <1>3, OrderPrefix
<1>5. t \o <<>> = t /\ c \o <<>> = c
  <2> HIDE DEF t, c
  <2> QED
    BY <1>1, AppendConcat, EmptyBuffer
<1>6. session[s].localWs # Nil /\ ws[session[s].localWs].state = "open" => p = <<>>
  BY DEF QueueWaits
<1>7. t \o Append(p, rx[s] + 1) = Append(t \o p, rx[s] + 1)
      /\ c \o Append(o, tx[s] + 1) = Append(c \o o, tx[s] + 1)
      /\ Append(t, rx[s] + 1) \o <<>> = Append(t, rx[s] + 1)
      /\ (t \o p) \o <<>> = t \o p
      /\ (c \o o) \o <<>> = c \o o
      /\ t \o p \in Seq(Nat)
      /\ c \o o \in Seq(Nat)
  <2>1. rx[s] + 1 \in Nat /\ tx[s] + 1 \in Nat
    BY <1>2
  <2> HIDE DEF p, o, t, c
  <2>2. t \o p \in Seq(Nat) /\ c \o o \in Seq(Nat)
    BY <1>1, <2>1, AppendConcat
  <2>3. (t \o p) \o <<>> = t \o p /\ (c \o o) \o <<>> = c \o o
    BY <2>1, <2>2, AppendConcat
  <2>4. /\ t \o Append(p, rx[s] + 1) = Append(t \o p, rx[s] + 1)
        /\ Append(t, rx[s] + 1) \o <<>> = Append(t, rx[s] + 1)
    <3> DEFINE m == rx[s] + 1
    <3>1. m \in Nat
      BY <2>1
    <3> HIDE DEF m
    <3>2. t \o Append(p, m) = Append(t \o p, m) /\ Append(t, m) \o <<>> = Append(t, m)
      BY <1>1, <3>1, AppendConcat
    <3> QED
      BY <3>2 DEF m
  <2>5. c \o Append(o, tx[s] + 1) = Append(c \o o, tx[s] + 1)
    <3> DEFINE m == tx[s] + 1
    <3>1. m \in Nat
      BY <2>1
    <3> HIDE DEF m
    <3>2. c \o Append(o, m) = Append(c \o o, m)
      BY <1>1, <3>1, AppendConcat
    <3> QED
      BY <3>2 DEF m
  <2> QED
    BY <2>2, <2>3, <2>4, <2>5
<1>8. /\ Input!InOrder(Append(t \o p, rx[s] + 1), rx[s] + 1)
      /\ Input!InOrder(Append(t, rx[s] + 1), rx[s] + 1)
      /\ Input!InOrder(t \o p, rx[s] + 1)
      /\ Input!InOrder(Append(c \o o, tx[s] + 1), tx[s] + 1)
  <2> HIDE DEF p, o, t, c
  <2> QED
    BY <1>1, <1>2, <1>3, <1>4, <1>7, OrderAppend, OrderGap
<1>9. Input!InOrder(toTtyd'[s] \o session'[s].pendingLocalFrames, rx'[s])
  <2>1. CASE InputKept(s)
    BY <1>3, <1>4, <1>5, <2>1 DEF InputKept
  <2>2. CASE InputTaken(s)
    BY <1>6, <1>7, <1>8, <2>2 DEF InputTaken
  <2>3. CASE InputFlushed(s)
    BY <1>3, <1>7, <2>3 DEF InputFlushed
  <2> QED
    BY <2>1, <2>2, <2>3, FrameShape
<1>10. Input!InOrder(toClient'[s] \o session'[s].outFrames, tx'[s])
  <2>1. CASE OutputKept(s)
    BY <1>3, <1>4, <1>5, <2>1 DEF OutputKept
  <2>2. CASE OutputRead(s)
    BY <1>7, <1>8, <2>2 DEF OutputRead
  <2>3. CASE OutputFlushed(s)
    BY <1>3, <1>7, <2>3 DEF OutputFlushed
  <2> QED
    BY <2>1, <2>2, <2>3, FrameShape
<1> QED
  BY <1>9, <1>10, SameOrder

\* Every step of the bridge is a step, or a stutter, of both pipes.
LEMMA PipeStep ==
    ASSUME TypeOK, TypeOK', BridgeInv, FramesOrdered', [Next]_vars
    PROVE  Input!Next /\ Output!Next
<1> SUFFICES ASSUME NEW s \in Sessions PROVE Input!ChanStep(s) /\ Output!ChanStep(s)
  BY DEF Input!Next, Output!Next
<1>1. /\ session[s].pendingLocalFrames \in Seq(Nat) /\ session[s].outFrames \in Seq(Nat)
      /\ toTtyd[s] \in Seq(Nat) /\ toClient[s] \in Seq(Nat)
      /\ rx[s] \in Nat /\ tx[s] \in Nat
  BY DEF TypeOK, Session
<1>2. /\ session'[s].pendingLocalFrames \in Seq(Nat) /\ session'[s].outFrames \in Seq(Nat)
      /\ toTtyd'[s] \in Seq(Nat) /\ toClient'[s] \in Seq(Nat)
      /\ rx'[s] \in Nat /\ tx'[s] \in Nat
  BY DEF TypeOK, Session
<1>3. /\ Input!InOrder(toTtyd'[s] \o session'[s].pendingLocalFrames, rx'[s])
      /\ Input!InOrder(toClient'[s] \o session'[s].outFrames, tx'[s])
  BY DEF FramesOrdered, Input!InOrder, Output!InOrder
<1>4. Input!InOrder(toTtyd'[s], rx'[s]) /\ Input!InOrder(toClient'[s], tx'[s])
  BY <1>2, <1>3, OrderPrefix
<1>5. \A q \in Seq(Nat) : \A n \in Nat : Input!Extends(q, q) /\ Input!Extends(q, Append(q, n))
  BY DEF Input!Extends
<1>6. /\ Input!Extends(toTtyd[s], toTtyd[s] \o session[s].pendingLocalFrames)
      /\ Input!Extends(toClient[s], toClient[s] \o session[s].outFrames)
  BY <1>1, ExtendsConcat
<1>7. rx[s] + 1 \in Nat /\ tx[s] + 1 \in Nat
  BY <1>1
<1>8. Input!Extends(toTtyd[s], toTtyd'[s]) /\ rx'[s] >= rx[s]
  <2>1. CASE InputKept(s)
    BY <1>1, <1>5, <2>1 DEF InputKept
  <2>2. CASE InputTaken(s)
    <3>1. rx'[s] = rx[s] + 1 /\ rx[s] + 1 >= rx[s]
      BY <1>1, <2>2 DEF InputTaken
    <3>2. toTtyd'[s] = toTtyd[s] \/ toTtyd'[s] = Append(toTtyd[s], rx[s] + 1)
      BY <2>2 DEF InputTaken
    <3> QED
      BY <1>1, <1>5, <1>7, <3>1, <3>2
  <2>3. CASE InputFlushed(s)
    BY <1>1, <1>6, <2>3 DEF InputFlushed
  <2> QED
    BY <2>1, <2>2, <2>3, FrameShape
<1>9. Input!Extends(toClient[s], toClient'[s]) /\ tx'[s] >= tx[s]
  <2>1. CASE OutputKept(s)
    BY <1>1, <1>5, <2>1 DEF OutputKept
  <2>2. CASE OutputRead(s)
    <3>1. tx'[s] = tx[s] + 1 /\ tx[s] + 1 >= tx[s] /\ toClient'[s] = toClient[s]
      BY <1>1, <2>2 DEF OutputRead
    <3> QED
      BY <1>1, <1>5, <3>1
  <2>3. CASE OutputFlushed(s)
    BY <1>1, <1>6, <2>3 DEF OutputFlushed
  <2> QED
    BY <2>1, <2>2, <2>3, FrameShape
<1>10. \A p, q : Output!Extends(p, q) <=> Input!Extends(p, q)
  BY DEF Output!Extends, Input!Extends
<1> QED
  BY <1>4, <1>8, <1>9, <1>10, SameOrder DEF Input!ChanStep, Output!ChanStep

LEMMA FramesOrderedAlways == Spec => [](FramesOrdered /\ QueueWaits)
<1>1. Init => FramesOrdered /\ QueueWaits
  BY DEF Init, FramesOrdered, QueueWaits, NewSession, Input!InOrder, Output!InOrder
<1>2. TypeOK /\ TypeOK' /\ BridgeInv /\ BridgeInv' /\ FramesOrdered /\ QueueWaits
         /\ [Next]_vars => FramesOrdered' /\ QueueWaits'
  BY FramesOrderedStep, QueueWaitsStep
<1> QED
  BY <1>1, <1>2, TypeCorrect, LinksAgree, PTL DEF Spec

\* Keystrokes reach the terminal in the order typed and at most once: the
\* bridge implements LossyFifo from the client to ttyd.
THEOREM InputRefinement == Spec => InputInOrder
<1>1. Init => Input!Init
  BY DEF Init, Input!Init
<1>2. TypeOK /\ TypeOK' /\ BridgeInv /\ FramesOrdered' /\ [Next]_vars
         => [Input!Next]_(Input!vars)
  BY PipeStep
<1> QED
  BY <1>1, <1>2, TypeCorrect, LinksAgree, FramesOrderedAlways, PTL
     DEF Spec, InputInOrder, Input!Spec

\* Output reaches the client in the order printed and at most once: the bridge
\* implements LossyFifo from ttyd to the client.
THEOREM OutputRefinement == Spec => OutputInOrder
<1>1. Init => Output!Init
  BY DEF Init, Output!Init
<1>2. TypeOK /\ TypeOK' /\ BridgeInv /\ FramesOrdered' /\ [Next]_vars
         => [Output!Next]_(Output!vars)
  BY PipeStep
<1> QED
  BY <1>1, <1>2, TypeCorrect, LinksAgree, FramesOrderedAlways, PTL
     DEF Spec, OutputInOrder, Output!Spec

(***************************************************************************)
(* The link                                                                *)
(***************************************************************************)

Link == INSTANCE Uplink

\* While the link is down, and once the bridge was stopped, no session is in
\* the Map: what the old link's clients left is gone before the next comes up.
LinkHeld == uplink = "down" \/ ~running => \A c \in ConnIds : sessions[c] = Nil

\* No session has a key or anything queued.
NoSessionLeft ==
    \A s \in Sessions : /\ ~Alive(s) /\ ~session[s].key
                        /\ session[s].pendingLocalFrames = <<>>
                        /\ session[s].outFrames = <<>>

\* A session that is in the Map is torn down with all.
LEMMA TeardownEmpties ==
    ASSUME TypeOK, BridgeInv, Teardown(AliveSessions)
    PROVE  \A c \in ConnIds : sessions'[c] = Nil
<1> SUFFICES ASSUME NEW c \in ConnIds PROVE sessions'[c] = Nil
  OBVIOUS
<1>1. sessions[c] # Nil => sessions[c] \in AliveSessions
  BY MapEntryAlive DEF TypeOK, AliveSessions
<1> QED
  BY <1>1 DEF Teardown

\* Sessions come only while the link is up.
LEMMA LinkHeldStep == TypeOK /\ BridgeInv /\ LinkHeld /\ [Next]_vars => LinkHeld'
<1> SUFFICES ASSUME TypeOK, BridgeInv, LinkHeld, [Next]_vars PROVE LinkHeld'
  OBVIOUS
<1>1. ASSUME NEW c \in ConnIds,
             \/ ClientConnect(c) \/ ClientOffline(c) \/ Handshake(c)
             \/ HandshakeRejected(c) \/ TerminalAttach(c) \/ TerminalData(c)
      PROVE  LinkHeld'
  <2>1. running' /\ uplink' = "open"
    BY <1>1 DEF ClientConnect, ClientOffline, Handshake, HandshakeRejected, TerminalAttach,
                TerminalData, Delivered
  <2> QED
    BY <2>1 DEF LinkHeld
<1>2. CASE UplinkOpen \/ UplinkClosing
  BY <1>2 DEF UplinkOpen, UplinkClosing, LinkHeld
<1>3. CASE UplinkDown
  BY <1>3, TeardownEmpties DEF UplinkDown, LinkHeld
<1>4. CASE Stop
  BY <1>4, TeardownEmpties DEF Stop, LinkHeld
<1>5. CASE LocalEvent \/ UNCHANGED vars
  <2>1. UNCHANGED <<running, uplink, sessions>>
    BY <1>5 DEF LocalEvent, LocalOpen, LocalClosing, LocalClosed, LocalMessage, TimerFires,
                FlushOutput, vars
  <2> QED
    BY <2>1 DEF LinkHeld
<1> QED
  BY <1>1, <1>2, <1>3, <1>4, <1>5 DEF Next, RelayEvent

LEMMA LinkHeldAlways == Spec => []LinkHeld
<1>1. Init => LinkHeld
  BY DEF Init, LinkHeld
<1> QED
  BY <1>1, LinkHeldStep, TypeCorrect, LinksAgree, PTL DEF Spec

\* A session belongs to the link it came over: while the link is down, or the
\* bridge is stopped, there is no session with a key or with anything queued
\* for its terminal or its client (teardownAllSessions, bridge.ts), whichever
\* timers, sockets and flushes of it are still to come.
THEOREM SessionsEndWithLink == Spec => [](uplink = "down" \/ ~running => NoSessionLeft)
<1>1. TypeOK /\ BridgeInv /\ LinkHeld => (uplink = "down" \/ ~running => NoSessionLeft)
  <2> SUFFICES ASSUME TypeOK, BridgeInv, LinkHeld, uplink = "down" \/ ~running,
                      NEW s \in Sessions
               PROVE  /\ ~Alive(s) /\ ~session[s].key
                      /\ session[s].pendingLocalFrames = <<>>
                      /\ session[s].outFrames = <<>>
    BY DEF NoSessionLeft
  <2>1. ~Alive(s)
    <3>1. session[s].connId \in ConnIds \cup {Nil} /\ s # Nil
      BY NilAssumption DEF TypeOK, Session
    <3> QED
      BY <3>1 DEF LinkHeld, Alive, Created
  <2> QED
    BY <2>1 DEF BridgeInv, GoneIsCleared
<1> QED
  BY <1>1, LinkHeldAlways, TypeCorrect, LinksAgree, PTL

\* What the bridge lets its uplink do is a behaviour of Uplink, which the
\* relay client implements (ImplementsUplink of RelayClient): the two modules
\* assume the same of the socket between them.
THEOREM UplinkIsLink == Spec => Link!Spec
<1>1. Init => Link!Init
  BY DEF Init, Link!Init
<1>2. [Next]_vars => [Link!Next]_uplink
  <2>1. ASSUME NEW c \in ConnIds,
               \/ ClientConnect(c) \/ ClientOffline(c) \/ Handshake(c)
               \/ HandshakeRejected(c) \/ TerminalAttach(c) \/ TerminalData(c)
        PROVE  uplink' = uplink
    BY <2>1 DEF ClientConnect, ClientOffline, Handshake, HandshakeRejected, TerminalAttach,
                TerminalData
  <2>2. Stop \/ LocalEvent \/ UNCHANGED vars => uplink' = uplink
    BY DEF Stop, LocalEvent, LocalOpen, LocalClosing, LocalClosed, LocalMessage,
           TimerFires, FlushOutput, vars
  <2>3. UplinkOpen \/ UplinkClosing \/ UplinkDown => Link!Next
    BY DEF UplinkOpen, UplinkClosing, UplinkDown, Link!Next, Link!Open, Link!Closing,
           Link!Down
  <2> QED
    BY <2>1, <2>2, <2>3 DEF Next, RelayEvent
<1> QED
  BY <1>1, <1>2, PTL DEF Spec, Link!Spec
=============================================================================
