------------------------- MODULE RelayClientProofs -------------------------
(***************************************************************************)
(* What is proved about the connections of the daemon.  Of the relay       *)
(* connection, for every set of sockets, whether or not somebody handles   *)
(* its errors: its timers and sockets.  Of a port forward, for any number  *)
(* of flows, sockets and chunks: which socket a flow has, and the order of *)
(* what it carries.                                                        *)
(***************************************************************************)
EXTENDS RelayClient, Tunnel, TLAPS

\* The life of the process: only a running client has a socket, and one that
\* has not started, or has crashed, has told nobody that it is connected.
PhasesAgree ==
    /\ phase # "running" => ws = Nil
    /\ phase \in {"idle", "crashed"} => told = "disconnected"

\* Until the next ping the last pong is as old as the heartbeat's period, or
\* younger.
PongFresh ==
    Connected /\ heartbeat # Nil /\ ~pinged => pongAge <= HeartbeatTicks - heartbeat

\* The inductive invariant.
LinkInv ==
    /\ TypeOK
    /\ OneLiveSocket
    /\ TimersBelong
    /\ LossIsTold
    /\ PhasesAgree
    /\ PongFresh

\* The bounds of the delay, which stay folded in the proofs below.
LEMMA Delays ==
    FirstDelay \in Nat /\ MaxDelay \in Nat /\ 0 < FirstDelay /\ FirstDelay < MaxDelay
BY SMT DEF FirstDelay, MaxDelay

USE DEF HeartbeatTicks, PongTicks, MaxAge

-----------------------------------------------------------------------------
LEMMA InitInv == Init => LinkInv
<1> SUFFICES ASSUME Init
             PROVE  LinkInv
    OBVIOUS
<1>1. TypeOK
  <2>1. /\ reconnectDelay \in FirstDelay..MaxDelay
        /\ heartbeat \in 0..HeartbeatTicks \cup {Nil}
        /\ pongAge \in 0..MaxAge
        BY Delays DEF Init
  <2> QED
      BY <2>1 DEF Init, TypeOK
<1>2. OneLiveSocket /\ TimersBelong /\ LossIsTold /\ PhasesAgree /\ PongFresh
      BY NilAssumption
         DEF Init, OneLiveSocket, TimersBelong, LossIsTold, PhasesAgree, PongFresh, Connected
<1> QED
    BY <1>1, <1>2 DEF LinkInv

\* The delay stays between its bounds (relay-client.ts:124-137).
LEMMA Doubled ==
    ASSUME NEW d \in FirstDelay..MaxDelay
    PROVE  /\ d * 2 < MaxDelay => d * 2 \in FirstDelay..MaxDelay
           /\ MaxDelay \in FirstDelay..MaxDelay
<1>1. d \in Int /\ FirstDelay <= d
      BY Delays
<1>2. d * 2 >= d
      BY <1>1, SMT DEF FirstDelay
<1> QED
    BY <1>1, <1>2, Delays, SMT

LEMMA ScheduleType ==
    ASSUME reconnectDelay \in FirstDelay..MaxDelay, reconnectTimer \in BOOLEAN,
           ScheduleReconnect
    PROVE  reconnectDelay' \in FirstDelay..MaxDelay /\ reconnectTimer' \in BOOLEAN
<1>1. CASE phase = "running" /\ reconnectDelay * 2 < MaxDelay
      BY <1>1, Doubled, Zenon DEF ScheduleReconnect
<1>2. CASE phase = "running" /\ ~(reconnectDelay * 2 < MaxDelay)
      BY <1>2, Doubled, Zenon DEF ScheduleReconnect
<1>3. CASE phase # "running"
      BY <1>3, Zenon DEF ScheduleReconnect
<1> QED
    BY <1>1, <1>2, <1>3

\* Only doConnect, the events of sockets and disconnect touch the sockets.
LEMMA TypeStep == TypeOK /\ [Next]_vars => TypeOK'
<1> SUFFICES ASSUME TypeOK, [Next]_vars
             PROVE  TypeOK'
    OBVIOUS
<1> USE NilAssumption, Delays
<1>1. CASE Connect
      BY <1>1 DEF TypeOK, Connect, DoConnect, link
<1>2. CASE Disconnect
      BY <1>2 DEF TypeOK, Disconnect
<1>3. CASE SocketEvent
  <2>1. PICK w \in Sockets :
            Opened(w) \/ Failed(w) \/ Broken(w) \/ RelayCloses(w) \/ Closed(w)
        BY <1>3 DEF SocketEvent
  <2>2. CASE Opened(w)
        BY <2>2 DEF TypeOK, Opened, link
  <2>3. LinkLost => reconnectDelay' \in FirstDelay..MaxDelay /\ reconnectTimer' \in BOOLEAN
        BY ScheduleType DEF LinkLost, TypeOK
  <2>4. CASE Failed(w)
        BY <2>3, <2>4 DEF TypeOK, Failed, Crash, LinkLost, link
  <2>5. CASE Broken(w)
        BY <2>5 DEF TypeOK, Broken, Crash, link
  <2>6. CASE RelayCloses(w)
        BY <2>6 DEF TypeOK, RelayCloses, link
  <2>7. CASE Closed(w)
        BY <2>3, <2>7 DEF TypeOK, Closed, LinkLost, link
  <2> QED
      BY <2>1, <2>2, <2>4, <2>5, <2>6, <2>7
<1>4. CASE Silenced
      BY <1>4 DEF TypeOK, Silenced
<1>5. CASE Pong
  <2>1. pongAge' \in 0..MaxAge
        BY <1>5 DEF Pong
  <2> QED
      BY <1>5, <2>1 DEF TypeOK, Pong
<1>6. CASE ReconnectTimerFires
      BY <1>6 DEF TypeOK, ReconnectTimerFires, DoConnect
<1>7. CASE Tick
      BY <1>7 DEF TypeOK, Tick
<1>8. CASE Heartbeat
  <2>1. heartbeat' \in 0..HeartbeatTicks
        BY <1>8 DEF Heartbeat
  <2>2. pinged' \in BOOLEAN
        BY <1>8 DEF TypeOK, Heartbeat
  <2>3. socks' \in [Sockets -> {"unused", "connecting", "open", "closing"}]
        BY <1>8 DEF TypeOK, Heartbeat
  <2> QED
      BY <1>8, <2>1, <2>2, <2>3 DEF TypeOK, Heartbeat
<1>9. CASE UNCHANGED vars
      BY <1>9 DEF TypeOK, vars
<1> QED
    BY <1>1, <1>2, <1>3, <1>4, <1>5, <1>6, <1>7, <1>8, <1>9 DEF Next

-----------------------------------------------------------------------------
\* Every step preserves the inductive invariant.
LEMMA InvStep == LinkInv /\ [Next]_vars => LinkInv'
<1> SUFFICES ASSUME LinkInv, [Next]_vars
             PROVE  LinkInv'
    OBVIOUS
<1> USE NilAssumption, Delays
<1> DEFINE Rest == OneLiveSocket /\ TimersBelong /\ LossIsTold /\ PhasesAgree /\ PongFresh
<1>0. TypeOK'
      BY TypeStep DEF LinkInv
<1> SUFFICES Rest'
    BY <1>0 DEF LinkInv
<1> USE DEF LinkInv, TypeOK, OneLiveSocket, TimersBelong, LossIsTold, PhasesAgree,
            PongFresh, Connected
<1>1. CASE Connect
      BY <1>1 DEF Connect, DoConnect, link
<1>2. CASE Disconnect
      BY <1>2 DEF Disconnect
<1>3. CASE SocketEvent
  <2>1. PICK w \in Sockets :
            Opened(w) \/ Failed(w) \/ Broken(w) \/ RelayCloses(w) \/ Closed(w)
        BY <1>3 DEF SocketEvent
  <2>2. CASE Opened(w)
        BY <2>2 DEF Opened, link
  <2>4. CASE Failed(w)
        BY <2>4 DEF Failed, Crash, LinkLost, ScheduleReconnect, link
  <2>5. CASE Broken(w)
        BY <2>5 DEF Broken, Crash, link
  <2>6. CASE RelayCloses(w)
        BY <2>6 DEF RelayCloses, link
  <2>7. CASE Closed(w)
        BY <2>7 DEF Closed, LinkLost, ScheduleReconnect, link
  <2> QED
      BY <2>1, <2>2, <2>4, <2>5, <2>6, <2>7
<1>4. CASE Silenced
      BY <1>4 DEF Silenced
<1>5. CASE Pong
      BY <1>5 DEF Pong
<1>6. CASE ReconnectTimerFires
      BY <1>6 DEF ReconnectTimerFires, DoConnect
<1>7. CASE Tick
      BY <1>7 DEF Tick
<1>8. CASE Heartbeat
      BY <1>8 DEF Heartbeat
<1>9. CASE UNCHANGED vars
      BY <1>9 DEF vars
<1> QED
    BY <1>1, <1>2, <1>3, <1>4, <1>5, <1>6, <1>7, <1>8, <1>9 DEF Next

LEMMA LinkInvariant == Spec => []LinkInv
BY InitInv, InvStep, PTL DEF Spec

-----------------------------------------------------------------------------
\* The state of the connection is always well-formed; in particular the backoff
\* stays between 1 s and 2 h (relay-client.ts:124-137).
THEOREM TypeCorrect == Spec => []TypeOK
BY LinkInvariant, PTL DEF LinkInv

\* There is never a second connection to the relay (relay-client.ts:51-60,
\* 145-156).
THEOREM NeverTwoSockets == Spec => []OneLiveSocket
BY LinkInvariant, PTL DEF LinkInv

\* Timers run only in the states they are for (relay-client.ts:97-104, 124-137,
\* 145-178).
THEOREM TimersInPlace == Spec => []TimersBelong
BY LinkInvariant, PTL DEF LinkInv

\* The Bridge has been told of every loss (relay-client.ts:97-104).
THEOREM LossTold == Spec => []LossIsTold
BY LinkInvariant, PTL DEF LinkInv

\* The heartbeat gives up no link whose pings are all answered
\* (relay-client.ts:158-171).
THEOREM AnsweredLinkKept == Spec => OnlyUnansweredDropped
<1>1. LinkInv /\ [Next]_vars => [Heartbeat /\ socks' # socks => pinged]_vars
      BY NilAssumption
         DEF LinkInv, TypeOK, TimersBelong, PongFresh, Connected, Heartbeat
<1> QED
    BY <1>1, LinkInvariant, PTL DEF Spec, OnlyUnansweredDropped

-----------------------------------------------------------------------------
\* A step of the client is a step of the uplink the Bridge knows, or none.
LEMMA UplinkStep ==
    LinkInv /\ [Next]_vars => [UplinkSteps!Next]_UplinkState
<1> SUFFICES ASSUME LinkInv, [Next]_vars
             PROVE  [UplinkSteps!Next]_UplinkState
    OBVIOUS
<1> USE NilAssumption, Delays
<1> USE DEF LinkInv, TypeOK, OneLiveSocket, LossIsTold, PhasesAgree, Connected,
            UplinkState, UplinkSteps!Next, UplinkSteps!Open, UplinkSteps!Closing,
            UplinkSteps!Down
<1>1. CASE Connect
      BY <1>1 DEF Connect, DoConnect, link
<1>2. CASE Disconnect
      BY <1>2 DEF Disconnect
<1>3. CASE SocketEvent
  <2>1. PICK w \in Sockets :
            Opened(w) \/ Failed(w) \/ Broken(w) \/ RelayCloses(w) \/ Closed(w)
        BY <1>3 DEF SocketEvent
  <2>2. CASE Opened(w)
        BY <2>2 DEF Opened, link
  <2>4. CASE Failed(w)
        BY <2>4 DEF Failed, Crash, LinkLost, link
  <2>5. CASE Broken(w)
        BY <2>5 DEF Broken, Crash, link
  <2>6. CASE RelayCloses(w)
        BY <2>6 DEF RelayCloses, link
  <2>7. CASE Closed(w)
        BY <2>7 DEF Closed, LinkLost, link
  <2> QED
      BY <2>1, <2>2, <2>4, <2>5, <2>6, <2>7
<1>4. CASE Silenced
      BY <1>4 DEF Silenced
<1>5. CASE Pong
      BY <1>5 DEF Pong
<1>6. CASE ReconnectTimerFires
      BY <1>6 DEF ReconnectTimerFires, DoConnect, TimersBelong
<1>7. CASE Tick
      BY <1>7 DEF Tick
<1>8. CASE Heartbeat
      BY <1>8 DEF Heartbeat
<1>9. CASE UNCHANGED vars
      BY <1>9 DEF vars
<1> QED
    BY <1>1, <1>2, <1>3, <1>4, <1>5, <1>6, <1>7, <1>8, <1>9 DEF Next

\* The client implements the uplink the Bridge relies on: it hears of the loss
\* of a link before there is another one (relay-client.ts:63-69, 97-104).
THEOREM UplinkRefinement == Spec => ImplementsUplink
<1>1. Init => UplinkSteps!Init
      BY DEF Init, UplinkState, UplinkSteps!Init
<1> QED
    BY <1>1, LinkInvariant, UplinkStep, PTL
    DEF Spec, ImplementsUplink, UplinkSteps!Spec


-----------------------------------------------------------------------------
(* The tunnel: what its sockets and frames always agree on.                *)

\* Every connection that is on its way has a chunk to begin with, and every
\* socket in use a flow.
SocketsHaveFlows ==
    \A k \in Socks :
        /\ sock[k].state # "unused" => sock[k].flow \in Flows
        /\ sock[k].state = "connecting" => sock[k].initial \in Chunk

\* A flow of the Map has a socket, and that socket has this flow.
EntriesHaveSockets ==
    \A f \in Flows :
        flows[f] # NoSocket => sock[flows[f]].flow = f /\ sock[flows[f]].state # "unused"

\* What a queue of frames becomes when its first one is taken.
LEMMA TailShape ==
    ASSUME NEW S, NEW q \in Seq(S), q # <<>>
    PROVE  /\ Head(q) \in S /\ Head(q) = q[1] /\ 1 \in 1..Len(q)
           /\ Tail(q) \in Seq(S) /\ Len(Tail(q)) = Len(q) - 1
           /\ \A i \in 1..Len(Tail(q)) : i + 1 \in 1..Len(q) /\ Tail(q)[i] = q[i + 1]
OBVIOUS

\* What it becomes when one is added.
LEMMA AppendShape ==
    ASSUME NEW S, NEW q \in Seq(S), NEW m \in S
    PROVE  /\ Append(q, m) \in Seq(S) /\ Len(Append(q, m)) = Len(q) + 1
           /\ \A i \in 1..Len(Append(q, m)) :
                \/ i \in 1..Len(q) /\ Append(q, m)[i] = q[i]
                \/ i = Len(q) + 1 /\ Append(q, m)[i] = m
           /\ \A i \in 1..Len(q) : i \in 1..Len(Append(q, m)) /\ Append(q, m)[i] = q[i]
           /\ Len(q) + 1 \in 1..Len(Append(q, m)) /\ Append(q, m)[Len(q) + 1] = m
OBVIOUS

\* The frames that name a flow.
LEMMA FrameKinds ==
    /\ \A f \in Flows : Close(f) \in Frame /\ Close(f).kind = "close" /\ Close(f).flow = f
    /\ \A f \in Flows, n \in Chunk :
           /\ Data(f, n) \in Frame
           /\ Data(f, n).kind = "data" /\ Data(f, n).flow = f /\ Data(f, n).chunk = n
    /\ \A s \in {"open", "ok", "error"} : [kind |-> s] \in Frame /\ [kind |-> s].kind = s
    /\ \A m \in Frame :
           \/ m.kind \in {"open", "ok", "error"}
           \/ m.kind = "close" /\ m.flow \in Flows /\ m = Close(m.flow)
           \/ m.kind = "data" /\ m.flow \in Flows /\ m.chunk \in Chunk
BY DEF Frame, Close, Data

LEMMA TunnelInitTypes == TunnelInit => TunnelTypeOK /\ SocketsHaveFlows /\ EntriesHaveSockets
<1> SUFFICES ASSUME TunnelInit
             PROVE  TunnelTypeOK /\ SocketsHaveFlows /\ EntriesHaveSockets
    OBVIOUS
<1>1. UnusedSock \in Sock
  BY DEF UnusedSock, Sock
<1>2. toServer \in Seq(Frame) /\ toClient \in Seq(Frame)
  BY FrameKinds DEF TunnelInit
<1>3. <<>> \in Seq(Chunk)
  OBVIOUS
<1>4. TunnelTypeOK
  BY <1>1, <1>2, <1>3 DEF TunnelInit, TunnelTypeOK
<1>5. SocketsHaveFlows /\ EntriesHaveSockets
  BY DEF TunnelInit, SocketsHaveFlows, EntriesHaveSockets, UnusedSock
<1> QED
  BY <1>4, <1>5

\* What each end does to the frames on their way keeps them frames.
LEMMA FramesTyped ==
    ASSUME TunnelTypeOK
    PROVE  /\ \A m : ServerTakes(m) => m \in Frame /\ toServer' \in Seq(Frame)
           /\ \A m : ClientTakes(m) => m \in Frame /\ toClient' \in Seq(Frame)
           /\ \A m \in Frame : ClientSends(m) => toServer' \in Seq(Frame)
           /\ \A m \in Frame : ServerSends(m) => toClient' \in Seq(Frame)
<1>1. toServer \in Seq(Frame) /\ toClient \in Seq(Frame)
  BY DEF TunnelTypeOK
<1>2. \A m : ServerTakes(m) => m \in Frame /\ toServer' \in Seq(Frame)
  BY <1>1, TailShape DEF ServerTakes
<1>3. \A m : ClientTakes(m) => m \in Frame /\ toClient' \in Seq(Frame)
  BY <1>1, TailShape DEF ClientTakes
<1>4. \A m \in Frame : ClientSends(m) => toServer' \in Seq(Frame)
  BY <1>1, AppendShape DEF ClientSends
<1>5. \A m \in Frame : ServerSends(m) => toClient' \in Seq(Frame)
  BY <1>1, AppendShape DEF ServerSends
<1> QED
  BY <1>2, <1>3, <1>4, <1>5

\* Destroying sockets changes their state and nothing else of them.
LEMMA DestroyedSockets ==
    ASSUME TunnelTypeOK, NEW K
    PROVE  /\ Destroyed(K) \in [Socks -> Sock]
           /\ \A k \in Socks :
                /\ Destroyed(K)[k].flow = sock[k].flow
                /\ k \in K => Destroyed(K)[k].state = "destroyed"
                /\ k \notin K => Destroyed(K)[k] = sock[k]
BY DEF TunnelTypeOK, Destroyed, Sock

\* What is written to a socket waits in it, and changes nothing else of it.
LEMMA WrittenSocket ==
    ASSUME TunnelTypeOK, NEW k \in Socks, NEW n \in Chunk,
           sock' = [sock EXCEPT ![k].written = Append(@, n)]
    PROVE  /\ sock' \in [Socks -> Sock]
           /\ sock'[k].written = Append(sock[k].written, n)
           /\ \A j \in Socks : j # k => sock'[j] = sock[j]
           /\ \A j \in Socks : /\ sock'[j].state = sock[j].state
                               /\ sock'[j].flow = sock[j].flow
                               /\ sock'[j].initial = sock[j].initial
<1> DEFINE w == Append(sock[k].written, n)
           s == [sock[k] EXCEPT !.written = w]
<1>1. sock[k] \in Sock /\ sock \in [Socks -> Sock]
  BY DEF TunnelTypeOK
<1>2. w \in Seq(Chunk)
  BY <1>1 DEF Sock
<1>3. /\ s \in Sock /\ s.state = sock[k].state /\ s.flow = sock[k].flow
      /\ s.initial = sock[k].initial /\ s.written = w
  <2> HIDE DEF w
  <2> QED
    BY <1>1, <1>2 DEF Sock
<1>4. sock' = [sock EXCEPT ![k] = s]
  BY <1>1
<1> HIDE DEF s
<1> QED
  BY <1>1, <1>3, <1>4

\* Each step keeps the types, and gives each socket it opens a flow.
LEMMA TunnelTypesStep ==
    ASSUME TunnelTypeOK, SocketsHaveFlows, EntriesHaveSockets, [TunnelNext]_tunnelVars
    PROVE  TunnelTypeOK' /\ SocketsHaveFlows'
<1> USE DEF links, data
<1>1. CASE UNCHANGED tunnelVars
  BY <1>1 DEF tunnelVars, TunnelTypeOK, SocketsHaveFlows
<1>2. CASE PfOpen
  <2>1. toServer' \in Seq(Frame) /\ toClient' \in Seq(Frame)
    BY <1>2, FramesTyped, FrameKinds DEF PfOpen
  <2> QED
    BY <1>2, <2>1 DEF PfOpen, TunnelTypeOK, SocketsHaveFlows
<1>3. CASE PfOpenAck
  <2>1. toClient' \in Seq(Frame)
    BY <1>3, FramesTyped DEF PfOpenAck
  <2> QED
    BY <1>3, <2>1 DEF PfOpenAck, TunnelTypeOK, SocketsHaveFlows
<1>4. ASSUME NEW f \in Flows, AppConnects(f) \/ AppWrites(f) \/ AppCloses(f)
      PROVE  TunnelTypeOK' /\ SocketsHaveFlows'
  <2>1. CASE AppConnects(f)
    BY <2>1 DEF AppConnects, TunnelTypeOK, SocketsHaveFlows
  <2>2. CASE AppWrites(f)
    <3>1. up[f] + 1 \in Chunk /\ up' \in [Flows -> Nat]
      BY <2>2, TunnelAssumption DEF AppWrites, TunnelTypeOK, Chunk
    <3>2. toServer' \in Seq(Frame)
      BY <2>2, <3>1, FramesTyped, FrameKinds DEF AppWrites
    <3> QED
      BY <2>2, <3>1, <3>2 DEF AppWrites, TunnelTypeOK, SocketsHaveFlows
  <2>3. CASE AppCloses(f)
    <3>1. toServer' \in Seq(Frame)
      BY <2>3, FramesTyped, FrameKinds DEF AppCloses
    <3> QED
      BY <2>3, <3>1 DEF AppCloses, TunnelTypeOK, SocketsHaveFlows
  <2> QED
    BY <1>4, <2>1, <2>2, <2>3
<1>5. CASE ClientData
  <2>1. PICK f \in Flows, n \in Chunk :
            /\ ClientTakes(Data(f, n))
            /\ appGot' = IF app[f] = "open" THEN [appGot EXCEPT ![f] = Append(@, n)] ELSE appGot
            /\ UNCHANGED <<links, toServer, forward, registered, app, flows, sock, up, svcGot, down>>
    BY <1>5 DEF ClientData
  <2>2. toClient' \in Seq(Frame)
    BY <2>1, FramesTyped
  <2>3. appGot' \in [Flows -> Seq(Chunk)]
    BY <2>1 DEF TunnelTypeOK
  <2> QED
    BY <1>5, <2>1, <2>2, <2>3 DEF TunnelTypeOK, SocketsHaveFlows
<1>6. CASE ClientClose
  <2>1. toClient' \in Seq(Frame)
    BY <1>6, FramesTyped DEF ClientClose
  <2> QED
    BY <1>6, <2>1 DEF ClientClose, TunnelTypeOK, SocketsHaveFlows
<1>7. CASE ClientDown
  <2>1. toClient' \in Seq(Frame)
    BY <1>7 DEF ClientDown
  <2> QED
    BY <1>7, <2>1 DEF ClientDown, TunnelTypeOK, SocketsHaveFlows
<1>8. CASE ServerData
  <2>1. PICK f \in Flows, n \in Chunk :
            /\ ServerTakes(Data(f, n))
            /\ IF flows[f] # NoSocket THEN WriteFlow(f, n)
               ELSE \/ (n = 1 \/ Collide) /\ OpenFlow(f, n)
                    \/ (n # 1 \/ ~registered) /\ RefuseFlow(f)
            /\ UNCHANGED <<links, forward, registered, app, up, down, appGot>>
    BY <1>8 DEF ServerData
  <2>2. toServer' \in Seq(Frame)
    BY <2>1, FramesTyped
  <2>3. CASE flows[f] # NoSocket /\ WriteFlow(f, n)
    <3>1. flows[f] \in Socks /\ sock[flows[f]] \in Sock
      BY <2>3 DEF TunnelTypeOK
    <3>2. /\ UNCHANGED <<toClient, flows>>
          /\ \/ svcGot' = [svcGot EXCEPT ![f] = Append(@, n)] /\ UNCHANGED sock
             \/ /\ sock' = [sock EXCEPT ![flows[f]].written = Append(@, n)]
                /\ UNCHANGED svcGot
             \/ UNCHANGED <<sock, svcGot>>
      BY <2>3, <3>1 DEF WriteFlow
    <3>3. Append(svcGot[f], n) \in Seq(Chunk)
      BY DEF TunnelTypeOK
    <3>4. svcGot' \in [Flows -> Seq(Chunk)]
      BY <3>2, <3>3 DEF TunnelTypeOK
    <3>5. sock' \in [Socks -> Sock]
      BY <3>1, <3>2, WrittenSocket DEF TunnelTypeOK
    <3>6. \A k \in Socks : sock'[k].state = sock[k].state /\ sock'[k].flow = sock[k].flow
                              /\ sock'[k].initial = sock[k].initial
      BY <3>1, <3>2, WrittenSocket
    <3> QED
      BY <2>1, <2>2, <3>2, <3>4, <3>5, <3>6 DEF TunnelTypeOK, SocketsHaveFlows
  <2>4. CASE OpenFlow(f, n)
    <3>1. PICK k \in Socks :
              /\ sock' = [sock EXCEPT ![k] = [state |-> "connecting", flow |-> f,
                                              initial |-> n, written |-> <<>>]]
              /\ flows' = [flows EXCEPT ![f] = k]
              /\ UNCHANGED <<toClient, svcGot>>
      BY <2>4 DEF OpenFlow
    <3>2. <<>> \in Seq(Chunk)
      OBVIOUS
    <3>3. sock' \in [Socks -> Sock] /\ flows' \in [Flows -> Socks \cup {NoSocket}]
      BY <3>1, <3>2 DEF TunnelTypeOK, Sock
    <3>4. SocketsHaveFlows'
      BY <3>1 DEF SocketsHaveFlows, TunnelTypeOK
    <3> QED
      BY <2>1, <2>2, <3>1, <3>3, <3>4 DEF TunnelTypeOK
  <2>5. CASE RefuseFlow(f)
    <3>1. toClient' \in Seq(Frame)
      BY <2>5, FramesTyped, FrameKinds DEF RefuseFlow
    <3> QED
      BY <2>1, <2>2, <2>5, <3>1 DEF RefuseFlow, TunnelTypeOK, SocketsHaveFlows
  <2> QED
    BY <2>1, <2>3, <2>4, <2>5
<1>9. CASE ServerClose
  <2>1. PICK f \in Flows :
            /\ ServerTakes(Close(f))
            /\ sock' = Destroyed({flows[f]})
            /\ flows' = [flows EXCEPT ![f] = NoSocket]
            /\ UNCHANGED <<links, toClient, forward, registered, app, data>>
    BY <1>9 DEF ServerClose
  <2>2. toServer' \in Seq(Frame)
    BY <2>1, FramesTyped
  <2>3. sock' \in [Socks -> Sock]
    BY <2>1, DestroyedSockets
  <2>4. flows' \in [Flows -> Socks \cup {NoSocket}]
    BY <2>1 DEF TunnelTypeOK
  <2>5. \A k \in Socks : /\ sock'[k].flow = sock[k].flow
                         /\ k # flows[f] => sock'[k] = sock[k]
                         /\ k = flows[f] => sock'[k].state = "destroyed"
    BY <2>1, DestroyedSockets
  <2>6. SocketsHaveFlows'
    <3> SUFFICES ASSUME NEW k \in Socks
                 PROVE  /\ sock'[k].state # "unused" => sock'[k].flow \in Flows
                        /\ sock'[k].state = "connecting" => sock'[k].initial \in Chunk
        BY DEF SocketsHaveFlows
    <3>1. k # NoSocket
      BY SocketAssumption
    <3>2. CASE k = flows[f]
      BY <2>5, <3>1, <3>2 DEF SocketsHaveFlows, EntriesHaveSockets
    <3>3. CASE k # flows[f]
      BY <2>5, <3>3 DEF SocketsHaveFlows
    <3> QED
      BY <3>2, <3>3
  <2> QED
    BY <2>1, <2>2, <2>3, <2>4, <2>6 DEF TunnelTypeOK
<1>10. CASE ServerDown
  <2>1. toServer' \in Seq(Frame)
    BY <1>10 DEF ServerDown
  <2>2. sock' \in [Socks -> Sock]
    BY <1>10, DestroyedSockets DEF ServerDown
  <2>3. \A k \in Socks :
            /\ sock'[k].flow = sock[k].flow
            /\ (\A f \in Flows : flows[f] # k) => sock'[k] = sock[k]
            /\ (\E f \in Flows : flows[f] = k) => sock'[k].state = "destroyed"
    BY <1>10, DestroyedSockets DEF ServerDown
  <2>4. SocketsHaveFlows'
    <3> SUFFICES ASSUME NEW k \in Socks
                 PROVE  /\ sock'[k].state # "unused" => sock'[k].flow \in Flows
                        /\ sock'[k].state = "connecting" => sock'[k].initial \in Chunk
        BY DEF SocketsHaveFlows
    <3>1. k # NoSocket
      BY SocketAssumption
    <3>2. CASE \E f \in Flows : flows[f] = k
      BY <2>3, <3>1, <3>2 DEF SocketsHaveFlows, EntriesHaveSockets
    <3>3. CASE \A f \in Flows : flows[f] # k
      BY <2>3, <3>3 DEF SocketsHaveFlows
    <3> QED
      BY <3>2, <3>3
  <2> QED
    BY <1>10, <2>1, <2>2, <2>4 DEF ServerDown, TunnelTypeOK
<1>11. ASSUME NEW k \in Socks,
              SockConnects(k) \/ ServiceWrites(k) \/ ServiceCloses(k) \/ SockClosed(k)
       PROVE  TunnelTypeOK' /\ SocketsHaveFlows'
  <2> DEFINE f == sock[k].flow
  <2>1. sock[k] \in Sock
    BY DEF TunnelTypeOK
  <2>2. f \in Flows
    BY <1>11 DEF SocketsHaveFlows, SockConnects, ServiceWrites, ServiceCloses, SockClosed
  <2>3. CASE SockConnects(k)
    <3>1. /\ sock' = [sock EXCEPT ![k] = [sock[k] EXCEPT !.state = "open", !.written = <<>>]]
          /\ svcGot' = [svcGot EXCEPT ![f] = @ \o sock[k].written \o <<sock[k].initial>>]
          /\ sock[k].state = "connecting"
          /\ UNCHANGED <<links, toServer, toClient, forward, registered, app, flows, up, down, appGot>>
      BY <2>1, <2>3 DEF SockConnects, Sock, TunnelTypeOK
    <3>2. sock[k].initial \in Chunk /\ sock[k].written \in Seq(Chunk) /\ svcGot[f] \in Seq(Chunk)
      BY <2>1, <2>2, <3>1 DEF SocketsHaveFlows, Sock, TunnelTypeOK
    <3>3. svcGot[f] \o sock[k].written \o <<sock[k].initial>> \in Seq(Chunk)
      BY <3>2
    <3>4. svcGot' \in [Flows -> Seq(Chunk)]
      BY <2>2, <3>1, <3>3 DEF TunnelTypeOK
    <3>5. <<>> \in Seq(Chunk)
      OBVIOUS
    <3>6. sock' \in [Socks -> Sock]
      BY <2>1, <3>1, <3>5 DEF TunnelTypeOK, Sock
    <3>7. SocketsHaveFlows'
      BY <2>1, <2>2, <3>1 DEF SocketsHaveFlows, TunnelTypeOK, Sock
    <3> QED
      BY <3>1, <3>4, <3>6, <3>7 DEF TunnelTypeOK
  <2>4. CASE ServiceWrites(k)
    <3>1. down[f] + 1 \in Chunk /\ down' \in [Flows -> Nat]
      BY <2>2, <2>4, TunnelAssumption DEF ServiceWrites, TunnelTypeOK, Chunk
    <3>2. toClient' \in Seq(Frame)
      BY <2>2, <2>4, <3>1, FramesTyped, FrameKinds DEF ServiceWrites
    <3> QED
      BY <2>4, <3>1, <3>2 DEF ServiceWrites, TunnelTypeOK, SocketsHaveFlows
  <2>5. CASE ServiceCloses(k)
    <3>1. sock' \in [Socks -> Sock]
      BY <2>5, DestroyedSockets DEF ServiceCloses
    <3>2. SocketsHaveFlows'
      BY <2>2, <2>5, DestroyedSockets DEF ServiceCloses, SocketsHaveFlows
    <3> QED
      BY <2>5, <3>1, <3>2 DEF ServiceCloses, TunnelTypeOK
  <2>6. CASE SockClosed(k)
    <3>1. UnusedSock \in Sock /\ UnusedSock.state = "unused"
      BY DEF UnusedSock, Sock
    <3>2. sock' \in [Socks -> Sock]
      BY <2>6, <3>1 DEF SockClosed, TunnelTypeOK
    <3>3. toClient' \in Seq(Frame)
      BY <2>2, <2>6, FramesTyped, FrameKinds DEF SockClosed, TunnelTypeOK
    <3>4. flows' \in [Flows -> Socks \cup {NoSocket}]
      BY <2>6 DEF SockClosed, TunnelTypeOK
    <3>5. SocketsHaveFlows'
      BY <2>6, <3>1 DEF SockClosed, SocketsHaveFlows, TunnelTypeOK
    <3> QED
      BY <2>6, <3>2, <3>3, <3>4, <3>5 DEF SockClosed, TunnelTypeOK
  <2> QED
    BY <1>11, <2>3, <2>4, <2>5, <2>6
<1> QED
  BY <1>1, <1>2, <1>3, <1>4, <1>5, <1>6, <1>7, <1>8, <1>9, <1>10, <1>11
     DEF TunnelNext, ClientStep, ServerStep

\* What a step does to the Map and to the sockets of its flows.
LEMMA EntriesStep ==
    ASSUME TunnelTypeOK, SocketsHaveFlows, EntriesHaveSockets, [TunnelNext]_tunnelVars
    PROVE  EntriesHaveSockets'
<1> USE DEF links, data
<1>1. ASSUME flows' = flows,
             \A k \in Socks : sock'[k].flow = sock[k].flow
                                 /\ (sock[k].state # "unused" => sock'[k].state # "unused")
      PROVE  EntriesHaveSockets'
  BY <1>1 DEF EntriesHaveSockets, TunnelTypeOK
<1>2. CASE UNCHANGED <<flows, sock>>
  BY <1>1, <1>2
<1>3. CASE ServerData /\ ~UNCHANGED <<flows, sock>>
  <2>1. PICK f \in Flows, n \in Chunk :
            IF flows[f] # NoSocket THEN WriteFlow(f, n) ELSE OpenFlow(f, n)
    BY <1>3 DEF ServerData, RefuseFlow
  <2>2. CASE flows[f] # NoSocket
    <3>1. WriteFlow(f, n) /\ flows[f] \in Socks /\ sock[flows[f]] \in Sock
      BY <2>1, <2>2 DEF TunnelTypeOK
    <3>2. /\ flows' = flows
          /\ \/ UNCHANGED sock
             \/ sock' = [sock EXCEPT ![flows[f]].written = Append(@, n)]
      BY <3>1 DEF WriteFlow
    <3>3. \A k \in Socks : sock'[k].flow = sock[k].flow /\ sock'[k].state = sock[k].state
      BY <3>1, <3>2, WrittenSocket
    <3> QED
      BY <1>1, <3>2, <3>3
  <2>3. CASE flows[f] = NoSocket
    <3>1. PICK k \in Socks :
              /\ sock[k].state = "unused"
              /\ sock' = [sock EXCEPT ![k] = [state |-> "connecting", flow |-> f,
                                              initial |-> n, written |-> <<>>]]
              /\ flows' = [flows EXCEPT ![f] = k]
      BY <2>1, <2>3 DEF OpenFlow
    <3>2. \A g \in Flows : g # f => flows'[g] = flows[g] /\ (flows[g] # NoSocket => flows[g] # k)
      BY <3>1 DEF EntriesHaveSockets, TunnelTypeOK
    <3> QED
      BY <3>1, <3>2 DEF EntriesHaveSockets, TunnelTypeOK
  <2> QED
    BY <2>2, <2>3
<1>4. CASE ServerClose
  <2>1. PICK f \in Flows : sock' = Destroyed({flows[f]}) /\ flows' = [flows EXCEPT ![f] = NoSocket]
    BY <1>4 DEF ServerClose
  <2>2. \A k \in Socks : k # flows[f] => sock'[k] = sock[k]
    BY <2>1, DestroyedSockets
  <2>3. \A g \in Flows : flows'[g] # NoSocket => g # f /\ flows'[g] = flows[g]
    BY <2>1 DEF TunnelTypeOK
  <2>4. \A g \in Flows : g # f /\ flows[g] # NoSocket => flows[g] # flows[f]
    BY DEF EntriesHaveSockets
  <2>5. \A g \in Flows : flows'[g] # NoSocket =>
            flows'[g] = flows[g] /\ sock'[flows[g]] = sock[flows[g]]
    BY <2>2, <2>3, <2>4 DEF TunnelTypeOK
  <2> QED
    BY <2>5 DEF EntriesHaveSockets
<1>5. CASE ServerDown
  BY <1>5 DEF ServerDown, EntriesHaveSockets
<1>6. ASSUME NEW k \in Socks, SockConnects(k)
      PROVE  EntriesHaveSockets'
  <2>1. sock' = [sock EXCEPT ![k] = [sock[k] EXCEPT !.state = "open", !.written = <<>>]]
    BY <1>6 DEF SockConnects, TunnelTypeOK, Sock
  <2> QED
    BY <1>1, <1>6, <2>1 DEF SockConnects, TunnelTypeOK, Sock
<1>7. ASSUME NEW k \in Socks, ServiceCloses(k)
      PROVE  EntriesHaveSockets'
  BY <1>1, <1>7, DestroyedSockets DEF ServiceCloses, TunnelTypeOK
<1>8. ASSUME NEW k \in Socks, SockClosed(k)
      PROVE  EntriesHaveSockets'
  <2>1. sock[k].flow \in Flows /\ sock' = [sock EXCEPT ![k] = UnusedSock]
    BY <1>8 DEF SockClosed, SocketsHaveFlows
  <2>2. \A g \in Flows : flows'[g] # NoSocket => flows'[g] = flows[g] /\ flows[g] # k
    BY <1>8, <2>1 DEF SockClosed, EntriesHaveSockets, TunnelTypeOK
  <2> QED
    BY <2>1, <2>2 DEF EntriesHaveSockets, TunnelTypeOK
<1> QED
  BY <1>2, <1>3, <1>4, <1>5, <1>6, <1>7, <1>8
     DEF TunnelNext, ClientStep, ServerStep, PfOpen, PfOpenAck, AppConnects, AppWrites,
         AppCloses, ClientData, ClientClose, ClientDown, ServiceWrites, tunnelVars

LEMMA TunnelTypesAlways == TunnelSpec => [](TunnelTypeOK /\ SocketsHaveFlows /\ EntriesHaveSockets)
BY TunnelInitTypes, TunnelTypesStep, EntriesStep, PTL DEF TunnelSpec

\* Type correctness of the port forward.
THEOREM TunnelTypeCorrect == TunnelSpec => []TunnelTypeOK
BY TunnelTypesAlways, PTL

-----------------------------------------------------------------------------
(* The tunnel: a service socket is reachable as long as it lives.          *)

\* Frame m names flow f.
Names(m, f) == m.kind \in {"data", "close"} /\ m.flow = f

\* Flow f is over: its application is gone and no frame names it any more.
Over(f) ==
    /\ app[f] = "gone"
    /\ \A i \in 1..Len(toServer) : ~Names(toServer[i], f)

\* An application that closes is gone, and its PF_CLOSE is its last frame.
CloseIsLast ==
    \A f \in Flows : \A i \in 1..Len(toServer) :
        toServer[i] = Close(f) =>
            /\ app[f] = "gone"
            /\ \A j \in 1..Len(toServer) : i < j => ~Names(toServer[j], f)

\* A socket in use is the one its flow has in the Map, or it is destroyed and
\* no frame can put another one there before its 'close' event.
SocketsHeld ==
    \A k \in Socks :
        sock[k].state # "unused" =>
            \/ flows[sock[k].flow] = k
            \/ /\ flows[sock[k].flow] = NoSocket
               /\ sock[k].state = "destroyed"
               /\ serverUp => Over(sock[k].flow)

TunnelInv ==
    /\ TunnelTypeOK
    /\ SocketsHaveFlows
    /\ EntriesHaveSockets
    /\ CloseIsLast
    /\ SocketsHeld

\* What a step may do to the frames on their way to the peer: none is added
\* but by an application that is open.
LEMMA RequestsStep ==
    ASSUME TunnelTypeOK, [TunnelNext]_tunnelVars
    PROVE  /\ serverUp' => serverUp
           /\ \A g \in Flows : app[g] = "gone" => app'[g] = "gone"
           /\ \/ toServer' = toServer /\ up' = up
              \/ toServer' = <<>> /\ up' = up
              \/ toServer # <<>> /\ toServer' = Tail(toServer) /\ up' = up
              \/ \E f \in Flows :
                    /\ app[f] = "open"
                    /\ toServer' = Append(toServer, Close(f))
                    /\ app'[f] = "gone"
                    /\ up' = up
              \/ \E f \in Flows :
                    /\ app[f] = "open"
                    /\ up[f] < MaxChunks
                    /\ up' = [up EXCEPT ![f] = @ + 1]
                    /\ toServer' \in {toServer, Append(toServer, Data(f, up[f] + 1))}
<1> USE DEF links, data
<1>1. CASE UNCHANGED tunnelVars
  BY <1>1 DEF tunnelVars
<1>2. CASE PfOpen \/ ServerData \/ ServerClose
  BY <1>2 DEF PfOpen, ServerData, ServerClose, ServerTakes
<1>3. CASE PfOpenAck \/ ClientData \/ ClientClose \/ ClientDown
  <2>1. UNCHANGED <<serverUp, toServer, up>>
    BY <1>3 DEF PfOpenAck, ClientData, ClientClose, ClientDown
  <2>2. \A g \in Flows : app[g] = "gone" => app'[g] = "gone"
    BY <1>3 DEF PfOpenAck, ClientData, ClientClose, ClientDown, TunnelTypeOK
  <2> QED
    BY <2>1, <2>2
<1>4. CASE ServerDown
  BY <1>4 DEF ServerDown
<1>5. ASSUME NEW f \in Flows, AppConnects(f)
      PROVE  /\ UNCHANGED <<serverUp, toServer, up>>
             /\ \A g \in Flows : app[g] = "gone" => app'[g] = "gone"
  BY <1>5 DEF AppConnects, TunnelTypeOK
<1>6. ASSUME NEW f \in Flows, AppWrites(f)
      PROVE  /\ UNCHANGED <<serverUp, app>> /\ app[f] = "open" /\ up[f] < MaxChunks
             /\ up' = [up EXCEPT ![f] = @ + 1]
             /\ toServer' \in {toServer, Append(toServer, Data(f, up[f] + 1))}
  BY <1>6 DEF AppWrites, ClientSends
<1>7. ASSUME NEW f \in Flows, AppCloses(f)
      PROVE  /\ UNCHANGED <<serverUp, up>> /\ app[f] = "open" /\ app'[f] = "gone"
             /\ \A g \in Flows : app[g] = "gone" => app'[g] = "gone"
             /\ toServer' \in {toServer, Append(toServer, Close(f))}
  BY <1>7 DEF AppCloses, ClientSends, TunnelTypeOK
<1>8. ASSUME NEW k \in Socks,
             SockConnects(k) \/ ServiceWrites(k) \/ ServiceCloses(k) \/ SockClosed(k)
      PROVE  UNCHANGED <<serverUp, toServer, app, up>>
  BY <1>8 DEF SockConnects, ServiceWrites, ServiceCloses, SockClosed
<1>9. CASE \E f \in Flows : AppConnects(f)
  BY <1>5, <1>9
<1>10. CASE \E f \in Flows : AppWrites(f)
  BY <1>6, <1>10
<1>11. CASE \E f \in Flows : AppCloses(f)
  BY <1>7, <1>11
<1>12. CASE \E k \in Socks :
              SockConnects(k) \/ ServiceWrites(k) \/ ServiceCloses(k) \/ SockClosed(k)
  BY <1>8, <1>12
<1> QED
  BY <1>1, <1>2, <1>3, <1>4, <1>9, <1>10, <1>11, <1>12 DEF TunnelNext, ClientStep, ServerStep

\* A flow that is over stays over, and the close of a flow stays its last frame.
LEMMA CloseIsLastStep ==
    ASSUME TunnelTypeOK, CloseIsLast, [TunnelNext]_tunnelVars
    PROVE  CloseIsLast' /\ \A f \in Flows : Over(f) => Over(f)'
<1>1. toServer \in Seq(Frame)
  BY DEF TunnelTypeOK
<1>2. \A g \in Flows : app[g] = "gone" => app'[g] = "gone"
  BY RequestsStep
<1>3. CASE toServer' = toServer
  BY <1>2, <1>3 DEF CloseIsLast, Over
<1>4. CASE toServer' = <<>>
  BY <1>2, <1>4 DEF CloseIsLast, Over
<1>5. CASE toServer # <<>> /\ toServer' = Tail(toServer)
  <2>1. \A i \in 1..Len(toServer') : i + 1 \in 1..Len(toServer) /\ toServer'[i] = toServer[i + 1]
    BY <1>1, <1>5, TailShape
  <2>2. \A i, j \in 1..Len(toServer') : i < j => i + 1 < j + 1
    BY <1>1, <1>5
  <2> QED
    BY <1>2, <2>1, <2>2 DEF CloseIsLast, Over
<1>6. ASSUME NEW f \in Flows, NEW m \in Frame, app[f] = "open", Names(m, f),
             m = Close(f) => app'[f] = "gone", toServer' = Append(toServer, m)
      PROVE  CloseIsLast' /\ \A g \in Flows : Over(g) => Over(g)'
  <2>1. /\ \A i \in 1..Len(toServer') :
              \/ i \in 1..Len(toServer) /\ toServer'[i] = toServer[i]
              \/ i = Len(toServer) + 1 /\ toServer'[i] = m
        /\ Len(toServer') = Len(toServer) + 1
    BY <1>1, <1>6, AppendShape
  <2>2. \A g \in Flows : Names(m, g) => g = f
    BY <1>6 DEF Names
  <2>3. \A g \in Flows : Over(g) => Over(g)'
    BY <1>2, <1>6, <2>1, <2>2 DEF Over
  <2>4. ASSUME NEW g \in Flows, NEW i \in 1..Len(toServer'), toServer'[i] = Close(g)
        PROVE  app'[g] = "gone" /\ \A j \in 1..Len(toServer') : i < j => ~Names(toServer'[j], g)
    <3>1. CASE i \in 1..Len(toServer) /\ toServer'[i] = toServer[i]
      <4>1. app[g] = "gone" /\ \A j \in 1..Len(toServer) : i < j => ~Names(toServer[j], g)
        BY <2>4, <3>1 DEF CloseIsLast
      <4>2. g # f
        BY <1>6, <4>1
      <4> QED
        BY <1>2, <2>1, <2>2, <4>1, <4>2
    <3>2. CASE i = Len(toServer) + 1 /\ toServer'[i] = m
      <4>1. m = Close(g) /\ Names(m, g)
        BY <2>4, <3>2, FrameKinds DEF Names
      <4>2. g = f /\ app'[g] = "gone"
        BY <1>6, <2>2, <4>1
      <4>3. \A j \in 1..Len(toServer') : ~(i < j)
        BY <1>1, <2>1, <3>2
      <4> QED
        BY <4>2, <4>3
    <3> QED
      BY <2>1, <3>1, <3>2
  <2> QED
    BY <2>3, <2>4 DEF CloseIsLast
<1>7. \A f \in Flows : Names(Close(f), f) /\ Close(f) \in Frame
  BY FrameKinds DEF Names
<1>8. \A f \in Flows : app[f] = "open" /\ up[f] < MaxChunks =>
        /\ Names(Data(f, up[f] + 1), f) /\ Data(f, up[f] + 1) \in Frame
        /\ Data(f, up[f] + 1) # Close(f)
  <2>1. \A f \in Flows : up[f] < MaxChunks => up[f] + 1 \in Chunk
    BY TunnelAssumption DEF TunnelTypeOK, Chunk
  <2>2. \A f \in Flows, n \in Chunk :
           Names(Data(f, n), f) /\ Data(f, n) \in Frame /\ Data(f, n) # Close(f)
    BY FrameKinds DEF Names
  <2> QED
    BY <2>1, <2>2
<1> QED
  BY <1>3, <1>4, <1>5, <1>6, <1>7, <1>8, RequestsStep

\* A destroyed socket that is not in the Map stays so until its 'close'.
LEMMA SocketsKept ==
    ASSUME TunnelInv, [TunnelNext]_tunnelVars, flows' = flows,
           \A k \in Socks :
               /\ sock'[k].flow = sock[k].flow
               /\ sock'[k].state # "unused" => sock[k].state # "unused"
               /\ sock[k].state = "destroyed" => sock'[k].state = "destroyed"
    PROVE  SocketsHeld'
<1>1. \A k \in Socks : sock[k].state # "unused" => sock[k].flow \in Flows
  BY DEF TunnelInv, SocketsHaveFlows
<1>2. (serverUp' => serverUp) /\ \A f \in Flows : Over(f) => Over(f)'
  BY RequestsStep, CloseIsLastStep DEF TunnelInv
<1> QED
  BY <1>1, <1>2 DEF TunnelInv, SocketsHeld

LEMMA SocketsHeldStep ==
    ASSUME TunnelInv, [TunnelNext]_tunnelVars
    PROVE  SocketsHeld'
<1> USE DEF links, data
<1>1. TunnelTypeOK /\ SocketsHaveFlows /\ EntriesHaveSockets /\ CloseIsLast /\ SocketsHeld
  BY DEF TunnelInv
<1>2. (serverUp' => serverUp) /\ \A f \in Flows : Over(f) => Over(f)'
  BY <1>1, RequestsStep, CloseIsLastStep
<1>3. CASE UNCHANGED <<flows, sock>>
  BY <1>3, SocketsKept
<1>4. CASE ServerData /\ ~UNCHANGED <<flows, sock>>
  <2>1. PICK f \in Flows, n \in Chunk :
            /\ ServerTakes(Data(f, n))
            /\ IF flows[f] # NoSocket THEN WriteFlow(f, n) ELSE OpenFlow(f, n)
    BY <1>4 DEF ServerData, RefuseFlow
  <2>2. CASE flows[f] # NoSocket
    <3>1. WriteFlow(f, n) /\ flows[f] \in Socks
      BY <1>1, <2>1, <2>2 DEF TunnelTypeOK
    <3>2. /\ flows' = flows
          /\ \/ UNCHANGED sock
             \/ sock' = [sock EXCEPT ![flows[f]].written = Append(@, n)]
      BY <3>1 DEF WriteFlow
    <3>3. \A k \in Socks : sock'[k].flow = sock[k].flow /\ sock'[k].state = sock[k].state
      BY <1>1, <3>1, <3>2, WrittenSocket
    <3> QED
      BY <3>2, <3>3, SocketsKept
  <2>3. CASE flows[f] = NoSocket
    <3>1. PICK k \in Socks :
              /\ sock[k].state = "unused"
              /\ sock' = [sock EXCEPT ![k] = [state |-> "connecting", flow |-> f,
                                              initial |-> n, written |-> <<>>]]
              /\ flows' = [flows EXCEPT ![f] = k]
      BY <2>1, <2>3 DEF OpenFlow
    <3>2. serverUp /\ 1 \in 1..Len(toServer) /\ Names(toServer[1], f)
      BY <1>1, <2>1, TailShape, FrameKinds DEF ServerTakes, Names, TunnelTypeOK
    <3>3. \A j \in Socks : sock[j].state # "unused" => sock[j].flow # f
      BY <1>1, <2>3, <3>2, SocketAssumption DEF SocketsHeld, Over
    <3>4. sock'[k].flow = f /\ flows'[f] = k
      BY <1>1, <3>1 DEF TunnelTypeOK
    <3>5. \A j \in Socks : j # k => sock'[j] = sock[j]
      BY <1>1, <3>1 DEF TunnelTypeOK
    <3>6. \A g \in Flows : g # f => flows'[g] = flows[g]
      BY <1>1, <3>1 DEF TunnelTypeOK
    <3> QED
      BY <1>1, <1>2, <3>3, <3>4, <3>5, <3>6 DEF SocketsHeld, SocketsHaveFlows
  <2> QED
    BY <2>2, <2>3
<1>5. CASE ServerClose
  <2>1. PICK f \in Flows :
            /\ ServerTakes(Close(f))
            /\ sock' = Destroyed({flows[f]})
            /\ flows' = [flows EXCEPT ![f] = NoSocket]
            /\ app' = app
    BY <1>5 DEF ServerClose
  <2>2. /\ toServer \in Seq(Frame) /\ 1 \in 1..Len(toServer) /\ toServer[1] = Close(f)
        /\ \A i \in 1..Len(toServer') : i + 1 \in 1..Len(toServer) /\ toServer'[i] = toServer[i + 1]
    BY <1>1, <2>1, TailShape DEF ServerTakes, TunnelTypeOK
  <2>3. app[f] = "gone" /\ \A j \in 1..Len(toServer) : 1 < j => ~Names(toServer[j], f)
    BY <1>1, <2>2 DEF CloseIsLast
  <2>4. \A i \in 1..Len(toServer') : i + 1 > 1
    OBVIOUS
  <2>5. Over(f)'
    BY <2>1, <2>2, <2>3, <2>4 DEF Over
  <2>6. \A k \in Socks : /\ sock'[k].flow = sock[k].flow
                         /\ k # flows[f] => sock'[k] = sock[k]
                         /\ k = flows[f] => sock'[k].state = "destroyed"
    BY <1>1, <2>1, DestroyedSockets
  <2>7. flows'[f] = NoSocket /\ \A g \in Flows : g # f => flows'[g] = flows[g]
    BY <1>1, <2>1 DEF TunnelTypeOK
  <2> SUFFICES ASSUME NEW k \in Socks, sock'[k].state # "unused"
               PROVE  \/ flows'[sock'[k].flow] = k
                      \/ /\ flows'[sock'[k].flow] = NoSocket
                         /\ sock'[k].state = "destroyed"
                         /\ serverUp' => Over(sock[k].flow)'
      BY DEF SocketsHeld
  <2>8. k # NoSocket
    BY SocketAssumption
  <2>9. sock[k].state # "unused" /\ sock[k].flow \in Flows
    BY <1>1, <2>6, <2>8 DEF EntriesHaveSockets, SocketsHaveFlows
  <2>10. \/ flows[sock[k].flow] = k
         \/ /\ flows[sock[k].flow] = NoSocket
            /\ sock[k].state = "destroyed"
            /\ serverUp => Over(sock[k].flow)
    BY <1>1, <2>9 DEF SocketsHeld
  <2>11. CASE sock[k].flow = f
    BY <2>5, <2>6, <2>7, <2>10, <2>11
  <2>12. CASE sock[k].flow # f
    <3>1. k # flows[f]
      BY <1>1, <2>8, <2>12 DEF EntriesHaveSockets
    <3> QED
      BY <1>2, <2>6, <2>7, <2>9, <2>10, <2>12, <3>1
  <2> QED
    BY <2>11, <2>12
<1>6. CASE ServerDown
  <2>1. ~serverUp' /\ \A g \in Flows : flows'[g] = NoSocket
    BY <1>6 DEF ServerDown
  <2>2. \A k \in Socks :
            /\ sock'[k].flow = sock[k].flow
            /\ (\A f \in Flows : flows[f] # k) => sock'[k] = sock[k]
            /\ (\E f \in Flows : flows[f] = k) => sock'[k].state = "destroyed"
    BY <1>1, <1>6, DestroyedSockets DEF ServerDown
  <2> SUFFICES ASSUME NEW k \in Socks, sock'[k].state # "unused"
               PROVE  flows'[sock'[k].flow] = NoSocket /\ sock'[k].state = "destroyed"
      BY <2>1 DEF SocketsHeld
  <2>3. k # NoSocket
    BY SocketAssumption
  <2>4. sock[k].state # "unused" /\ sock[k].flow \in Flows
    BY <1>1, <2>2, <2>3 DEF EntriesHaveSockets, SocketsHaveFlows
  <2> QED
    BY <1>1, <2>1, <2>2, <2>4 DEF SocketsHeld
<1>7. ASSUME NEW k \in Socks, SockConnects(k)
      PROVE  SocketsHeld'
  <2>1. sock' = [sock EXCEPT ![k] = [sock[k] EXCEPT !.state = "open", !.written = <<>>]]
    BY <1>1, <1>7 DEF SockConnects, TunnelTypeOK, Sock
  <2> QED
    BY <1>1, <1>7, <2>1, SocketsKept DEF SockConnects, TunnelTypeOK, Sock
<1>8. ASSUME NEW k \in Socks, ServiceCloses(k)
      PROVE  SocketsHeld'
  <2>1. \A j \in Socks : /\ sock'[j].flow = sock[j].flow
                         /\ j # k => sock'[j] = sock[j]
                         /\ j = k => sock'[j].state = "destroyed"
    BY <1>1, <1>8, DestroyedSockets DEF ServiceCloses
  <2> QED
    BY <1>8, <2>1, SocketsKept DEF ServiceCloses
<1>9. ASSUME NEW k \in Socks, SockClosed(k)
      PROVE  SocketsHeld'
  <2> DEFINE f == sock[k].flow
  <2>1. f \in Flows /\ sock' = [sock EXCEPT ![k] = UnusedSock] /\ sock[k].state = "destroyed"
    BY <1>1, <1>9 DEF SockClosed, SocketsHaveFlows
  <2>2. /\ sock'[k].state = "unused"
        /\ \A j \in Socks : j # k => sock'[j] = sock[j]
    BY <1>1, <2>1 DEF TunnelTypeOK, UnusedSock
  <2>3. /\ flows[f] = NoSocket => flows' = flows
        /\ flows[f] # NoSocket =>
              flows[f] = k /\ \A g \in Flows : g # f => flows'[g] = flows[g]
    BY <1>1, <1>9, <2>1 DEF SockClosed, SocketsHeld, TunnelTypeOK
  <2>4. CASE flows[f] = NoSocket
    BY <1>1, <1>2, <2>2, <2>3, <2>4 DEF SocketsHeld, SocketsHaveFlows
  <2>5. CASE flows[f] # NoSocket
    <3>1. \A j \in Socks : j # k /\ sock[j].state # "unused" => sock[j].flow # f
      BY <1>1, <2>3, <2>5 DEF SocketsHeld
    <3> QED
      BY <1>1, <1>2, <2>2, <2>3, <2>5, <3>1 DEF SocketsHeld, SocketsHaveFlows
  <2> QED
    BY <2>4, <2>5
<1> QED
  BY <1>3, <1>4, <1>5, <1>6, <1>7, <1>8, <1>9
     DEF TunnelNext, ClientStep, ServerStep, PfOpen, PfOpenAck, AppConnects, AppWrites,
         AppCloses, ClientData, ClientClose, ClientDown, ServiceWrites, tunnelVars

LEMMA TunnelInvAlways == TunnelSpec => []TunnelInv
<1>1. TunnelInit => TunnelInv
  <2> SUFFICES ASSUME TunnelInit
               PROVE  TunnelInv
      OBVIOUS
  <2>1. CloseIsLast /\ SocketsHeld
    BY DEF TunnelInit, CloseIsLast, SocketsHeld, Close, UnusedSock
  <2> QED
    BY <2>1, TunnelInitTypes DEF TunnelInv
<1>2. TunnelInv /\ [TunnelNext]_tunnelVars => TunnelInv'
  BY TunnelTypesStep, EntriesStep, CloseIsLastStep, SocketsHeldStep DEF TunnelInv
<1> QED
  BY <1>1, <1>2, PTL DEF TunnelSpec

\* No connection to the service lingers that nothing can close any more, for
\* any number of flows and sockets and whatever the payload looks like.
THEOREM TunnelSocketsReachable == TunnelSpec => []SocketReachable
<1>1. TunnelInv => SocketReachable
  BY DEF TunnelInv, SocketsHeld, SocketReachable
<1> QED
  BY <1>1, TunnelInvAlways, PTL

-----------------------------------------------------------------------------
(* The tunnel: chunks come out in order.                                   *)

IsData(m, f) == m.kind = "data" /\ m.flow = f

\* Queue q and what came out of it before, s: the data of flow f in q rises,
\* all of it comes after the chunks in s, and none is beyond chunk n.
Piped(s, q, f, n) ==
    /\ \A i \in 1..Len(q) : IsData(q[i], f) => q[i].chunk <= n
    /\ \A i, j \in 1..Len(q) :
           i < j /\ IsData(q[i], f) /\ IsData(q[j], f) => q[i].chunk < q[j].chunk
    /\ \A a \in 1..Len(s) : s[a] <= n
    /\ \A a \in 1..Len(s), i \in 1..Len(q) : IsData(q[i], f) => s[a] < q[i].chunk

Climbs(s) == \A a, b \in 1..Len(s) : a < b => s[a] < s[b]

\* Only chunk 1 may come behind a greater one, and none comes twice.
FirstMayWait(s) ==
    \A a, b \in 1..Len(s) : a < b => s[a] # s[b] /\ (s[a] < s[b] \/ s[b] = 1)

\* What happens to a queue: its first frame is taken, it is cleared, or a frame
\* is added, whose chunk, if it is of flow f, is beyond n.
QueueMoves(q, r, f, n, n2) ==
    \/ r = q
    \/ r = <<>>
    \/ q # <<>> /\ r = Tail(q)
    \/ \E m \in Frame :
          /\ r = Append(q, m)
          /\ IsData(m, f) => n < m.chunk /\ m.chunk <= n2

LEMMA DataChunks ==
    ASSUME NEW m \in Frame, NEW f, IsData(m, f)
    PROVE  m.chunk \in Nat /\ m.chunk >= 1 /\ m.chunk \in Chunk
BY TunnelAssumption, FrameKinds DEF IsData, Chunk

LEMMA ChunksNat ==
    ASSUME NEW s \in Seq(Chunk)
    PROVE  \A a \in 1..Len(s) : s[a] \in Nat /\ s[a] >= 1 /\ s[a] \in Chunk
BY TunnelAssumption DEF Chunk

LEMMA PipedMoves ==
    ASSUME NEW q \in Seq(Frame), NEW r, NEW s \in Seq(Chunk), NEW f,
           NEW n \in Nat, NEW n2 \in Nat, n <= n2,
           Piped(s, q, f, n), QueueMoves(q, r, f, n, n2)
    PROVE  Piped(s, r, f, n2)
<1>1. \A a \in 1..Len(s) : s[a] \in Nat
  BY ChunksNat
<1>2. \A i \in 1..Len(q) : q[i] \in Frame
  OBVIOUS
<1>3. \A i \in 1..Len(q) : IsData(q[i], f) => q[i].chunk \in Nat
  BY <1>2, DataChunks
<1>4. \A a \in 1..Len(s) : s[a] <= n2
  BY <1>1 DEF Piped
<1>5. CASE r = q
  BY <1>1, <1>3, <1>4, <1>5 DEF Piped
<1>6. CASE r = <<>>
  BY <1>4, <1>6 DEF Piped
<1>7. CASE q # <<>> /\ r = Tail(q)
  <2>1. \A i \in 1..Len(r) : i + 1 \in 1..Len(q) /\ r[i] = q[i + 1]
    BY <1>7, TailShape
  <2>2. \A i, j \in 1..Len(r) : i < j => i + 1 < j + 1
    BY <1>7
  <2>3. \A i \in 1..Len(r) : IsData(r[i], f) => r[i].chunk <= n2
    BY <1>3, <2>1 DEF Piped
  <2> QED
    BY <1>4, <2>1, <2>2, <2>3 DEF Piped
<1>8. ASSUME NEW m \in Frame, r = Append(q, m),
             IsData(m, f) => n < m.chunk /\ m.chunk <= n2
      PROVE  Piped(s, r, f, n2)
  <2>1. /\ \A i \in 1..Len(r) : \/ i \in 1..Len(q) /\ r[i] = q[i]
                                \/ i = Len(q) + 1 /\ r[i] = m
        /\ Len(q) \in Nat /\ Len(r) = Len(q) + 1
    BY <1>8, AppendShape
  <2>2. IsData(m, f) => m.chunk \in Nat
    BY DataChunks
  <2>3. \A i \in 1..Len(r) : IsData(r[i], f) => r[i].chunk <= n2
    BY <1>3, <1>8, <2>1 DEF Piped
  <2>4. \A a \in 1..Len(s), i \in 1..Len(r) : IsData(r[i], f) => s[a] < r[i].chunk
    BY <1>1, <1>8, <2>1, <2>2 DEF Piped
  <2>5. ASSUME NEW i \in 1..Len(r), NEW j \in 1..Len(r),
               i < j, IsData(r[i], f), IsData(r[j], f)
        PROVE  r[i].chunk < r[j].chunk
    <3>1. i \in 1..Len(q) /\ r[i] = q[i]
      BY <2>1, <2>5
    <3>2. CASE j \in 1..Len(q) /\ r[j] = q[j]
      BY <2>5, <3>1, <3>2 DEF Piped
    <3>3. CASE r[j] = m
      BY <1>3, <1>8, <2>2, <2>5, <3>1, <3>3 DEF Piped
    <3> QED
      BY <2>1, <3>2, <3>3
  <2> QED
    BY <1>4, <2>3, <2>4, <2>5 DEF Piped
<1> QED
  BY <1>5, <1>6, <1>7, <1>8 DEF QueueMoves

\* The first frame of a queue comes out after everything that did before.
LEMMA PipedTake ==
    ASSUME NEW q \in Seq(Frame), NEW s \in Seq(Chunk), NEW f, NEW c \in Chunk, NEW n \in Nat,
           q # <<>>, IsData(Head(q), f), Head(q).chunk = c, Piped(s, q, f, n)
    PROVE  /\ Piped(Append(s, c), Tail(q), f, n)
           /\ \A a \in 1..Len(s) : s[a] < c
           /\ Climbs(s) => Climbs(Append(s, c))
           /\ FirstMayWait(s) => FirstMayWait(Append(s, c))
<1> DEFINE t == Append(s, c)
<1>1. /\ \A a \in 1..Len(t) : \/ a \in 1..Len(s) /\ t[a] = s[a]
                              \/ a = Len(s) + 1 /\ t[a] = c
      /\ Len(s) \in Nat
  BY AppendShape
<1>2. c \in Nat /\ \A a \in 1..Len(s) : s[a] \in Nat
  BY TunnelAssumption, ChunksNat DEF Chunk
<1>3. /\ 1 \in 1..Len(q) /\ IsData(q[1], f) /\ q[1].chunk = c
      /\ \A i \in 1..Len(Tail(q)) : i + 1 \in 1..Len(q) /\ Tail(q)[i] = q[i + 1]
  BY TailShape
<1>4. \A a \in 1..Len(s) : s[a] < c
  BY <1>3 DEF Piped
<1>5. c <= n
  BY <1>3 DEF Piped
<1>6. QueueMoves(q, Tail(q), f, n, n) /\ n <= n
  BY DEF QueueMoves
<1>7. Piped(s, Tail(q), f, n)
  BY <1>6, PipedMoves
<1>8. \A i \in 1..Len(Tail(q)) : IsData(Tail(q)[i], f) => c < Tail(q)[i].chunk
  <2>1. \A i \in 1..Len(Tail(q)) : 1 < i + 1
    OBVIOUS
  <2> QED
    BY <1>3, <2>1 DEF Piped
<1> HIDE DEF t
<1>9. Piped(t, Tail(q), f, n)
  BY <1>1, <1>5, <1>7, <1>8 DEF Piped
<1>10. Climbs(s) => Climbs(t)
  <2> SUFFICES ASSUME Climbs(s), NEW a \in 1..Len(t), NEW b \in 1..Len(t), a < b
               PROVE  t[a] < t[b]
      BY DEF Climbs
  <2>1. a \in 1..Len(s) /\ t[a] = s[a]
    BY <1>1
  <2>2. CASE b \in 1..Len(s) /\ t[b] = s[b]
    BY <2>1, <2>2 DEF Climbs
  <2>3. CASE t[b] = c
    BY <1>4, <2>1, <2>3
  <2> QED
    BY <1>1, <2>2, <2>3
<1>11. FirstMayWait(s) => FirstMayWait(t)
  <2> SUFFICES ASSUME FirstMayWait(s), NEW a \in 1..Len(t), NEW b \in 1..Len(t), a < b
               PROVE  t[a] # t[b] /\ (t[a] < t[b] \/ t[b] = 1)
      BY DEF FirstMayWait
  <2>1. a \in 1..Len(s) /\ t[a] = s[a]
    BY <1>1
  <2>2. CASE b \in 1..Len(s) /\ t[b] = s[b]
    BY <2>1, <2>2 DEF FirstMayWait
  <2>3. CASE t[b] = c
    BY <1>2, <1>4, <2>1, <2>3
  <2> QED
    BY <1>1, <2>2, <2>3
<1> QED
  BY <1>4, <1>9, <1>10, <1>11 DEF t

-----------------------------------------------------------------------------
\* What the service writes: each chunk of it that reaches the application comes
\* after those that did before.
DownQueued ==
    \A f \in Flows : Piped(appGot[f], toClient, f, down[f]) /\ Climbs(appGot[f])

\* What a step does to the frames on their way to the application.
LEMMA AnswersStep ==
    ASSUME TunnelInv, [TunnelNext]_tunnelVars, NEW f \in Flows
    PROVE  /\ down'[f] \in {down[f], down[f] + 1}
           /\ QueueMoves(toClient, toClient', f, down[f], down'[f])
           /\ \/ appGot'[f] = appGot[f]
              \/ \E n \in Chunk :
                    /\ toClient # <<>> /\ Head(toClient) = Data(f, n)
                    /\ toClient' = Tail(toClient)
                    /\ appGot'[f] = Append(appGot[f], n)
                    /\ down' = down
<1> USE DEF links, data
<1>1. TunnelTypeOK /\ SocketsHaveFlows
  BY DEF TunnelInv
<1>2. down[f] \in Nat
  BY <1>1 DEF TunnelTypeOK
<1>3. ASSUME NEW m \in Frame, ServerSends(m), m.kind # "data"
      PROVE  QueueMoves(toClient, toClient', f, down[f], down[f])
  BY <1>3 DEF ServerSends, QueueMoves, IsData
<1>4. \A m : ClientTakes(m) => QueueMoves(toClient, toClient', f, down[f], down[f])
  BY DEF ClientTakes, QueueMoves
<1>5. QueueMoves(toClient, toClient, f, down[f], down[f])
  BY DEF QueueMoves
<1>6. CASE UNCHANGED <<toClient, down, appGot>>
  BY <1>5, <1>6
<1>7. CASE PfOpen
  BY <1>3, <1>7, FrameKinds DEF PfOpen
<1>8. CASE PfOpenAck \/ ClientClose
  BY <1>4, <1>8 DEF PfOpenAck, ClientClose
<1>9. CASE ClientDown
  BY <1>9 DEF ClientDown, QueueMoves
<1>10. CASE ClientData
  <2>1. PICK g \in Flows, n \in Chunk :
            /\ ClientTakes(Data(g, n))
            /\ appGot' = IF app[g] = "open" THEN [appGot EXCEPT ![g] = Append(@, n)] ELSE appGot
            /\ down' = down
    BY <1>10 DEF ClientData
  <2>2. appGot'[f] = appGot[f] \/ (g = f /\ appGot'[f] = Append(appGot[f], n))
    BY <1>1, <2>1 DEF TunnelTypeOK
  <2> QED
    BY <1>4, <2>1, <2>2 DEF ClientTakes
<1>11. CASE ServerData /\ ~UNCHANGED toClient
  <2>1. PICK g \in Flows : ServerSends(Close(g))
    BY <1>11 DEF ServerData, WriteFlow, OpenFlow, RefuseFlow
  <2>2. down' = down /\ appGot' = appGot
    BY <1>11 DEF ServerData
  <2> QED
    BY <1>3, <2>1, <2>2, FrameKinds
<1>12. ASSUME NEW k \in Socks, SockClosed(k)
       PROVE  /\ UNCHANGED <<down, appGot>>
              /\ QueueMoves(toClient, toClient', f, down[f], down[f])
  <2>1. sock[k].flow \in Flows /\ UNCHANGED <<down, appGot>>
    BY <1>1, <1>12 DEF SockClosed, SocketsHaveFlows
  <2>2. ServerSends(Close(sock[k].flow)) \/ toClient' = toClient
    BY <1>12 DEF SockClosed
  <2> QED
    BY <1>3, <1>5, <2>1, <2>2, FrameKinds
<1>13. ASSUME NEW k \in Socks, ServiceWrites(k)
       PROVE  /\ down'[f] \in {down[f], down[f] + 1} /\ appGot' = appGot
              /\ QueueMoves(toClient, toClient', f, down[f], down'[f])
  <2> DEFINE g == sock[k].flow
             m == Data(g, down[g] + 1)
  <2>1. /\ g \in Flows /\ down[g] < MaxChunks /\ ServerSends(m)
        /\ down' = [down EXCEPT ![g] = @ + 1] /\ appGot' = appGot
    BY <1>1, <1>13 DEF ServiceWrites, SocketsHaveFlows
  <2>2. down[g] \in Nat /\ down[g] + 1 \in Chunk
    BY <1>1, <2>1, TunnelAssumption DEF TunnelTypeOK, Chunk
  <2>3. m \in Frame /\ m.flow = g /\ m.chunk = down[g] + 1
    BY <2>1, <2>2, FrameKinds
  <2>4. down'[f] = IF f = g THEN down[f] + 1 ELSE down[f]
    BY <1>1, <2>1 DEF TunnelTypeOK
  <2>5. toClient' = toClient \/ toClient' = Append(toClient, m)
    BY <2>1 DEF ServerSends
  <2> HIDE DEF m
  <2>6. IsData(m, f) => down[f] < m.chunk /\ m.chunk <= down'[f]
    BY <1>2, <2>3, <2>4 DEF IsData
  <2> QED
    BY <2>1, <2>3, <2>4, <2>5, <2>6 DEF QueueMoves
<1>14. CASE \E k \in Socks : SockClosed(k)
  BY <1>12, <1>14
<1>15. CASE \E k \in Socks : ServiceWrites(k)
  BY <1>13, <1>15
<1> QED
  BY <1>6, <1>7, <1>8, <1>9, <1>10, <1>11, <1>14, <1>15
     DEF TunnelNext, ClientStep, ServerStep, AppConnects, AppWrites, AppCloses, ServerData,
         ServerClose, ServerDown, SockConnects, ServiceCloses, tunnelVars

LEMMA DownQueuedStep ==
    ASSUME TunnelInv, DownQueued, [TunnelNext]_tunnelVars
    PROVE  DownQueued'
<1> SUFFICES ASSUME NEW f \in Flows
             PROVE  Piped(appGot'[f], toClient', f, down'[f]) /\ Climbs(appGot'[f])
    BY DEF DownQueued
<1>1. /\ toClient \in Seq(Frame) /\ appGot[f] \in Seq(Chunk) /\ down[f] \in Nat
      /\ Piped(appGot[f], toClient, f, down[f]) /\ Climbs(appGot[f])
  BY DEF TunnelInv, TunnelTypeOK, DownQueued
<1>2. down'[f] \in Nat /\ down[f] <= down'[f]
  BY <1>1, AnswersStep
<1>3. CASE appGot'[f] = appGot[f]
  BY <1>1, <1>2, <1>3, AnswersStep, PipedMoves
<1>4. ASSUME NEW n \in Chunk, toClient # <<>>, Head(toClient) = Data(f, n),
             toClient' = Tail(toClient), appGot'[f] = Append(appGot[f], n), down' = down
      PROVE  Piped(appGot'[f], toClient', f, down'[f]) /\ Climbs(appGot'[f])
  <2>1. IsData(Head(toClient), f) /\ Head(toClient).chunk = n
    BY <1>4, FrameKinds DEF IsData
  <2> QED
    BY <1>1, <1>4, <2>1, PipedTake
<1> QED
  BY <1>3, <1>4, AnswersStep

LEMMA DownQueuedAlways == TunnelSpec => [](TunnelInv /\ DownQueued)
<1>1. TunnelInit => DownQueued
  <2> SUFFICES ASSUME TunnelInit, NEW f \in Flows
               PROVE  Piped(appGot[f], toClient, f, down[f]) /\ Climbs(appGot[f])
      BY DEF DownQueued
  <2>1. appGot[f] = <<>> /\ toClient = <<>>
    BY DEF TunnelInit
  <2> QED
    BY <2>1 DEF Piped, Climbs
<1> QED
  BY <1>1, DownQueuedStep, TunnelInvAlways, PTL DEF TunnelSpec

\* What the service writes reaches the application in order and at most once,
\* even when flows are closed and refused meanwhile: the way back of the
\* forward implements LossyFifo.
THEOREM TunnelDownRefinement == TunnelSpec => DownInOrder
<1>1. TunnelInit => Down!Init
  BY DEF TunnelInit, Down!Init
<1>2. TunnelInv /\ TunnelInv' /\ DownQueued' /\ [TunnelNext]_tunnelVars
         => [Down!Next]_(Down!vars)
  <2> SUFFICES ASSUME TunnelInv, TunnelInv', DownQueued', [TunnelNext]_tunnelVars
               PROVE  Down!Next
      OBVIOUS
  <2> SUFFICES ASSUME NEW f \in Flows
               PROVE  Down!ChanStep(f)
      BY DEF Down!Next
  <2>1. /\ down[f] \in Nat /\ appGot[f] \in Seq(Chunk) /\ appGot'[f] \in Seq(Chunk)
        /\ down'[f] \in Nat
    BY DEF TunnelInv, TunnelTypeOK
  <2>2. down'[f] >= down[f]
    BY <2>1, AnswersStep
  <2>3. Down!Extends(appGot[f], appGot'[f])
    <3>1. CASE appGot'[f] = appGot[f]
      BY <2>1, <3>1 DEF Down!Extends
    <3>2. ASSUME NEW n \in Chunk, appGot'[f] = Append(appGot[f], n)
          PROVE  Down!Extends(appGot[f], appGot'[f])
      BY <2>1, <3>2 DEF Down!Extends
    <3> QED
      BY <3>1, <3>2, AnswersStep
  <2>4. Down!InOrder(appGot'[f], down'[f])
    <3>1. \A a \in 1..Len(appGot'[f]) : appGot'[f][a] \in Nat /\ appGot'[f][a] >= 1
      BY <2>1, ChunksNat
    <3>2. \A a \in 1..Len(appGot'[f]) : appGot'[f][a] <= down'[f]
      BY DEF DownQueued, Piped
    <3>3. Climbs(appGot'[f])
      BY DEF DownQueued
    <3> QED
      BY <2>1, <3>1, <3>2, <3>3 DEF Down!InOrder, Climbs
  <2> QED
    BY <2>2, <2>3, <2>4 DEF Down!ChanStep
<1> QED
  BY <1>1, <1>2, DownQueuedAlways, PTL DEF TunnelSpec, DownInOrder, Down!Spec

-----------------------------------------------------------------------------
\* A connection that is on its way begins with chunk 1: nothing of its flow has
\* come out before it, and what waits behind it is in order.
ConnectingIsFirst ==
    \A k \in Socks :
        sock[k].state = "connecting" =>
            LET f == sock[k].flow
            IN  /\ sock[k].initial = 1
                /\ svcGot[f] = <<>>
                /\ Piped(<<1>>, toServer, f, up[f])
                /\ Piped(sock[k].written, toServer, f, up[f])
                /\ Climbs(sock[k].written)
                /\ \A a \in 1..Len(sock[k].written) : 1 < sock[k].written[a]

\* What the application writes, if no payload reads as the port: each chunk
\* that reaches the service comes after those that did before, save the first.
UpQueued ==
    /\ \A f \in Flows : Piped(svcGot[f], toServer, f, up[f]) /\ FirstMayWait(svcGot[f])
    /\ ConnectingIsFirst

\* What came out before a step came out before what is queued after it.
LEMMA UpPiped ==
    ASSUME TunnelTypeOK, [TunnelNext]_tunnelVars, NEW f \in Flows, NEW s \in Seq(Chunk),
           Piped(s, toServer, f, up[f])
    PROVE  Piped(s, toServer', f, up'[f])
<1>1. toServer \in Seq(Frame) /\ up[f] \in Nat
  BY DEF TunnelTypeOK
<1>2. CASE up' = up /\ (toServer' = toServer \/ toServer' = <<>>
                          \/ (toServer # <<>> /\ toServer' = Tail(toServer)))
  <2>1. QueueMoves(toServer, toServer', f, up[f], up[f]) /\ up[f] <= up[f]
    BY <1>1, <1>2 DEF QueueMoves
  <2> QED
    BY <1>1, <1>2, <2>1, PipedMoves
<1>3. ASSUME NEW g \in Flows, toServer' = Append(toServer, Close(g)), up' = up
      PROVE  Piped(s, toServer', f, up'[f])
  <2>1. QueueMoves(toServer, toServer', f, up[f], up[f]) /\ up[f] <= up[f]
    BY <1>1, <1>3, FrameKinds DEF QueueMoves, IsData
  <2> QED
    BY <1>1, <1>3, <2>1, PipedMoves
<1>4. ASSUME NEW g \in Flows, up[g] < MaxChunks, up' = [up EXCEPT ![g] = @ + 1],
             toServer' \in {toServer, Append(toServer, Data(g, up[g] + 1))}
      PROVE  Piped(s, toServer', f, up'[f])
  <2> DEFINE m == Data(g, up[g] + 1)
  <2>1. up[g] \in Nat /\ up[g] + 1 \in Chunk
    BY <1>4, TunnelAssumption DEF TunnelTypeOK, Chunk
  <2>2. m \in Frame /\ m.flow = g /\ m.chunk = up[g] + 1
    BY <2>1, FrameKinds
  <2>3. up'[f] = IF f = g THEN up[f] + 1 ELSE up[f]
    BY <1>4 DEF TunnelTypeOK
  <2>4. toServer' = toServer \/ toServer' = Append(toServer, m)
    BY <1>4
  <2> HIDE DEF m
  <2>5. IsData(m, f) => up[f] < m.chunk /\ m.chunk <= up'[f]
    BY <1>1, <2>2, <2>3 DEF IsData
  <2>6. QueueMoves(toServer, toServer', f, up[f], up'[f]) /\ up[f] <= up'[f] /\ up'[f] \in Nat
    BY <1>1, <2>2, <2>3, <2>4, <2>5 DEF QueueMoves
  <2> QED
    BY <1>1, <2>6, PipedMoves
<1> QED
  BY <1>2, <1>3, <1>4, RequestsStep

\* Two runs of chunks that both came out before the queue.
LEMMA PipedJoin ==
    ASSUME NEW s \in Seq(Chunk), NEW t \in Seq(Chunk), NEW q, NEW f, NEW n,
           Piped(s, q, f, n), Piped(t, q, f, n)
    PROVE  Piped(s \o t, q, f, n)
<1>1. \A a \in 1..Len(s \o t) :
          (\E b \in 1..Len(s) : (s \o t)[a] = s[b]) \/ (\E b \in 1..Len(t) : (s \o t)[a] = t[b])
  <2> SUFFICES ASSUME NEW a \in 1..Len(s \o t)
               PROVE  (\E b \in 1..Len(s) : (s \o t)[a] = s[b])
                         \/ (\E b \in 1..Len(t) : (s \o t)[a] = t[b])
      OBVIOUS
  <2>1. CASE a <= Len(s)
    BY <2>1
  <2>2. CASE a > Len(s)
    <3>1. a - Len(s) \in 1..Len(t) /\ (s \o t)[a] = t[a - Len(s)]
      BY <2>2
    <3> QED
      BY <3>1
  <2> QED
    BY <2>1, <2>2
<1> QED
  BY <1>1 DEF Piped

\* A connecting socket is the one of its flow, so a step that leaves the sockets
\* of other flows alone only concerns its own.
LEMMA ConnectingKept ==
    ASSUME TunnelInv, UpQueued, [TunnelNext]_tunnelVars, NEW k \in Socks,
           sock'[k] = sock[k], sock[k].state = "connecting",
           svcGot'[sock[k].flow] = svcGot[sock[k].flow]
    PROVE  /\ sock'[k].initial = 1
           /\ svcGot'[sock[k].flow] = <<>>
           /\ Piped(<<1>>, toServer', sock[k].flow, up'[sock[k].flow])
           /\ Piped(sock'[k].written, toServer', sock[k].flow, up'[sock[k].flow])
           /\ Climbs(sock'[k].written)
           /\ \A a \in 1..Len(sock'[k].written) : 1 < sock'[k].written[a]
<1>1. TunnelTypeOK /\ sock[k].flow \in Flows /\ sock[k].initial \in Chunk
  BY DEF TunnelInv, SocketsHaveFlows
<1>2. sock[k].written \in Seq(Chunk)
  BY <1>1 DEF TunnelTypeOK, Sock
<1>3. /\ sock[k].initial = 1 /\ svcGot[sock[k].flow] = <<>>
      /\ Piped(<<1>>, toServer, sock[k].flow, up[sock[k].flow])
      /\ Piped(sock[k].written, toServer, sock[k].flow, up[sock[k].flow])
      /\ Climbs(sock[k].written)
      /\ \A a \in 1..Len(sock[k].written) : 1 < sock[k].written[a]
  BY DEF UpQueued, ConnectingIsFirst
<1>4. <<1>> \in Seq(Chunk)
  BY <1>1, <1>3
<1> QED
  BY <1>1, <1>2, <1>3, <1>4, UpPiped

LEMMA UpQueuedStep ==
    ASSUME TunnelInv, UpQueued, ~Collide, [TunnelNext]_tunnelVars
    PROVE  UpQueued'
<1> USE DEF links, data
<1>1. TunnelTypeOK /\ SocketsHaveFlows /\ EntriesHaveSockets /\ SocketsHeld
  BY DEF TunnelInv
<1>2. \A k \in Socks : sock[k].state = "connecting" =>
          sock[k].flow \in Flows /\ flows[sock[k].flow] = k
  BY <1>1 DEF SocketsHaveFlows, SocketsHeld
<1>3. ASSUME NEW g \in Flows, svcGot'[g] = svcGot[g]
      PROVE  Piped(svcGot'[g], toServer', g, up'[g]) /\ FirstMayWait(svcGot'[g])
  BY <1>1, <1>3, UpPiped DEF UpQueued, TunnelTypeOK
<1>4. ASSUME svcGot' = svcGot,
             \A k \in Socks : sock'[k].state = "connecting" => sock'[k] = sock[k]
      PROVE  UpQueued'
  <2>1. ConnectingIsFirst'
    <3> SUFFICES ASSUME NEW k \in Socks, sock'[k].state = "connecting"
                 PROVE  /\ sock'[k].initial = 1
                        /\ svcGot'[sock'[k].flow] = <<>>
                        /\ Piped(<<1>>, toServer', sock'[k].flow, up'[sock'[k].flow])
                        /\ Piped(sock'[k].written, toServer', sock'[k].flow, up'[sock'[k].flow])
                        /\ Climbs(sock'[k].written)
                        /\ \A a \in 1..Len(sock'[k].written) : 1 < sock'[k].written[a]
        BY DEF ConnectingIsFirst
    <3>1. sock'[k] = sock[k] /\ sock[k].state = "connecting"
      BY <1>4
    <3> QED
      BY <1>4, <3>1, ConnectingKept
  <2> QED
    BY <1>3, <1>4, <2>1 DEF UpQueued
<1>5. CASE ServerData
  <2>1. PICK f \in Flows, n \in Chunk :
            /\ ServerTakes(Data(f, n))
            /\ up' = up
            /\ IF flows[f] # NoSocket THEN WriteFlow(f, n)
               ELSE (n = 1 /\ OpenFlow(f, n)) \/ RefuseFlow(f)
    BY <1>5 DEF ServerData
  <2>2. /\ toServer \in Seq(Frame) /\ svcGot[f] \in Seq(Chunk) /\ up[f] \in Nat
        /\ toServer # <<>> /\ toServer' = Tail(toServer)
        /\ IsData(Head(toServer), f) /\ Head(toServer).chunk = n
    BY <1>1, <2>1, FrameKinds DEF ServerTakes, IsData, TunnelTypeOK
  <2>3. Piped(svcGot[f], toServer, f, up[f]) /\ FirstMayWait(svcGot[f])
    BY DEF UpQueued
  <2>4. CASE flows[f] # NoSocket /\ WriteFlow(f, n)
    <3> DEFINE k == flows[f]
    <3>1. k \in Socks /\ sock[k].flow = f
      BY <1>1, <2>4 DEF TunnelTypeOK, EntriesHaveSockets
    <3>2. \/ /\ sock[k].state = "open"
             /\ svcGot' = [svcGot EXCEPT ![f] = Append(@, n)] /\ UNCHANGED sock
          \/ /\ sock[k].state = "connecting"
             /\ sock' = [sock EXCEPT ![k].written = Append(@, n)] /\ UNCHANGED svcGot
          \/ UNCHANGED <<sock, svcGot>>
      BY <2>4 DEF WriteFlow
    <3>3. CASE UNCHANGED <<sock, svcGot>>
      BY <1>4, <3>3
    <3>4. CASE /\ sock[k].state = "open"
               /\ svcGot' = [svcGot EXCEPT ![f] = Append(@, n)] /\ UNCHANGED sock
      <4>1. /\ svcGot'[f] = Append(svcGot[f], n)
            /\ \A g \in Flows : g # f => svcGot'[g] = svcGot[g]
        BY <1>1, <3>4 DEF TunnelTypeOK
      <4>2. Piped(svcGot'[f], toServer', f, up'[f]) /\ FirstMayWait(svcGot'[f])
        BY <2>1, <2>2, <2>3, <4>1, PipedTake
      <4>3. ConnectingIsFirst'
        <5> SUFFICES ASSUME NEW j \in Socks, sock[j].state = "connecting"
                     PROVE  /\ sock[j].initial = 1
                            /\ svcGot'[sock[j].flow] = <<>>
                            /\ Piped(<<1>>, toServer', sock[j].flow, up'[sock[j].flow])
                            /\ Piped(sock[j].written, toServer', sock[j].flow, up'[sock[j].flow])
                            /\ Climbs(sock[j].written)
                            /\ \A a \in 1..Len(sock[j].written) : 1 < sock[j].written[a]
            BY <3>4 DEF ConnectingIsFirst
        <5>1. sock[j].flow \in Flows /\ sock[j].flow # f
          BY <1>2, <3>4
        <5> QED
          BY <3>4, <4>1, <5>1, ConnectingKept
      <4> QED
        BY <1>3, <4>1, <4>2, <4>3 DEF UpQueued
    <3>5. CASE /\ sock[k].state = "connecting"
               /\ sock' = [sock EXCEPT ![k].written = Append(@, n)] /\ UNCHANGED svcGot
      <4>1. /\ sock'[k].written = Append(sock[k].written, n)
            /\ \A j \in Socks : j # k => sock'[j] = sock[j]
            /\ \A j \in Socks : /\ sock'[j].state = sock[j].state
                                /\ sock'[j].flow = sock[j].flow
                                /\ sock'[j].initial = sock[j].initial
        BY <1>1, <3>1, <3>5, WrittenSocket
      <4>2. sock[k].written \in Seq(Chunk) /\ sock[k].initial \in Chunk
        BY <1>1, <3>1, <3>5 DEF TunnelTypeOK, Sock, SocketsHaveFlows
      <4>3. /\ sock[k].initial = 1 /\ svcGot[f] = <<>>
            /\ Piped(<<1>>, toServer, f, up[f])
            /\ Piped(sock[k].written, toServer, f, up[f])
            /\ Climbs(sock[k].written)
            /\ \A a \in 1..Len(sock[k].written) : 1 < sock[k].written[a]
        BY <3>1, <3>5 DEF UpQueued, ConnectingIsFirst
      <4>4. <<1>> \in Seq(Chunk)
        BY <4>2, <4>3
      <4>5. Piped(<<1>>, toServer', f, up'[f]) /\ 1 < n
        <5>1. \A a \in 1..Len(<<1>>) : <<1>>[a] < n
          BY <2>2, <4>3, <4>4, PipedTake
        <5>2. 1 \in 1..Len(<<1>>) /\ <<1>>[1] = 1
          OBVIOUS
        <5>3. 1 < n
          BY <5>1, <5>2
        <5>4. f \in Flows
          OBVIOUS
        <5>5. Piped(<<1>>, toServer', f, up'[f])
          BY <1>1, <4>3, <4>4, UpPiped
        <5> QED
          BY <5>3, <5>5
      <4>6. /\ Piped(Append(sock[k].written, n), toServer', f, up'[f])
            /\ Climbs(Append(sock[k].written, n))
        BY <2>1, <2>2, <4>2, <4>3, PipedTake
      <4>7. \A a \in 1..Len(Append(sock[k].written, n)) : 1 < Append(sock[k].written, n)[a]
        BY <4>2, <4>3, <4>5, AppendShape
      <4>8. ConnectingIsFirst'
        <5> SUFFICES ASSUME NEW j \in Socks, sock[j].state = "connecting"
                     PROVE  /\ sock'[j].initial = 1
                            /\ svcGot'[sock[j].flow] = <<>>
                            /\ Piped(<<1>>, toServer', sock[j].flow, up'[sock[j].flow])
                            /\ Piped(sock'[j].written, toServer', sock[j].flow, up'[sock[j].flow])
                            /\ Climbs(sock'[j].written)
                            /\ \A a \in 1..Len(sock'[j].written) : 1 < sock'[j].written[a]
            BY <4>1 DEF ConnectingIsFirst
        <5>1. CASE j = k
          BY <3>1, <3>5, <4>1, <4>3, <4>5, <4>6, <4>7, <5>1
        <5>2. CASE j # k
          BY <3>5, <4>1, <5>2, ConnectingKept
        <5> QED
          BY <5>1, <5>2
      <4> QED
        BY <1>3, <3>5, <4>8 DEF UpQueued
    <3> QED
      BY <3>2, <3>3, <3>4, <3>5
  <2>5. CASE flows[f] = NoSocket /\ n = 1 /\ OpenFlow(f, n)
    <3>1. PICK k \in Socks :
              /\ sock' = [sock EXCEPT ![k] = [state |-> "connecting", flow |-> f,
                                              initial |-> 1, written |-> <<>>]]
              /\ svcGot' = svcGot
      BY <2>5 DEF OpenFlow
    <3>2. /\ sock'[k].flow = f /\ sock'[k].initial = 1 /\ sock'[k].written = <<>>
          /\ \A j \in Socks : j # k => sock'[j] = sock[j]
      BY <1>1, <3>1 DEF TunnelTypeOK
    <3>3. svcGot[f] = <<>>
      <4>1. \A a \in 1..Len(svcGot[f]) : svcGot[f][a] < 1
        BY <2>2, <2>3, <2>5, PipedTake
      <4>2. \A a \in 1..Len(svcGot[f]) : svcGot[f][a] \in Nat /\ svcGot[f][a] >= 1
        BY <2>2, ChunksNat
      <4>3. Len(svcGot[f]) = 0
        BY <2>2, <4>1, <4>2
      <4> QED
        BY <2>2, <4>3
    <3>4. Piped(<<1>>, toServer', f, up'[f])
      <4>1. <<>> \in Seq(Chunk) /\ Append(<<>>, 1) = <<1>>
        OBVIOUS
      <4>2. Piped(Append(<<>>, n), Tail(toServer), f, up[f])
        BY <2>2, <2>3, <3>3, <4>1, PipedTake
      <4> QED
        BY <2>1, <2>2, <2>5, <4>1, <4>2
    <3>5. Piped(<<>>, toServer', f, up'[f])
      BY <1>1, <2>2, <2>3, <3>3, UpPiped
    <3>6. ConnectingIsFirst'
      <4> SUFFICES ASSUME NEW j \in Socks, sock'[j].state = "connecting"
                   PROVE  /\ sock'[j].initial = 1
                          /\ svcGot'[sock'[j].flow] = <<>>
                          /\ Piped(<<1>>, toServer', sock'[j].flow, up'[sock'[j].flow])
                          /\ Piped(sock'[j].written, toServer', sock'[j].flow, up'[sock'[j].flow])
                          /\ Climbs(sock'[j].written)
                          /\ \A a \in 1..Len(sock'[j].written) : 1 < sock'[j].written[a]
          BY DEF ConnectingIsFirst
      <4>1. CASE j = k
        BY <3>1, <3>2, <3>3, <3>4, <3>5, <4>1 DEF Climbs
      <4>2. CASE j # k
        <5>1. sock'[j] = sock[j] /\ sock[j].state = "connecting"
          BY <3>2, <4>2
        <5> QED
          BY <3>1, <5>1, ConnectingKept
      <4> QED
        BY <4>1, <4>2
    <3> QED
      BY <1>3, <3>1, <3>6 DEF UpQueued
  <2>6. CASE RefuseFlow(f)
    BY <1>4, <2>6 DEF RefuseFlow
  <2> QED
    BY <2>1, <2>4, <2>5, <2>6
<1>6. ASSUME NEW k \in Socks, SockConnects(k)
      PROVE  UpQueued'
  <2> DEFINE f == sock[k].flow
             w == sock[k].written
             t == svcGot[f] \o w \o <<1>>
  <2>1. /\ sock[k].state = "connecting" /\ f \in Flows /\ flows[f] = k
        /\ svcGot[f] = <<>> /\ w \in Seq(Chunk) /\ <<1>> \in Seq(Chunk)
        /\ Piped(<<1>>, toServer, f, up[f]) /\ Piped(w, toServer, f, up[f])
        /\ Climbs(w) /\ \A a \in 1..Len(w) : 1 < w[a]
        /\ sock[k].initial = 1
    <3>1. sock[k].state = "connecting"
      BY <1>6 DEF SockConnects
    <3>2. sock[k].initial = 1 /\ sock[k].initial \in Chunk
      BY <1>1, <3>1 DEF UpQueued, ConnectingIsFirst, SocketsHaveFlows
    <3>3. w \in Seq(Chunk)
      BY <1>1 DEF TunnelTypeOK, Sock
    <3> QED
      BY <1>2, <3>1, <3>2, <3>3 DEF UpQueued, ConnectingIsFirst
  <2>2. /\ svcGot'[f] = t
        /\ \A g \in Flows : g # f => svcGot'[g] = svcGot[g]
    BY <1>1, <1>6, <2>1 DEF SockConnects, TunnelTypeOK
  <2>3. /\ sock'[k].state = "open"
        /\ \A j \in Socks : j # k => sock'[j] = sock[j]
    <3>1. sock' = [sock EXCEPT ![k] = [sock[k] EXCEPT !.state = "open", !.written = <<>>]]
      BY <1>1, <1>6 DEF SockConnects, TunnelTypeOK, Sock
    <3> QED
      BY <1>1, <3>1 DEF TunnelTypeOK, Sock
  <2>4. \A a \in 1..Len(t) : \/ a \in 1..Len(w) /\ t[a] = w[a]
                             \/ a = Len(w) + 1 /\ t[a] = 1
    BY <2>1
  <2>5. Piped(t, toServer', f, up'[f])
    <3>1. Piped(svcGot[f], toServer, f, up[f])
      BY <2>1 DEF UpQueued
    <3>2. svcGot[f] \in Seq(Chunk) /\ svcGot[f] \o w \in Seq(Chunk) /\ t \in Seq(Chunk)
      BY <2>1
    <3>3. Piped(t, toServer, f, up[f])
      BY <2>1, <3>1, <3>2, PipedJoin
    <3> QED
      BY <1>1, <2>1, <3>2, <3>3, UpPiped
  <2>6. FirstMayWait(t)
    <3> HIDE DEF t
    <3> SUFFICES ASSUME NEW a \in 1..Len(t), NEW b \in 1..Len(t), a < b
                 PROVE  t[a] # t[b] /\ (t[a] < t[b] \/ t[b] = 1)
        BY DEF FirstMayWait
    <3>1. \A c \in 1..Len(w) : w[c] \in Nat
      BY <2>1, ChunksNat
    <3>2. a \in 1..Len(w) /\ t[a] = w[a]
      BY <2>1, <2>4
    <3>3. CASE b \in 1..Len(w) /\ t[b] = w[b]
      BY <2>1, <3>1, <3>2, <3>3 DEF Climbs
    <3>4. CASE t[b] = 1
      BY <2>1, <3>1, <3>2, <3>4
    <3> QED
      BY <2>4, <3>3, <3>4
  <2>7. ConnectingIsFirst'
    <3> SUFFICES ASSUME NEW j \in Socks, sock'[j].state = "connecting"
                 PROVE  /\ sock'[j].initial = 1
                        /\ svcGot'[sock'[j].flow] = <<>>
                        /\ Piped(<<1>>, toServer', sock'[j].flow, up'[sock'[j].flow])
                        /\ Piped(sock'[j].written, toServer', sock'[j].flow, up'[sock'[j].flow])
                        /\ Climbs(sock'[j].written)
                        /\ \A a \in 1..Len(sock'[j].written) : 1 < sock'[j].written[a]
        BY DEF ConnectingIsFirst
    <3>1. j # k /\ sock'[j] = sock[j] /\ sock[j].state = "connecting"
      BY <2>3
    <3>2. sock[j].flow \in Flows /\ sock[j].flow # f
      BY <1>2, <2>1, <3>1
    <3> QED
      BY <2>2, <3>1, <3>2, ConnectingKept
  <2> HIDE DEF t
  <2> QED
    BY <1>3, <2>2, <2>5, <2>6, <2>7 DEF UpQueued
<1>7. CASE ServerClose \/ ServerDown
  <2>1. PICK K : sock' = Destroyed(K) /\ svcGot' = svcGot
    BY <1>7 DEF ServerClose, ServerDown
  <2>2. \A k \in Socks : sock'[k].state = "connecting" => sock'[k] = sock[k]
    BY <1>1, <2>1, DestroyedSockets
  <2> QED
    BY <1>4, <2>1, <2>2
<1>8. ASSUME NEW k \in Socks, ServiceCloses(k) \/ SockClosed(k)
      PROVE  UpQueued'
  <2>1. \A j \in Socks : sock'[j].state = "connecting" => sock'[j] = sock[j]
    <3>1. CASE ServiceCloses(k)
      BY <1>1, <3>1, DestroyedSockets DEF ServiceCloses
    <3>2. CASE SockClosed(k)
      BY <1>1, <3>2 DEF SockClosed, UnusedSock, TunnelTypeOK
    <3> QED
      BY <1>8, <3>1, <3>2
  <2> QED
    BY <1>4, <1>8, <2>1 DEF ServiceCloses, SockClosed
<1>9. CASE UNCHANGED <<sock, svcGot>>
  BY <1>4, <1>9
<1> QED
  BY <1>5, <1>6, <1>7, <1>8, <1>9
     DEF TunnelNext, ClientStep, ServerStep, PfOpen, PfOpenAck, AppConnects, AppWrites,
         AppCloses, ClientData, ClientClose, ClientDown, ServiceWrites, tunnelVars

\* The service gets every chunk at most once, and all but the first in order,
\* as long as no payload reads as the registered port.
THEOREM TunnelOrder == ~Collide /\ TunnelSpec => []OnlyFirstOvertaken
<1> SUFFICES ASSUME ~Collide
             PROVE  TunnelSpec => []OnlyFirstOvertaken
    OBVIOUS
<1>1. TunnelInit => UpQueued
  <2> SUFFICES ASSUME TunnelInit
               PROVE  UpQueued
      OBVIOUS
  <2>1. ConnectingIsFirst
    BY DEF TunnelInit, ConnectingIsFirst, UnusedSock
  <2> SUFFICES ASSUME NEW f \in Flows
               PROVE  Piped(svcGot[f], toServer, f, up[f]) /\ FirstMayWait(svcGot[f])
      BY <2>1 DEF UpQueued
  <2>2. svcGot[f] = <<>> /\ Len(toServer) = 1 /\ toServer[1].kind = "open"
    BY DEF TunnelInit
  <2> QED
    BY <2>2 DEF Piped, FirstMayWait, IsData
<1>2. TunnelInv /\ UpQueued /\ [TunnelNext]_tunnelVars => UpQueued'
  BY UpQueuedStep
<1>3. UpQueued => OnlyFirstOvertaken
  BY DEF UpQueued, FirstMayWait, OnlyFirstOvertaken
<1> QED
  BY <1>1, <1>2, <1>3, TunnelInvAlways, PTL DEF TunnelSpec

-----------------------------------------------------------------------------
(* The tunnel: the port is registered before anything is sent to it.       *)

\* Until the peer has registered the port, or has lost the link, nothing has
\* come of the forward but the request for it.
NothingBeforeRegistered ==
    serverUp /\ ~registered =>
        /\ toServer = <<[kind |-> "open"]>>
        /\ toClient = <<>>
        /\ forward = "pending"
        /\ \A f \in Flows : app[f] = "unused"
        /\ \A k \in Socks : sock[k].state = "unused"

LEMMA RegisteredStep ==
    ASSUME TunnelInv, NothingBeforeRegistered, [TunnelNext]_tunnelVars
    PROVE  NothingBeforeRegistered'
<1> USE DEF links, data
<1> SUFFICES ASSUME serverUp', ~registered'
             PROVE  /\ toServer' = <<[kind |-> "open"]>>
                    /\ toClient' = <<>>
                    /\ forward' = "pending"
                    /\ \A f \in Flows : app'[f] = "unused"
                    /\ \A k \in Socks : sock'[k].state = "unused"
    BY DEF NothingBeforeRegistered
<1>1. serverUp /\ ~PfOpen /\ ~ServerDown
  BY RequestsStep DEF TunnelInv, PfOpen, ServerDown
<1>2. ~registered
  BY <1>1 DEF TunnelNext, ClientStep, ServerStep, PfOpenAck, AppConnects, AppWrites, AppCloses,
              ClientData, ClientClose, ClientDown, ServerData, ServerClose, SockConnects,
              ServiceWrites, ServiceCloses, SockClosed, tunnelVars
<1>3. /\ toServer = <<[kind |-> "open"]>> /\ toClient = <<>> /\ forward = "pending"
      /\ \A f \in Flows : app[f] = "unused"
      /\ \A k \in Socks : sock[k].state = "unused"
  BY <1>1, <1>2 DEF NothingBeforeRegistered
<1>4. ~ServerData /\ ~ServerClose
  <2>1. Head(toServer).kind = "open"
    BY <1>3
  <2> QED
    BY <2>1, FrameKinds DEF ServerData, ServerClose, ServerTakes
<1>5. ~PfOpenAck /\ ~ClientData /\ ~ClientClose
  BY <1>3 DEF PfOpenAck, ClientData, ClientClose, ClientTakes
<1>6. \A f \in Flows : ~AppConnects(f) /\ ~AppWrites(f) /\ ~AppCloses(f)
  BY <1>3 DEF AppConnects, AppWrites, AppCloses
<1>7. \A k \in Socks :
          ~SockConnects(k) /\ ~ServiceWrites(k) /\ ~ServiceCloses(k) /\ ~SockClosed(k)
  BY <1>3 DEF SockConnects, ServiceWrites, ServiceCloses, SockClosed
<1>8. CASE ClientDown
  BY <1>3, <1>8 DEF ClientDown
<1>9. CASE UNCHANGED tunnelVars
  BY <1>3, <1>9 DEF tunnelVars
<1> QED
  BY <1>1, <1>4, <1>5, <1>6, <1>7, <1>8, <1>9 DEF TunnelNext, ClientStep, ServerStep

\* The listener only runs for a port the peer has registered, so that the first
\* frame of a flow is never refused (mesh-client.ts:258-301, port-forward.ts:37-61).
THEOREM TunnelFirstFrame == TunnelSpec => []FirstFrameAccepted
<1>1. TunnelInit => NothingBeforeRegistered
  BY DEF TunnelInit, NothingBeforeRegistered, UnusedSock
<1>2. TunnelInv /\ NothingBeforeRegistered /\ [TunnelNext]_tunnelVars
         => NothingBeforeRegistered'
  BY RegisteredStep
<1>3. NothingBeforeRegistered => FirstFrameAccepted
  BY DEF NothingBeforeRegistered, FirstFrameAccepted
<1> QED
  BY <1>1, <1>2, <1>3, TunnelInvAlways, PTL DEF TunnelSpec
=============================================================================
