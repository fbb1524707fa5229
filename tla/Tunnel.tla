------------------------------- MODULE Tunnel -------------------------------
(***************************************************************************)
(* One port forward over one mesh link: the MeshClient of this machine     *)
(* (mesh-client.ts) accepts TCP connections of local applications, gives   *)
(* each a flow id and sends what they write through the relay to the       *)
(* PortForwardHandler of the peer (port-forward.ts), which opens a         *)
(* connection of its own to the service for every flow.                    *)
(*                                                                         *)
(* The module starts when the handshake is acknowledged and ends when both *)
(* ends have lost the link: a new link has a new session, a new handler    *)
(* and flow ids that start at 1 again.  Chunk n of a flow is its number n. *)
(***************************************************************************)
EXTENDS Integers, Sequences

CONSTANTS
    Flows,          \* flow ids; a link gives each of them out once
    Socks,          \* identities of the peer's service sockets (recycled)
    NoSocket,       \* no socket
    MaxChunks,      \* bound: chunks a flow carries in each direction
    Collide         \* may two bytes of payload read as the registered port?

ASSUME SocketAssumption == NoSocket \notin Flows \cup Socks
ASSUME TunnelAssumption == MaxChunks \in Nat /\ Collide \in BOOLEAN

VARIABLES
    clientUp,       \* the MeshClient's WebSocket is open
    serverUp,       \* the peer's Bridge has the session
    toServer,       \* frames on their way to the peer
    toClient,       \* frames on their way to the MeshClient
    forward,        \* ForwardRuntime.state
    registered,     \* the peer's registeredPorts has the port
    app,            \* the application's socket of each flow
    flows,          \* PortForwardHandler.flows: flow -> socket or NoSocket
    sock,           \* the peer's service sockets
    up,             \* chunks read from the application of each flow
    svcGot,         \* chunks its service connection got
    down,           \* chunks read from the service
    appGot          \* chunks the application got

tunnelVars == <<clientUp, serverUp, toServer, toClient, forward, registered, app,
                flows, sock, up, svcGot, down, appGot>>
links == <<clientUp, serverUp>>
data == <<up, svcGot, down, appGot>>

Chunk == 1..MaxChunks
Frame == [kind : {"open", "ok", "error"}] \cup [kind : {"close"}, flow : Flows]
             \cup [kind : {"data"}, flow : Flows, chunk : Chunk]
Sock == [state : {"unused", "connecting", "open", "destroyed"},
         flow : Flows \cup {NoSocket},
         initial : Chunk \cup {0},          \* initialData
         written : Seq(Chunk)]              \* written while it connects

UnusedSock == [state |-> "unused", flow |-> NoSocket, initial |-> 0, written |-> <<>>]

TunnelTypeOK ==
    /\ clientUp \in BOOLEAN /\ serverUp \in BOOLEAN /\ registered \in BOOLEAN
    /\ toServer \in Seq(Frame) /\ toClient \in Seq(Frame)
    /\ forward \in {"pending", "active", "error"}
    /\ app \in [Flows -> {"unused", "open", "gone"}]
    /\ flows \in [Flows -> Socks \cup {NoSocket}]
    /\ sock \in [Socks -> Sock]
    /\ up \in [Flows -> Nat] /\ svcGot \in [Flows -> Seq(Chunk)]
    /\ down \in [Flows -> Nat] /\ appGot \in [Flows -> Seq(Chunk)]

\* onHandshakeAck has asked for the forward.
TunnelInit ==
    /\ clientUp = TRUE
    /\ serverUp = TRUE
    /\ toServer = <<[kind |-> "open"]>>
    /\ toClient = <<>>
    /\ forward = "pending"
    /\ registered = FALSE
    /\ app = [f \in Flows |-> "unused"]
    /\ flows = [f \in Flows |-> NoSocket]
    /\ sock = [k \in Socks |-> UnusedSock]
    /\ up = [f \in Flows |-> 0]
    /\ svcGot = [f \in Flows |-> <<>>]
    /\ down = [f \in Flows |-> 0]
    /\ appGot = [f \in Flows |-> <<>>]

-----------------------------------------------------------------------------
(* Frames.  Each end drops what it sends once it has lost the link.        *)

ClientSends(m) == toServer' = IF clientUp THEN Append(toServer, m) ELSE toServer
ServerSends(m) == toClient' = IF serverUp THEN Append(toClient, m) ELSE toClient

\* The peer takes the next frame from the link; the client does.
ServerTakes(m) ==
    /\ serverUp
    /\ toServer # <<>>
    /\ m = Head(toServer)
    /\ toServer' = Tail(toServer)

ClientTakes(m) ==
    /\ clientUp
    /\ toClient # <<>>
    /\ m = Head(toClient)
    /\ toClient' = Tail(toClient)

Close(f) == [kind |-> "close", flow |-> f]
Data(f, n) == [kind |-> "data", flow |-> f, chunk |-> n]

\* The service sockets of the set K are destroyed: 'close' is still to come.
Destroyed(K) ==
    [k \in Socks |-> IF k \in K THEN [sock[k] EXCEPT !.state = "destroyed"] ELSE sock[k]]

-----------------------------------------------------------------------------
(* Setting the forward up. *)

\* handleOpen registers the port and tries it once.
PfOpen ==
    /\ ServerTakes([kind |-> "open"])
    /\ registered' = TRUE
    /\ \E status \in {"ok", "error"} : ServerSends([kind |-> status])
    /\ UNCHANGED <<links, forward, app, flows, sock, data>>

\* The acknowledgement starts the listener, which may find its port taken.
PfOpenAck ==
    /\ \/ ClientTakes([kind |-> "ok"]) /\ forward' \in {"active", "error"}
       \/ ClientTakes([kind |-> "error"]) /\ forward' = "error"
    /\ UNCHANGED <<links, toServer, registered, app, flows, sock, data>>

-----------------------------------------------------------------------------
(* The MeshClient's side. *)

\* onTCPConnection.  The peer is told with the first data, not before.
AppConnects(f) ==
    /\ clientUp
    /\ forward = "active"
    /\ app[f] = "unused"
    /\ app' = [app EXCEPT ![f] = "open"]
    /\ UNCHANGED <<links, toServer, toClient, forward, registered, flows, sock, data>>

AppWrites(f) ==
    /\ app[f] = "open"
    /\ up[f] < MaxChunks
    /\ up' = [up EXCEPT ![f] = @ + 1]
    /\ ClientSends(Data(f, up[f] + 1))
    /\ UNCHANGED <<links, toClient, forward, registered, app, flows, sock, svcGot, down, appGot>>

\* Mutant of AppCloses: the peer is not told.
AppClosesQuietly(f) ==
    /\ app[f] = "open"
    /\ app' = [app EXCEPT ![f] = "gone"]
    /\ UNCHANGED <<links, toServer, toClient, forward, registered, flows, sock, data>>

AppCloses(f) ==
    /\ app[f] = "open"
    /\ app' = [app EXCEPT ![f] = "gone"]
    /\ ClientSends(Close(f))
    /\ UNCHANGED <<links, toClient, forward, registered, flows, sock, data>>

\* PF_DATA for the application; nothing answers for a flow that is gone.
ClientData ==
    \E f \in Flows, n \in Chunk :
        /\ ClientTakes(Data(f, n))
        /\ appGot' = IF app[f] = "open" THEN [appGot EXCEPT ![f] = Append(@, n)] ELSE appGot
        /\ UNCHANGED <<links, toServer, forward, registered, app, flows, sock, up, svcGot, down>>

ClientClose ==
    \E f \in Flows :
        /\ ClientTakes(Close(f))
        /\ app' = [app EXCEPT ![f] = IF @ = "open" THEN "gone" ELSE @]
        /\ UNCHANGED <<links, toServer, forward, registered, flows, sock, data>>

\* The WebSocket closes: teardownTCP closes the listener and every flow.
ClientDown ==
    /\ clientUp
    /\ clientUp' = FALSE
    /\ toClient' = <<>>
    /\ forward' = "pending"
    /\ app' = [f \in Flows |-> IF app[f] = "open" THEN "gone" ELSE app[f]]
    /\ UNCHANGED <<serverUp, toServer, registered, flows, sock, data>>

-----------------------------------------------------------------------------
(* The peer's side. *)

\* A frame of an unknown flow that names the registered port opens a socket
\* for it; what follows the prefix waits for 'connect'.
OpenFlow(f, n) ==
    /\ registered
    /\ \E k \in Socks :
          /\ sock[k].state = "unused"
          /\ sock' = [sock EXCEPT ![k] = [state |-> "connecting", flow |-> f,
                                          initial |-> n, written |-> <<>>]]
          /\ flows' = [flows EXCEPT ![f] = k]
    /\ UNCHANGED <<toClient, svcGot>>

\* A frame of an unknown flow that does not: the flow is refused.
RefuseFlow(f) == ServerSends(Close(f)) /\ UNCHANGED <<flows, sock, svcGot>>

\* A frame of a flow that has a socket is written to it.
WriteFlow(f, n) ==
    LET k == flows[f]
    IN  /\ CASE sock[k].state = "open" ->
                  svcGot' = [svcGot EXCEPT ![f] = Append(@, n)] /\ UNCHANGED sock
             [] sock[k].state = "connecting" ->
                  sock' = [sock EXCEPT ![k].written = Append(@, n)] /\ UNCHANGED svcGot
             [] OTHER -> UNCHANGED <<sock, svcGot>>
        /\ UNCHANGED <<toClient, flows>>

\* handleData.  Only the first frame of a flow begins with the port.
ServerData ==
    \E f \in Flows, n \in Chunk :
        /\ ServerTakes(Data(f, n))
        /\ IF flows[f] # NoSocket THEN WriteFlow(f, n)
           ELSE \/ (n = 1 \/ Collide) /\ OpenFlow(f, n)
                \/ (n # 1 \/ ~registered) /\ RefuseFlow(f)
        /\ UNCHANGED <<links, forward, registered, app, up, down, appGot>>

\* Mutant of ServerClose: the entry goes, the socket stays.
ServerCloseKeepsSocket ==
    \E f \in Flows :
        /\ ServerTakes(Close(f))
        /\ flows' = [flows EXCEPT ![f] = NoSocket]
        /\ UNCHANGED <<links, toClient, forward, registered, app, sock, data>>

\* handleClose: destroy the socket and forget it.
ServerClose ==
    \E f \in Flows :
        /\ ServerTakes(Close(f))
        /\ sock' = Destroyed({flows[f]})
        /\ flows' = [flows EXCEPT ![f] = NoSocket]
        /\ UNCHANGED <<links, toClient, forward, registered, app, data>>

\* Mutant of SockConnects: what was written in the meantime is not taken back.
SockConnectsTwice(k) ==
    LET f == sock[k].flow
    IN  /\ sock[k].state = "connecting"
        /\ sock' = [sock EXCEPT ![k].state = "open"]
        /\ svcGot' = [svcGot EXCEPT ![f] = @ \o sock[k].written \o <<sock[k].initial>>
                                             \o sock[k].written]
        /\ UNCHANGED <<links, toServer, toClient, forward, registered, app, flows, up, down, appGot>>

\* 'connect' writes initialData behind what the socket was given meanwhile:
\* that write is pending and goes first.
SockConnects(k) ==
    LET f == sock[k].flow
    IN  /\ sock[k].state = "connecting"
        /\ sock' = [sock EXCEPT ![k].state = "open", ![k].written = <<>>]
        /\ svcGot' = [svcGot EXCEPT ![f] = @ \o sock[k].written \o <<sock[k].initial>>]
        /\ UNCHANGED <<links, toServer, toClient, forward, registered, app, flows, up, down, appGot>>

\* Mutant of ServiceWrites: the frame is sent twice.
ServiceWritesTwice(k) ==
    LET f == sock[k].flow
    IN  /\ sock[k].state = "open"
        /\ down[f] < MaxChunks
        /\ down' = [down EXCEPT ![f] = @ + 1]
        /\ toClient' = toClient \o <<Data(f, down[f] + 1), Data(f, down[f] + 1)>>
        /\ UNCHANGED <<links, toServer, forward, registered, app, flows, sock, up, svcGot, appGot>>

ServiceWrites(k) ==
    LET f == sock[k].flow
    IN  /\ sock[k].state = "open"
        /\ down[f] < MaxChunks
        /\ down' = [down EXCEPT ![f] = @ + 1]
        /\ ServerSends(Data(f, down[f] + 1))
        /\ UNCHANGED <<links, toServer, forward, registered, app, flows, sock, up, svcGot, appGot>>

\* The service closes the connection or refuses it.
ServiceCloses(k) ==
    /\ sock[k].state \in {"connecting", "open"}
    /\ sock' = Destroyed({k})
    /\ UNCHANGED <<links, toServer, toClient, forward, registered, app, flows, data>>

\* 'close' of a socket: the flow of that id is over, if there is one.
SockClosed(k) ==
    LET f == sock[k].flow
    IN  /\ sock[k].state = "destroyed"
        /\ sock' = [sock EXCEPT ![k] = UnusedSock]
        /\ IF flows[f] # NoSocket
           THEN ServerSends(Close(f)) /\ flows' = [flows EXCEPT ![f] = NoSocket]
           ELSE UNCHANGED <<toClient, flows>>
        /\ UNCHANGED <<links, toServer, forward, registered, app, data>>

\* teardownSession of the peer: destroyAll.
ServerDown ==
    /\ serverUp
    /\ serverUp' = FALSE
    /\ toServer' = <<>>
    /\ registered' = FALSE
    /\ sock' = Destroyed({flows[f] : f \in Flows})
    /\ flows' = [f \in Flows |-> NoSocket]
    /\ UNCHANGED <<clientUp, toClient, forward, app, data>>

-----------------------------------------------------------------------------
ClientStep ==
    \/ \E f \in Flows : AppConnects(f) \/ AppWrites(f) \/ AppCloses(f)
    \/ PfOpenAck \/ ClientData \/ ClientClose \/ ClientDown

ServerStep ==
    \/ PfOpen \/ ServerData \/ ServerClose \/ ServerDown
    \/ \E k \in Socks : SockConnects(k) \/ ServiceWrites(k) \/ ServiceCloses(k) \/ SockClosed(k)

TunnelNext == ClientStep \/ ServerStep

TunnelSpec == TunnelInit /\ [][TunnelNext]_tunnelVars

\* Frames of a link that is up arrive, close events are delivered, and an end
\* that has lost the link is noticed by the other once the frames in between
\* are through.  Nothing is asked of applications and services.
TunnelFairness ==
    /\ WF_tunnelVars(PfOpen) /\ WF_tunnelVars(PfOpenAck)
    /\ WF_tunnelVars(ServerData) /\ WF_tunnelVars(ServerClose)
    /\ WF_tunnelVars(ClientData) /\ WF_tunnelVars(ClientClose)
    /\ \A k \in Socks : WF_tunnelVars(SockClosed(k))
    /\ WF_tunnelVars(~clientUp /\ toServer = <<>> /\ ServerDown)
    /\ WF_tunnelVars(~serverUp /\ toClient = <<>> /\ ClientDown)

FairTunnelSpec == TunnelSpec /\ TunnelFairness

-----------------------------------------------------------------------------
(* Properties *)

\* What the service writes reaches the application in order and at most once,
\* even when flows are closed and refused meanwhile (port-forward.ts:106-109,
\* mesh-client.ts:302-304).
Down == INSTANCE LossyFifo WITH Chans <- Flows, sent <- down, got <- appGot
DownInOrder == Down!Spec

\* "Expose a meshed peer's port on this machine (like ssh -L)" (index.ts:1187):
\* what the application writes reaches the service in order.
Up == INSTANCE LossyFifo WITH Chans <- Flows, sent <- up, got <- svcGot
UpInOrder == Up!Spec

\* The service gets every chunk at most once, and all but the first in order:
\* the data of the frame that opens a flow is the only one that may be
\* overtaken (port-forward.ts:67-104).
OnlyFirstOvertaken ==
    \A f \in Flows : \A i, j \in 1..Len(svcGot[f]) :
        i < j => svcGot[f][i] # svcGot[f][j] /\ (svcGot[f][i] < svcGot[f][j] \/ svcGot[f][j] = 1)

\* The listener only runs for a port the peer has registered, so that no first
\* frame of a flow is refused (mesh-client.ts:258-301, port-forward.ts:37-61).
FirstFrameAccepted ==
    \A i \in 1..Len(toServer) :
        serverUp /\ toServer[i].kind = "data" => registered

\* A socket is the one its flow has in the Map, or is being torn down: no
\* connection to the service lingers that nothing can close any more.
SocketReachable ==
    \A k \in Socks : sock[k].state \in {"connecting", "open"} => flows[sock[k].flow] = k

\* A flow closed at one end is closed at the other: for an application that is
\* gone no service socket stays, and an application whose service socket went
\* is told (port-forward.ts:111-131, mesh-client.ts:305-312, 380-386).
FlowsClose ==
    \A f \in Flows :
        /\ app[f] = "gone" ~> [](\A k \in Socks : sock[k].flow # f)
        /\ (\E k \in Socks : sock[k].flow = f /\ sock[k].state = "destroyed") ~> app[f] = "gone"

=============================================================================
