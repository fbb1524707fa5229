-------------------------------- MODULE Mesh --------------------------------
(***************************************************************************)
(* Servers that mesh into one another.  Each one keeps the peers a phone's *)
(* invite gave it and the time of its own association, in memory and in    *)
(* two files (index.ts), runs a MeshClient for every peer (mesh-client.ts) *)
(* and decides for each handshake of a peer whether to accept it, to ask   *)
(* it to retry or to evict it for good (bridge.ts).                        *)
(*                                                                         *)
(* The association time is kept by what it means: never associated,        *)
(* active for seven days, lapsed, or ejected until the QR code is shown.   *)
(* A handler runs to its end unless the process dies between two of its    *)
(* writes to the files.                                                    *)
(***************************************************************************)
CONSTANTS
    Servers,        \* the machines, by deviceId
    Conns,          \* identities of connections through the relay (recycled)
    Nil,            \* no connection
    Fresh,          \* were the servers paired by the QR code shown at startup,
                    \* which does not set the association time?
    LeaveAtStart    \* may `termcast leave` be run while the daemon starts, when
                    \* it takes the daemon for stopped?

ASSUME NilAssumption == Nil \notin Servers \cup Conns
ASSUME SwitchAssumption == Fresh \in BOOLEAN /\ LeaveAtStart \in BOOLEAN

VARIABLES
    up,             \* the daemons that run
    starting,       \* those that start: they have read config.json only
    meshPairedAt,   \* the association of both, in memory
    savedPeers,     \* ... and the peers of those that run
    disk,           \* config.json and mesh-peers.json
    stage,          \* what the MeshClient of n for m is doing
    ws,             \* ... and its connection
    conn,           \* the connections: client's end, frames under way, session
    trusted         \* ghost: <<n, m>> such that m has been in the mesh ever
                    \* since n last started its client for m

vars == <<up, starting, meshPairedAt, savedPeers, disk, stage, ws, conn, trusted>>

Associations == {"never", "active", "lapsed", "ejected"}
Stages == {"none",          \* not in meshClients
           "credential",    \* awaiting the relay's challenge
           "connected",     \* has a WebSocket, in whatever state
           "waiting"}       \* its reconnect timer is armed
File == [paired : Associations, peers : SUBSET Servers]
Conn == [from : Servers \cup {Nil}, to : Servers \cup {Nil},
         state : {"unused", "connecting", "open", "closing", "closed"},
         hello : BOOLEAN,                               \* handshake under way
         answer : {"none", "ack", "evict", "retry"},    \* answer under way
         linked : BOOLEAN,                              \* the answer was an ack
         session : BOOLEAN]                             \* accepted by `to`

UnusedConn == [from |-> Nil, to |-> Nil, state |-> "unused", hello |-> FALSE,
               answer |-> "none", linked |-> FALSE, session |-> FALSE]

\* A connection that is in use has two ends, one that is not has no content.
WellFormed(c) ==
    IF c.state = "unused" THEN c = UnusedConn ELSE c.from \in Servers /\ c.to \in Servers

TypeOK ==
    /\ up \subseteq Servers
    /\ starting \subseteq Servers \ up
    /\ meshPairedAt \in [Servers -> Associations]
    /\ savedPeers \in [Servers -> SUBSET Servers]
    /\ disk \in [Servers -> File]
    /\ stage \in [Servers -> [Servers -> Stages]]
    /\ ws \in [Servers -> [Servers -> Conns \cup {Nil}]]
    /\ conn \in [Conns -> Conn]
    /\ \A k \in Conns : WellFormed(conn[k])
    /\ trusted \subseteq Servers \X Servers

\* The first start of every daemon: no peers yet.
Init ==
    LET paired == IF Fresh THEN "never" ELSE "active"
    IN  /\ up = Servers
        /\ starting = {}
        /\ meshPairedAt = [n \in Servers |-> paired]
        /\ savedPeers = [n \in Servers |-> {}]
        /\ disk = [n \in Servers |-> [paired |-> paired, peers |-> {}]]
        /\ stage = [n \in Servers |-> [m \in Servers |-> "none"]]
        /\ ws = [n \in Servers |-> [m \in Servers |-> Nil]]
        /\ conn = [k \in Conns |-> UnusedConn]
        /\ trusted = {}

-----------------------------------------------------------------------------
(* Helpers. *)

isMeshActive(n) == meshPairedAt[n] = "active"

\* The association of a machine, whether its daemon runs or not.
Association(n) == IF n \in up \cup starting THEN meshPairedAt[n] ELSE disk[n].paired

Lapsed(paired) == IF paired = "active" THEN "lapsed" ELSE paired

Current(k) == conn[k].state # "unused" /\ ws[conn[k].from][conn[k].to] = k

\* What n's clients for S leave when they stop: connections that close, and of
\* which nobody hears any more.
GivenUp(n, S) ==
    [k \in Conns |-> IF Current(k) /\ conn[k].from = n /\ conn[k].to \in S
                     THEN [conn[k] EXCEPT !.state = "closing"]
                     ELSE conn[k]]

\* n lost its link to the relay: its sessions go, and when it is back the relay
\* closes what its clients still have.
Dropped(n) ==
    [k \in Conns |-> IF conn[k].to = n
                     THEN [conn[k] EXCEPT !.state = IF @ = "open" THEN "closing" ELSE @,
                                          !.hello = FALSE, !.session = FALSE]
                     ELSE conn[k]]

\* The clients of n for the machines of S stop, those for T start anew.
Clients(n, S, T) ==
    /\ stage' = [stage EXCEPT ![n] =
                    [m \in Servers |-> IF m \in T THEN "credential"
                                       ELSE IF m \in S THEN "none" ELSE @[m]]]
    /\ ws' = [ws EXCEPT ![n] = [m \in Servers |-> IF m \in S \cup T THEN Nil ELSE @[m]]]
    /\ conn' = GivenUp(n, S \cup T)

\* Whom n trusts once it has stopped and started these clients.
TrustedBy(n, S, T) ==
    (trusted \ ({n} \X S)) \cup {<<n, m>> : m \in {x \in T : Association(x) = "active"}}

\* n is not in the mesh any more: nobody has seen it there all the time.
Unseen(n) == Servers \X {n}

\* stopAllMesh: no clients, no peers.
stopAllMesh(n) ==
    /\ Clients(n, Servers, {})
    /\ savedPeers' = [savedPeers EXCEPT ![n] = {}]

-----------------------------------------------------------------------------
(* Invites, consent, leaving and the passing of time. *)

\* mesh_invite: S is the phone's whole list.
Invite(n, S) ==
    /\ n \in up
    /\ meshPairedAt[n] # "ejected"
    /\ Clients(n, Servers \ S, S)
    /\ savedPeers' = [savedPeers EXCEPT ![n] = S]
    /\ meshPairedAt' = IF S # {} THEN [meshPairedAt EXCEPT ![n] = "active"] ELSE meshPairedAt
    /\ disk' = [disk EXCEPT ![n] = [paired |-> IF S # {} THEN "active" ELSE @.paired, peers |-> S]]
    /\ trusted' = TrustedBy(n, Servers \ S, S)
    /\ UNCHANGED <<up, starting>>

\* The QR code is shown: the consent that ends an ejection.
Regenerate(n) ==
    LET restarted == IF isMeshActive(n) THEN {} ELSE savedPeers[n]
    IN  /\ n \in up
        /\ meshPairedAt' = [meshPairedAt EXCEPT ![n] = "active"]
        /\ disk' = [disk EXCEPT ![n].paired = "active"]
        /\ Clients(n, {}, restarted)
        /\ trusted' = TrustedBy(n, {}, restarted)
        /\ UNCHANGED <<up, starting, savedPeers>>

\* leaveCluster of a running daemon.
Leave(n) ==
    /\ n \in up
    /\ meshPairedAt' = [meshPairedAt EXCEPT ![n] = "ejected"]
    /\ stopAllMesh(n)
    /\ disk' = [disk EXCEPT ![n] = [paired |-> "ejected", peers |-> {}]]
    /\ trusted' = TrustedBy(n, Servers, {}) \ Unseen(n)
    /\ UNCHANGED <<up, starting>>

\* `termcast leave` when no state.json names a running daemon: ejectInConfig.
LeaveOffline(n) ==
    /\ n \notin up
    /\ n \in starting => LeaveAtStart
    /\ disk' = [disk EXCEPT ![n] = [paired |-> "ejected", peers |-> {}]]
    /\ trusted' = trusted \ Unseen(n)
    /\ UNCHANGED <<up, starting, meshPairedAt, savedPeers, stage, ws, conn>>

\* Seven days have passed since the last invite or QR code.
Lapse(n) ==
    /\ Association(n) = "active"
    /\ meshPairedAt' = [meshPairedAt EXCEPT ![n] = Lapsed(@)]
    /\ disk' = [disk EXCEPT ![n].paired = Lapsed(@)]
    /\ trusted' = trusted \ Unseen(n)
    /\ UNCHANGED <<up, starting, savedPeers, stage, ws, conn>>

\* Mutant of Sweep: the peers stay in the file.
SweepKeepsFile(n) ==
    /\ n \in up
    /\ ~isMeshActive(n)
    /\ \E m \in Servers : stage[n][m] # "none"
    /\ stopAllMesh(n)
    /\ trusted' = TrustedBy(n, Servers, {})
    /\ UNCHANGED <<up, starting, meshPairedAt, disk>>

\* The sweep timer finds that the mesh window has lapsed.
Sweep(n) ==
    /\ n \in up
    /\ ~isMeshActive(n)
    /\ \E m \in Servers : stage[n][m] # "none"
    /\ stopAllMesh(n)
    /\ disk' = [disk EXCEPT ![n].peers = {}]
    /\ trusted' = TrustedBy(n, Servers, {})
    /\ UNCHANGED <<up, starting, meshPairedAt>>

\* A change of the forwards of a peer restarts its client.
ForwardChange(n, m) ==
    /\ n \in up
    /\ m \in savedPeers[n]
    /\ Clients(n, {}, {m})
    /\ trusted' = TrustedBy(n, {}, {m})
    /\ UNCHANGED <<up, starting, meshPairedAt, savedPeers, disk>>

-----------------------------------------------------------------------------
(* The daemon stops, or dies, also between two of its writes. *)

\* What is left of n: its connections close, its sessions are gone.
Down(n, file) ==
    /\ up' = up \ {n}
    /\ starting' = starting \ {n}
    /\ disk' = [disk EXCEPT ![n] = file]
    /\ meshPairedAt' = [meshPairedAt EXCEPT ![n] = "never"]
    /\ savedPeers' = [savedPeers EXCEPT ![n] = {}]
    /\ stage' = [stage EXCEPT ![n] = [m \in Servers |-> "none"]]
    /\ ws' = [ws EXCEPT ![n] = [m \in Servers |-> Nil]]
    /\ conn' = [k \in Conns |->
                   IF conn[k].from = n THEN [conn[k] EXCEPT !.state = "closed", !.answer = "none"]
                   ELSE IF conn[k].to = n THEN [conn[k] EXCEPT !.hello = FALSE, !.session = FALSE]
                   ELSE conn[k]]

Stop(n) ==
    /\ n \in up \cup starting
    /\ Down(n, disk[n])
    /\ trusted' = TrustedBy(n, Servers, {})

\* mesh_invite has saved the peers and not yet the association.
InviteCut(n, S) ==
    /\ n \in up
    /\ meshPairedAt[n] # "ejected"
    /\ Down(n, [disk[n] EXCEPT !.peers = S])
    /\ trusted' = TrustedBy(n, Servers, {})

\* leaveCluster or ejectInConfig has saved the association and not yet that
\* there are no peers.
LeaveCut(n) ==
    /\ n \notin starting
    /\ Down(n, [disk[n] EXCEPT !.paired = "ejected"])
    /\ trusted' = TrustedBy(n, Servers, {}) \ Unseen(n)

\* The daemon starts: it reads config.json, starts ttyd, registers with the relay.
Start(n) ==
    /\ n \notin up \cup starting
    /\ starting' = starting \cup {n}
    /\ meshPairedAt' = [meshPairedAt EXCEPT ![n] = disk[n].paired]
    /\ UNCHANGED <<up, savedPeers, disk, stage, ws, conn, trusted>>

\* Mutant of Boot: an association that is not active is taken for a legacy
\* config whenever there are peers.
BootMigratesAll(n) ==
    LET peers == disk[n].peers
        legacy == meshPairedAt[n] # "active" /\ peers # {}
        paired == IF legacy THEN "active" ELSE meshPairedAt[n]
        started == IF paired = "active" THEN peers ELSE {}
    IN  /\ n \in starting
        /\ up' = up \cup {n}
        /\ starting' = starting \ {n}
        /\ meshPairedAt' = [meshPairedAt EXCEPT ![n] = paired]
        /\ savedPeers' = [savedPeers EXCEPT ![n] = started]
        /\ disk' = [disk EXCEPT ![n] = [paired |-> IF legacy THEN "active" ELSE @.paired,
                                       peers |-> started]]
        /\ stage' = [stage EXCEPT ![n] = [m \in Servers |-> IF m \in started THEN "credential"
                                                           ELSE "none"]]
        /\ conn' = Dropped(n)
        /\ trusted' = TrustedBy(n, {}, started)
        /\ UNCHANGED ws

\* ... and the mesh: peers without an association come from an old version and
\* count as associated now.
Boot(n) ==
    LET peers == disk[n].peers
        legacy == meshPairedAt[n] = "never" /\ peers # {}
        paired == IF legacy THEN "active" ELSE meshPairedAt[n]
        started == IF paired = "active" THEN peers ELSE {}
    IN  /\ n \in starting
        /\ up' = up \cup {n}
        /\ starting' = starting \ {n}
        /\ meshPairedAt' = [meshPairedAt EXCEPT ![n] = paired]
        /\ savedPeers' = [savedPeers EXCEPT ![n] = started]
        /\ disk' = [disk EXCEPT ![n] = [paired |-> IF legacy THEN "active" ELSE @.paired,
                                       peers |-> started]]
        /\ stage' = [stage EXCEPT ![n] = [m \in Servers |-> IF m \in started THEN "credential"
                                                           ELSE "none"]]
        /\ conn' = Dropped(n)
        /\ trusted' = TrustedBy(n, {}, started)
        /\ UNCHANGED ws

\* The daemon's link to the relay is lost and comes back.
UplinkLost(n) ==
    /\ n \in up
    /\ conn' = Dropped(n)
    /\ UNCHANGED <<up, starting, meshPairedAt, savedPeers, disk, stage, ws, trusted>>

-----------------------------------------------------------------------------
(* MeshClient, and the gate of the Bridge it connects to. *)

\* The challenge has come, or could not be had: the WebSocket is constructed.
OpenSocket(n, m) ==
    /\ stage[n][m] = "credential"
    /\ \E k \in Conns :
          /\ conn[k].state = "unused"
          /\ conn' = [conn EXCEPT ![k] = [UnusedConn EXCEPT !.from = n, !.to = m,
                                                            !.state = "connecting"]]
          /\ ws' = [ws EXCEPT ![n][m] = k]
    /\ stage' = [stage EXCEPT ![n][m] = "connected"]
    /\ UNCHANGED <<up, starting, meshPairedAt, savedPeers, disk, trusted>>

\* 'open' of the current WebSocket sends the handshake; one that was given up
\* is ignored (and is closing here).
Opened(k) ==
    /\ conn[k].state = "connecting"
    /\ conn[k].to \in up
    /\ conn' = [conn EXCEPT ![k].state = "open", ![k].hello = TRUE]
    /\ UNCHANGED <<up, starting, meshPairedAt, savedPeers, disk, stage, ws, trusted>>

\* 'close': the client whose connection it is tries again later.
Close(k) ==
    LET n == conn[k].from
        m == conn[k].to
    IN  /\ conn' = [conn EXCEPT ![k].state = "closed", ![k].answer = "none"]
        /\ IF Current(k)
           THEN /\ ws' = [ws EXCEPT ![n][m] = Nil]
                /\ stage' = [stage EXCEPT ![n][m] = "waiting"]
           ELSE UNCHANGED <<ws, stage>>
        /\ UNCHANGED <<up, starting, meshPairedAt, savedPeers, disk, trusted>>

\* ... because the client closed it,
Closed(k) ==
    /\ conn[k].state = "closing"
    /\ Close(k)

\* ... or because the relay refused it or the network failed.
Lost(k) ==
    /\ conn[k].state \in {"connecting", "open"}
    /\ Close(k)

\* The reconnect timer.
Reconnect(n, m) ==
    /\ stage[n][m] = "waiting"
    /\ stage' = [stage EXCEPT ![n][m] = "credential"]
    /\ UNCHANGED <<up, starting, meshPairedAt, savedPeers, disk, ws, conn, trusted>>

\* Mutant of Handshake: whoever is not known is evicted.
HandshakeEvicts(k) ==
    LET n == conn[k].from
        m == conn[k].to
        accepted == isMeshActive(m) /\ n \in savedPeers[m]
    IN  /\ conn[k].hello
        /\ m \in up
        /\ conn' = [conn EXCEPT ![k].hello = FALSE,
                                ![k].session = accepted,
                                ![k].answer = IF conn[k].state = "closed" THEN "none"
                                              ELSE IF accepted THEN "ack" ELSE "evict"]
        /\ UNCHANGED <<up, starting, meshPairedAt, savedPeers, disk, stage, ws, trusted>>

\* The handshake arrives: handleHandshake.  The answer to a client that is gone
\* is lost.
Handshake(k) ==
    LET n == conn[k].from
        m == conn[k].to
        accepted == isMeshActive(m) /\ n \in savedPeers[m]
    IN  /\ conn[k].hello
        /\ m \in up
        /\ conn' = [conn EXCEPT ![k].hello = FALSE,
                                ![k].session = accepted,
                                ![k].answer = IF conn[k].state = "closed" THEN "none"
                                              ELSE IF ~isMeshActive(m) THEN "evict"
                                              ELSE IF accepted THEN "ack" ELSE "retry"]
        /\ UNCHANGED <<up, starting, meshPairedAt, savedPeers, disk, stage, ws, trusted>>

\* MESH_EVICT: the client stops, the peer is forgotten for good.
Evicted(k) ==
    LET n == conn[k].from
        m == conn[k].to
    IN  /\ Current(k)
        /\ conn[k].state = "open"
        /\ conn[k].answer = "evict"
        /\ stage' = [stage EXCEPT ![n][m] = "none"]
        /\ ws' = [ws EXCEPT ![n][m] = Nil]
        /\ conn' = [conn EXCEPT ![k].state = "closing", ![k].answer = "none"]
        /\ savedPeers' = [savedPeers EXCEPT ![n] = @ \ {m}]
        /\ disk' = [disk EXCEPT ![n].peers = savedPeers[n] \ {m}]
        /\ trusted' = trusted \ {<<n, m>>}
        /\ UNCHANGED <<up, starting, meshPairedAt>>

\* Mutant of Retried: the client stops.
RetriedStops(k) ==
    /\ Current(k)
    /\ conn[k].state = "open"
    /\ conn[k].answer = "retry"
    /\ conn' = [conn EXCEPT ![k].state = "closing", ![k].answer = "none"]
    /\ ws' = [ws EXCEPT ![conn[k].from][conn[k].to] = Nil]
    /\ UNCHANGED <<up, starting, meshPairedAt, savedPeers, disk, stage, trusted>>

\* MESH_RETRY: close, and let 'close' schedule the next attempt.
Retried(k) ==
    /\ Current(k)
    /\ conn[k].state = "open"
    /\ conn[k].answer = "retry"
    /\ conn' = [conn EXCEPT ![k].state = "closing", ![k].answer = "none"]
    /\ UNCHANGED <<up, starting, meshPairedAt, savedPeers, disk, stage, ws, trusted>>

\* The acknowledgement: the forwards are set up (module Tunnel).
Linked(k) ==
    /\ Current(k)
    /\ conn[k].state = "open"
    /\ conn[k].answer = "ack"
    /\ conn' = [conn EXCEPT ![k].linked = TRUE, ![k].answer = "none"]
    /\ UNCHANGED <<up, starting, meshPairedAt, savedPeers, disk, stage, ws, trusted>>

\* client_offline, after whatever the client had sent: the session is torn down.
ClientOffline(k) ==
    /\ conn[k].state = "closed"
    /\ ~conn[k].hello
    /\ conn' = [conn EXCEPT ![k] = UnusedConn]
    /\ UNCHANGED <<up, starting, meshPairedAt, savedPeers, disk, stage, ws, trusted>>

-----------------------------------------------------------------------------
Membership ==
    \E n \in Servers :
        \/ \E S \in SUBSET (Servers \ {n}) : Invite(n, S) \/ InviteCut(n, S)
        \/ \E m \in Servers : ForwardChange(n, m)
        \/ Regenerate(n) \/ Leave(n) \/ LeaveOffline(n) \/ LeaveCut(n)
        \/ Lapse(n) \/ Sweep(n)
        \/ Stop(n) \/ Start(n) \/ Boot(n) \/ UplinkLost(n)

\* What happens while nobody decides anything and the network works.
Quiet ==
    \/ \E n, m \in Servers : OpenSocket(n, m) \/ Reconnect(n, m)
    \/ \E k \in Conns :
          \/ Opened(k) \/ Closed(k) \/ ClientOffline(k)
          \/ Handshake(k) \/ Linked(k) \/ Evicted(k) \/ Retried(k)

Next == Membership \/ Quiet \/ \E k \in Conns : Lost(k)

Spec == Init /\ [][Next]_vars

\* Timers fire, and a WebSocket that is not cut off delivers.
Fairness ==
    /\ \A n, m \in Servers :
          n # m => WF_vars(OpenSocket(n, m) \/ Reconnect(n, m))
    /\ \A k \in Conns :
          WF_vars(\/ Opened(k) \/ Closed(k) \/ ClientOffline(k)
                  \/ Handshake(k) \/ Linked(k) \/ Evicted(k) \/ Retried(k))

FairSpec == Spec /\ Fairness

-----------------------------------------------------------------------------
(* Properties *)

\* The clients that run are those of the saved peers, and the file says the
\* same, whatever was invited, evicted, swept, left and restarted
\* (index.ts:424-436, 470-478, 503-547).
ClientsMatchPeers ==
    \A n \in up :
        /\ {m \in Servers : stage[n][m] # "none"} = savedPeers[n]
        /\ disk[n] = [paired |-> meshPairedAt[n], peers |-> savedPeers[n]]

\* A client has a connection exactly when it says so, and no other connection
\* of its machine is taken for its own (mesh-client.ts:114-154).
OneConnection ==
    \A n, m \in Servers :
        /\ stage[n][m] = "connected" <=> ws[n][m] # Nil
        /\ ws[n][m] # Nil => /\ conn[ws[n][m]].from = n
                             /\ conn[ws[n][m]].to = m
                             /\ conn[ws[n][m]].state \in {"connecting", "open", "closing"}

\* "Durable ejection: survives restarts and is honoured over stale invites, so
\* the machine stays out until the QR is shown again" (index.ts:555-556),
\* wherever the process dies, if nobody leaves while the daemon starts.
EjectedStaysOut ==
    [][\A n \in Servers :
          disk[n].paired = "ejected" => disk'[n].paired = "ejected" \/ Regenerate(n)]_vars

\* A peer that was in the mesh ever since its client was started is not
\* forgotten because of an answer to an older connection
\* (mesh-client.ts:127, index.ts:421-436).
MemberNotEvicted ==
    [][\A n, m \in Servers :
          (m \in savedPeers[n] /\ <<n, m>> \in trusted /\ \E k \in Conns : Evicted(k))
              => m \in savedPeers'[n]]_vars

\* "so the race converges once the peer's invite lands" (mesh-client.ts:326):
\* however invites, attempts, restarts and cuts interleaved before, once they
\* are over two machines that have one another for peers are linked for good
\* (mesh-client.ts:148-154, 317-335, bridge.ts:512-526).
MembersMeet ==
    <>[][Quiet]_vars =>
        \A n, m \in Servers :
            <>[](/\ {n, m} \subseteq up /\ isMeshActive(m)
                 /\ m \in savedPeers[n] /\ n \in savedPeers[m])
                => <>[](ws[n][m] # Nil /\ conn[ws[n][m]].linked /\ conn[ws[n][m]].session)

\* "We have LEFT/EXPIRED the cluster -> permanent MESH_EVICT" (bridge.ts:506):
\* nobody else evicts.
OnlyTheGoneEvict ==
    [][\A k \in Conns :
          conn'[k].answer = "evict" /\ conn[k].answer # "evict"
              => meshPairedAt[conn[k].to] \in {"ejected", "lapsed"}]_vars
=============================================================================
