----------------------------- MODULE MeshProofs -----------------------------
(***************************************************************************)
(* Theorems about Mesh: types, one connection per client, clients and      *)
(* files that agree with the peers in memory, durable ejection, and that   *)
(* no peer that stayed in the mesh is evicted.                             *)
(***************************************************************************)
EXTENDS Mesh, TLAPS

-----------------------------------------------------------------------------
(* Types. *)

\* What is left of the connections when clients stop are connections.
LEMMA GivenUpType ==
    ASSUME TypeOK, NEW n \in Servers, NEW S \in SUBSET Servers
    PROVE  /\ GivenUp(n, S) \in [Conns -> Conn]
           /\ \A k \in Conns : WellFormed(GivenUp(n, S)[k])
<1>1. ASSUME NEW k \in Conns
      PROVE  /\ GivenUp(n, S)[k] \in Conn
             /\ WellFormed(GivenUp(n, S)[k])
  <2>1. conn[k] \in Conn /\ WellFormed(conn[k])
    BY DEF TypeOK
  <2>2. CASE Current(k) /\ conn[k].from = n /\ conn[k].to \in S
    <3>1. GivenUp(n, S)[k] = [conn[k] EXCEPT !.state = "closing"]
      BY <2>2 DEF GivenUp
    <3>2. conn[k].from \in Servers /\ conn[k].to \in Servers
      BY <2>2
    <3> QED BY <2>1, <3>1, <3>2 DEF Conn, WellFormed
  <2>3. CASE ~(Current(k) /\ conn[k].from = n /\ conn[k].to \in S)
    BY <2>1, <2>3 DEF GivenUp
  <2> QED BY <2>2, <2>3
<1> QED BY <1>1 DEF GivenUp

\* ... and when the sessions of a server go.
LEMMA DroppedType ==
    ASSUME TypeOK, NEW n \in Servers
    PROVE  /\ Dropped(n) \in [Conns -> Conn]
           /\ \A k \in Conns : WellFormed(Dropped(n)[k])
<1>1. ASSUME NEW k \in Conns
      PROVE  /\ Dropped(n)[k] \in Conn
             /\ WellFormed(Dropped(n)[k])
  <2>1. conn[k] \in Conn /\ WellFormed(conn[k])
    BY DEF TypeOK
  <2>2. CASE conn[k].to = n
    <3>1. Dropped(n)[k] = [conn[k] EXCEPT !.state = IF @ = "open" THEN "closing" ELSE @,
                                          !.hello = FALSE, !.session = FALSE]
      BY <2>2 DEF Dropped
    <3>2. conn[k].state # "unused"
      BY <2>1, <2>2, NilAssumption DEF WellFormed, UnusedConn
    <3>3. conn[k].from \in Servers
      BY <2>1, <3>2 DEF WellFormed
    <3>4. Dropped(n)[k] \in Conn
      BY <2>1, <3>1 DEF Conn
    <3>5. /\ Dropped(n)[k].from = conn[k].from /\ Dropped(n)[k].to = n
          /\ Dropped(n)[k].state # "unused"
      BY <2>1, <2>2, <3>1, <3>2 DEF Conn
    <3> QED BY <3>3, <3>4, <3>5 DEF WellFormed
  <2>3. CASE conn[k].to # n
    BY <2>1, <2>3 DEF Dropped
  <2> QED BY <2>2, <2>3
<1> QED BY <1>1 DEF Dropped

\* Stopping and starting clients keeps their types.
LEMMA ClientsType ==
    ASSUME TypeOK, NEW n \in Servers, NEW S \in SUBSET Servers, NEW T \in SUBSET Servers,
           Clients(n, S, T)
    PROVE  /\ stage' \in [Servers -> [Servers -> Stages]]
           /\ ws' \in [Servers -> [Servers -> Conns \cup {Nil}]]
           /\ conn' \in [Conns -> Conn]
           /\ \A k \in Conns : WellFormed(conn'[k])
           /\ TrustedBy(n, S, T) \subseteq Servers \X Servers
<1>1. stage' \in [Servers -> [Servers -> Stages]]
  BY DEF TypeOK, Clients, Stages
<1>2. ws' \in [Servers -> [Servers -> Conns \cup {Nil}]]
  BY DEF TypeOK, Clients
<1>3. S \cup T \in SUBSET Servers
  OBVIOUS
<1>4. conn' = GivenUp(n, S \cup T)
  BY DEF Clients
<1>5. TrustedBy(n, S, T) \subseteq Servers \X Servers
  BY DEF TypeOK, TrustedBy
<1> QED BY <1>1, <1>2, <1>3, <1>4, <1>5, GivenUpType

\* A daemon that stops leaves the types.
LEMMA DownType ==
    ASSUME TypeOK, NEW n \in Servers, NEW file \in File, Down(n, file)
    PROVE  /\ up' \subseteq Servers
           /\ starting' \subseteq Servers \ up'
           /\ meshPairedAt' \in [Servers -> Associations]
           /\ savedPeers' \in [Servers -> SUBSET Servers]
           /\ disk' \in [Servers -> File]
           /\ stage' \in [Servers -> [Servers -> Stages]]
           /\ ws' \in [Servers -> [Servers -> Conns \cup {Nil}]]
           /\ conn' \in [Conns -> Conn]
           /\ \A k \in Conns : WellFormed(conn'[k])
<1>1. /\ up' \subseteq Servers
      /\ starting' \subseteq Servers \ up'
      /\ meshPairedAt' \in [Servers -> Associations]
      /\ savedPeers' \in [Servers -> SUBSET Servers]
      /\ disk' \in [Servers -> File]
  BY DEF TypeOK, Down, Associations
<1>2. stage' \in [Servers -> [Servers -> Stages]]
  BY DEF TypeOK, Down, Stages
<1>3. ws' \in [Servers -> [Servers -> Conns \cup {Nil}]]
  BY DEF TypeOK, Down
<1>4. ASSUME NEW k \in Conns
      PROVE  /\ conn'[k] \in Conn
             /\ WellFormed(conn'[k])
  <2>1. conn[k] \in Conn /\ WellFormed(conn[k])
    BY DEF TypeOK
  <2>2. conn'[k] = IF conn[k].from = n THEN [conn[k] EXCEPT !.state = "closed", !.answer = "none"]
                   ELSE IF conn[k].to = n THEN [conn[k] EXCEPT !.hello = FALSE, !.session = FALSE]
                   ELSE conn[k]
    BY DEF Down
  <2>3. ASSUME conn[k].from = n \/ conn[k].to = n
        PROVE  conn[k].state # "unused" /\ conn[k].from \in Servers /\ conn[k].to \in Servers
    BY <2>1, <2>3, NilAssumption DEF WellFormed, UnusedConn
  <2>4. CASE conn[k].from = n
    <3>1. conn'[k] = [conn[k] EXCEPT !.state = "closed", !.answer = "none"]
      BY <2>2, <2>4
    <3>2. conn'[k] \in Conn
      BY <2>1, <3>1 DEF Conn
    <3>3. /\ conn'[k].state = "closed"
          /\ conn'[k].from = conn[k].from /\ conn'[k].to = conn[k].to
      BY <2>1, <3>1 DEF Conn
    <3> QED BY <2>3, <2>4, <3>2, <3>3 DEF WellFormed
  <2>5. CASE conn[k].from # n /\ conn[k].to = n
    <3>1. conn'[k] = [conn[k] EXCEPT !.hello = FALSE, !.session = FALSE]
      BY <2>2, <2>5
    <3>2. conn'[k] \in Conn
      BY <2>1, <3>1 DEF Conn
    <3>3. /\ conn'[k].state = conn[k].state
          /\ conn'[k].from = conn[k].from /\ conn'[k].to = conn[k].to
      BY <2>1, <3>1 DEF Conn
    <3> QED BY <2>3, <2>5, <3>2, <3>3 DEF WellFormed
  <2>6. CASE conn[k].from # n /\ conn[k].to # n
    BY <2>1, <2>2, <2>6
  <2> QED BY <2>4, <2>5, <2>6
<1>5. conn' \in [Conns -> Conn]
  BY <1>4 DEF Down
<1> QED BY <1>1, <1>2, <1>3, <1>4, <1>5

\* A handler of the membership keeps the types.
LEMMA MembershipTypes ==
    ASSUME TypeOK, Membership
    PROVE  TypeOK'
<1>1. PICK n \in Servers :
          \/ \E S \in SUBSET (Servers \ {n}) : Invite(n, S) \/ InviteCut(n, S)
          \/ \E m \in Servers : ForwardChange(n, m)
          \/ Regenerate(n) \/ Leave(n) \/ LeaveOffline(n) \/ LeaveCut(n)
          \/ Lapse(n) \/ Sweep(n)
          \/ Stop(n) \/ Start(n) \/ Boot(n) \/ UplinkLost(n)
  BY DEF Membership
<1>2. /\ \A p \in Associations, S \in SUBSET Servers : [paired |-> p, peers |-> S] \in File
      /\ \A p \in Associations : [disk[n] EXCEPT !.paired = p] \in File
      /\ \A S \in SUBSET Servers : [disk[n] EXCEPT !.peers = S] \in File
  <2>1. disk[n] \in File
    BY DEF TypeOK
  <2>2. \A p \in Associations, S \in SUBSET Servers : [paired |-> p, peers |-> S] \in File
    BY DEF File
  <2>3. \A p \in Associations : [disk[n] EXCEPT !.paired = p] \in File
    BY <2>1 DEF File
  <2>4. \A S \in SUBSET Servers : [disk[n] EXCEPT !.peers = S] \in File
    BY <2>1 DEF File
  <2> QED BY <2>2, <2>3, <2>4
<1>3. /\ disk[n].paired \in Associations
      /\ disk[n].peers \in SUBSET Servers
  BY DEF TypeOK, File
<1>4. /\ {"active", "ejected", "lapsed", "never"} \subseteq Associations
      /\ \A p \in Associations : Lapsed(p) \in Associations
  BY DEF Associations, Lapsed
<1>5. ASSUME NEW S \in SUBSET (Servers \ {n}), Invite(n, S)
      PROVE  TypeOK'
  <2>1. /\ Clients(n, Servers \ S, S)
        /\ trusted' = TrustedBy(n, Servers \ S, S)
    BY <1>5 DEF Invite
  <2>2. /\ S \in SUBSET Servers
        /\ Servers \ S \in SUBSET Servers
    OBVIOUS
  <2>3. /\ stage' \in [Servers -> [Servers -> Stages]]
        /\ ws' \in [Servers -> [Servers -> Conns \cup {Nil}]]
        /\ conn' \in [Conns -> Conn]
        /\ \A k \in Conns : WellFormed(conn'[k])
        /\ trusted' \subseteq Servers \X Servers
    BY <2>1, <2>2, ClientsType
  <2>4. /\ meshPairedAt' \in [Servers -> Associations]
        /\ savedPeers' \in [Servers -> SUBSET Servers]
    BY <1>4, <1>5, <2>2 DEF TypeOK, Invite
  <2>5. disk' \in [Servers -> File]
    BY <1>2, <1>3, <1>4, <1>5, <2>2 DEF TypeOK, Invite
  <2>6. up' = up /\ starting' = starting
    BY <1>5 DEF Invite
  <2> QED BY <2>3, <2>4, <2>5, <2>6 DEF TypeOK
<1>6. ASSUME NEW S \in SUBSET (Servers \ {n}), InviteCut(n, S)
      PROVE  TypeOK'
  <2>1. [disk[n] EXCEPT !.peers = S] \in File
    BY <1>2
  <2>2. Down(n, [disk[n] EXCEPT !.peers = S])
    BY <1>6 DEF InviteCut
  <2>3. trusted' \subseteq Servers \X Servers
    BY <1>6 DEF InviteCut, TrustedBy, TypeOK
  <2> QED BY <2>1, <2>2, <2>3, DownType DEF TypeOK
<1>7. ASSUME NEW m \in Servers, ForwardChange(n, m)
      PROVE  TypeOK'
  <2>1. /\ Clients(n, {}, {m})
        /\ trusted' = TrustedBy(n, {}, {m})
        /\ {} \in SUBSET Servers /\ {m} \in SUBSET Servers
    BY <1>7 DEF ForwardChange
  <2>2. /\ stage' \in [Servers -> [Servers -> Stages]]
        /\ ws' \in [Servers -> [Servers -> Conns \cup {Nil}]]
        /\ conn' \in [Conns -> Conn]
        /\ \A k \in Conns : WellFormed(conn'[k])
        /\ trusted' \subseteq Servers \X Servers
    BY <2>1, ClientsType
  <2> QED BY <1>7, <2>2 DEF TypeOK, ForwardChange
<1>8. CASE Regenerate(n)
  <2> DEFINE restarted == IF isMeshActive(n) THEN {} ELSE savedPeers[n]
  <2>1. /\ Clients(n, {}, restarted)
        /\ trusted' = TrustedBy(n, {}, restarted)
        /\ {} \in SUBSET Servers /\ restarted \in SUBSET Servers
    BY <1>8 DEF Regenerate, TypeOK
  <2> HIDE DEF restarted
  <2>2. /\ stage' \in [Servers -> [Servers -> Stages]]
        /\ ws' \in [Servers -> [Servers -> Conns \cup {Nil}]]
        /\ conn' \in [Conns -> Conn]
        /\ \A k \in Conns : WellFormed(conn'[k])
        /\ trusted' \subseteq Servers \X Servers
    BY <2>1, ClientsType
  <2>3. /\ meshPairedAt' \in [Servers -> Associations]
        /\ up' = up /\ starting' = starting /\ savedPeers' = savedPeers
    BY <1>4, <1>8 DEF TypeOK, Regenerate
  <2>4. \E file \in File : disk' = [disk EXCEPT ![n] = file]
    BY <1>2, <1>4, <1>8 DEF TypeOK, Regenerate
  <2>5. disk' \in [Servers -> File]
    BY <2>4 DEF TypeOK
  <2> QED BY <2>2, <2>3, <2>5 DEF TypeOK
<1>9. CASE Leave(n) \/ Sweep(n)
  <2>1. /\ Clients(n, Servers, {})
        /\ savedPeers' = [savedPeers EXCEPT ![n] = {}]
        /\ trusted' \subseteq TrustedBy(n, Servers, {})
        /\ {} \in SUBSET Servers /\ Servers \in SUBSET Servers
    BY <1>9 DEF Leave, Sweep, stopAllMesh
  <2>2. /\ stage' \in [Servers -> [Servers -> Stages]]
        /\ ws' \in [Servers -> [Servers -> Conns \cup {Nil}]]
        /\ conn' \in [Conns -> Conn]
        /\ \A k \in Conns : WellFormed(conn'[k])
        /\ trusted' \subseteq Servers \X Servers
    BY <2>1, ClientsType
  <2>3. /\ meshPairedAt' \in [Servers -> Associations]
        /\ savedPeers' \in [Servers -> SUBSET Servers]
        /\ up' = up /\ starting' = starting
    BY <1>4, <1>9, <2>1 DEF TypeOK, Leave, Sweep
  <2>4. \E file \in File : disk' = [disk EXCEPT ![n] = file]
    BY <1>2, <1>4, <1>9 DEF TypeOK, Leave, Sweep
  <2>5. disk' \in [Servers -> File]
    BY <2>4 DEF TypeOK
  <2> QED BY <2>2, <2>3, <2>5 DEF TypeOK
<1>10. CASE LeaveOffline(n) \/ Lapse(n)
  <2>1. trusted' \subseteq trusted
    BY <1>10 DEF LeaveOffline, Lapse
  <2>2. meshPairedAt' \in [Servers -> Associations]
    BY <1>4, <1>10 DEF TypeOK, LeaveOffline, Lapse
  <2>3. \E file \in File : disk' = [disk EXCEPT ![n] = file]
    BY <1>2, <1>3, <1>4, <1>10 DEF TypeOK, LeaveOffline, Lapse
  <2>4. disk' \in [Servers -> File]
    BY <2>3 DEF TypeOK
  <2>5. UNCHANGED <<up, starting, savedPeers, stage, ws, conn>>
    BY <1>10 DEF LeaveOffline, Lapse
  <2> QED BY <2>1, <2>2, <2>4, <2>5 DEF TypeOK
<1>11. CASE LeaveCut(n) \/ Stop(n)
  <2>1. /\ disk[n] \in File
        /\ [disk[n] EXCEPT !.paired = "ejected"] \in File
    BY <1>2, <1>4 DEF TypeOK
  <2>2. PICK file \in File : Down(n, file)
    BY <1>11, <2>1 DEF LeaveCut, Stop
  <2>3. trusted' \subseteq Servers \X Servers
    BY <1>11 DEF LeaveCut, Stop, TrustedBy, TypeOK
  <2> QED BY <2>2, <2>3, DownType DEF TypeOK
<1>12. CASE Start(n)
  BY <1>3, <1>12 DEF TypeOK, Start
<1>13. CASE Boot(n)
  <2>1. PICK p \in Associations, q \in Associations, started \in SUBSET Servers :
           /\ up' = up \cup {n}
           /\ starting' = starting \ {n}
           /\ meshPairedAt' = [meshPairedAt EXCEPT ![n] = p]
           /\ savedPeers' = [savedPeers EXCEPT ![n] = started]
           /\ disk' = [disk EXCEPT ![n] = [paired |-> q, peers |-> started]]
           /\ stage' = [stage EXCEPT ![n] = [m \in Servers |-> IF m \in started
                                                               THEN "credential" ELSE "none"]]
           /\ conn' = Dropped(n)
           /\ trusted' = TrustedBy(n, {}, started)
           /\ ws' = ws
    <3> DEFINE legacy == meshPairedAt[n] = "never" /\ disk[n].peers # {}
               p == IF legacy THEN "active" ELSE meshPairedAt[n]
               q == IF legacy THEN "active" ELSE disk[n].paired
               started == IF p = "active" THEN disk[n].peers ELSE {}
    <3>1. /\ p \in Associations /\ q \in Associations
          /\ started \in SUBSET Servers
      BY <1>3, <1>4 DEF TypeOK
    <3>2. /\ up' = up \cup {n}
          /\ starting' = starting \ {n}
          /\ meshPairedAt' = [meshPairedAt EXCEPT ![n] = p]
          /\ savedPeers' = [savedPeers EXCEPT ![n] = started]
          /\ disk' = [disk EXCEPT ![n] = [paired |-> q, peers |-> started]]
          /\ stage' = [stage EXCEPT ![n] = [m \in Servers |-> IF m \in started
                                                              THEN "credential" ELSE "none"]]
          /\ conn' = Dropped(n)
          /\ trusted' = TrustedBy(n, {}, started)
          /\ ws' = ws
      BY <1>13 DEF Boot
    <3> HIDE DEF p, q, started
    <3> QED BY <3>1, <3>2
  <2>2. /\ up' \subseteq Servers
        /\ starting' \subseteq Servers \ up'
        /\ meshPairedAt' \in [Servers -> Associations]
        /\ savedPeers' \in [Servers -> SUBSET Servers]
    BY <2>1 DEF TypeOK
  <2>3. disk' \in [Servers -> File]
    BY <1>2, <2>1 DEF TypeOK
  <2>4. stage' \in [Servers -> [Servers -> Stages]]
    BY <2>1 DEF TypeOK, Stages
  <2>5. /\ conn' \in [Conns -> Conn]
        /\ \A k \in Conns : WellFormed(conn'[k])
    BY <2>1, DroppedType
  <2>6. trusted' \subseteq Servers \X Servers
    BY <2>1 DEF TypeOK, TrustedBy
  <2> QED BY <2>1, <2>2, <2>3, <2>4, <2>5, <2>6 DEF TypeOK
<1>14. CASE UplinkLost(n)
  <2>1. conn' = Dropped(n) /\ UNCHANGED <<up, starting, meshPairedAt, savedPeers, disk, stage,
                                          ws, trusted>>
    BY <1>14 DEF UplinkLost
  <2> QED BY <2>1, DroppedType DEF TypeOK
<1> QED
  BY <1>1, <1>5, <1>6, <1>7, <1>8, <1>9, <1>10, <1>11, <1>12, <1>13, <1>14

\* An event of a client or of a connection keeps the types.
LEMMA ConnectionTypes ==
    ASSUME TypeOK, Quiet \/ \E k \in Conns : Lost(k)
    PROVE  TypeOK'
<1>1. ASSUME NEW k \in Conns, NEW c \in Conn, conn' = [conn EXCEPT ![k] = c], WellFormed(c)
      PROVE  /\ conn' \in [Conns -> Conn]
             /\ \A j \in Conns : WellFormed(conn'[j])
  BY <1>1 DEF TypeOK
<1>2. ASSUME NEW n \in Servers, NEW m \in Servers, OpenSocket(n, m)
      PROVE  TypeOK'
  <2>1. PICK k \in Conns :
           /\ conn' = [conn EXCEPT ![k] = [UnusedConn EXCEPT !.from = n, !.to = m,
                                                            !.state = "connecting"]]
           /\ ws' = [ws EXCEPT ![n][m] = k]
    BY <1>2 DEF OpenSocket
  <2> DEFINE c == [UnusedConn EXCEPT !.from = n, !.to = m, !.state = "connecting"]
  <2>2. c \in Conn
    BY DEF UnusedConn, Conn
  <2>3. c.state = "connecting" /\ c.from = n /\ c.to = m
    BY DEF UnusedConn
  <2>4. WellFormed(c)
    BY <2>3 DEF WellFormed
  <2> HIDE DEF c
  <2>5. /\ conn' \in [Conns -> Conn]
        /\ \A j \in Conns : WellFormed(conn'[j])
    BY <1>1, <2>1, <2>2, <2>4 DEF c
  <2>6. ws' \in [Servers -> [Servers -> Conns \cup {Nil}]]
    BY <2>1 DEF TypeOK
  <2>7. stage' \in [Servers -> [Servers -> Stages]]
    BY <1>2 DEF TypeOK, OpenSocket, Stages
  <2> QED BY <1>2, <2>5, <2>6, <2>7 DEF TypeOK, OpenSocket
<1>3. ASSUME NEW n \in Servers, NEW m \in Servers, Reconnect(n, m)
      PROVE  TypeOK'
  BY <1>3 DEF TypeOK, Reconnect, Stages
\* Every other event changes a connection in use, which stays in use.
<1>4. ASSUME NEW k \in Conns, NEW c \in Conn, conn' = [conn EXCEPT ![k] = c],
             conn[k].state # "unused", c.state # "unused",
             c.from = conn[k].from, c.to = conn[k].to
      PROVE  /\ conn' \in [Conns -> Conn]
             /\ \A j \in Conns : WellFormed(conn'[j])
  <2>1. WellFormed(c)
    BY <1>4 DEF TypeOK, WellFormed
  <2> QED BY <1>1, <1>4, <2>1
<1>5. ASSUME NEW k \in Conns, Opened(k)
      PROVE  TypeOK'
  <2> DEFINE c == [conn[k] EXCEPT !.state = "open", !.hello = TRUE]
  <2>1. conn[k] \in Conn /\ conn[k].state # "unused"
    BY <1>5 DEF TypeOK, Opened
  <2>2. c \in Conn
    BY <2>1 DEF Conn
  <2>3. c.from = conn[k].from /\ c.to = conn[k].to /\ c.state # "unused"
    BY <2>1 DEF Conn
  <2>4. conn' = [conn EXCEPT ![k] = c]
    BY <1>5 DEF TypeOK, Opened
  <2> HIDE DEF c
  <2>5. /\ conn' \in [Conns -> Conn]
        /\ \A j \in Conns : WellFormed(conn'[j])
    BY <1>4, <2>1, <2>2, <2>3, <2>4
  <2> QED BY <1>5, <2>5 DEF TypeOK, Opened
<1>6. ASSUME NEW k \in Conns, Closed(k) \/ Lost(k)
      PROVE  TypeOK'
  <2> DEFINE c == [conn[k] EXCEPT !.state = "closed", !.answer = "none"]
  <2>1. /\ conn[k] \in Conn /\ conn[k].state # "unused"
        /\ Close(k)
    BY <1>6 DEF TypeOK, Closed, Lost
  <2>2. c \in Conn
    BY <2>1 DEF Conn
  <2>3. c.from = conn[k].from /\ c.to = conn[k].to /\ c.state # "unused"
    BY <2>1 DEF Conn
  <2>4. conn' = [conn EXCEPT ![k] = c]
    BY <2>1 DEF TypeOK, Close
  <2> HIDE DEF c
  <2>5. /\ conn' \in [Conns -> Conn]
        /\ \A j \in Conns : WellFormed(conn'[j])
    BY <1>4, <2>1, <2>2, <2>3, <2>4
  <2>6. conn[k].from \in Servers /\ conn[k].to \in Servers
    BY <2>1 DEF TypeOK, WellFormed
  <2>7. PICK n \in Servers, m \in Servers :
           \/ UNCHANGED <<ws, stage>>
           \/ /\ ws' = [ws EXCEPT ![n][m] = Nil]
              /\ stage' = [stage EXCEPT ![n][m] = "waiting"]
    BY <2>1, <2>6 DEF Close
  <2>8. ws' \in [Servers -> [Servers -> Conns \cup {Nil}]]
    <3>1. CASE ws' = ws
      BY <3>1 DEF TypeOK
    <3>2. CASE ws' = [ws EXCEPT ![n][m] = Nil]
      BY <3>2 DEF TypeOK
    <3> QED BY <2>7, <3>1, <3>2
  <2>9. stage' \in [Servers -> [Servers -> Stages]]
    <3>1. CASE stage' = stage
      BY <3>1 DEF TypeOK
    <3>2. CASE stage' = [stage EXCEPT ![n][m] = "waiting"]
      BY <3>2 DEF TypeOK, Stages
    <3> QED BY <2>7, <3>1, <3>2
  <2>10. UNCHANGED <<up, starting, meshPairedAt, savedPeers, disk, trusted>>
    BY <2>1 DEF Close
  <2> QED BY <2>5, <2>8, <2>9, <2>10 DEF TypeOK
<1>7. ASSUME NEW k \in Conns, Handshake(k)
      PROVE  TypeOK'
  <2>1. conn[k] \in Conn /\ conn[k].state # "unused"
    BY <1>7 DEF TypeOK, Handshake, WellFormed, UnusedConn
  <2>2. PICK a \in {"none", "ack", "evict", "retry"}, x \in BOOLEAN :
           conn' = [conn EXCEPT ![k].hello = FALSE, ![k].session = x, ![k].answer = a]
    BY <1>7 DEF Handshake
  <2> DEFINE c == [conn[k] EXCEPT !.hello = FALSE, !.session = x, !.answer = a]
  <2>3. c \in Conn
    BY <2>1 DEF Conn
  <2>4. c.from = conn[k].from /\ c.to = conn[k].to /\ c.state # "unused"
    BY <2>1 DEF Conn
  <2>5. conn' = [conn EXCEPT ![k] = c]
    BY <2>2 DEF TypeOK
  <2> HIDE DEF c
  <2>6. /\ conn' \in [Conns -> Conn]
        /\ \A j \in Conns : WellFormed(conn'[j])
    BY <1>4, <2>1, <2>3, <2>4, <2>5
  <2> QED BY <1>7, <2>6 DEF TypeOK, Handshake
<1>8. ASSUME NEW k \in Conns, Retried(k)
      PROVE  TypeOK'
  <2> DEFINE c == [conn[k] EXCEPT !.state = "closing", !.answer = "none"]
  <2>1. conn[k] \in Conn /\ conn[k].state # "unused"
    BY <1>8 DEF TypeOK, Retried
  <2>2. c \in Conn
    BY <2>1 DEF Conn
  <2>3. c.from = conn[k].from /\ c.to = conn[k].to /\ c.state # "unused"
    BY <2>1 DEF Conn
  <2>4. conn' = [conn EXCEPT ![k] = c]
    BY <1>8 DEF TypeOK, Retried
  <2> HIDE DEF c
  <2>5. /\ conn' \in [Conns -> Conn]
        /\ \A j \in Conns : WellFormed(conn'[j])
    BY <1>4, <2>1, <2>2, <2>3, <2>4
  <2> QED BY <1>8, <2>5 DEF TypeOK, Retried
<1>9. ASSUME NEW k \in Conns, Linked(k)
      PROVE  TypeOK'
  <2> DEFINE c == [conn[k] EXCEPT !.linked = TRUE, !.answer = "none"]
  <2>1. conn[k] \in Conn /\ conn[k].state # "unused"
    BY <1>9 DEF TypeOK, Linked
  <2>2. c \in Conn
    BY <2>1 DEF Conn
  <2>3. c.from = conn[k].from /\ c.to = conn[k].to /\ c.state # "unused"
    BY <2>1 DEF Conn
  <2>4. conn' = [conn EXCEPT ![k] = c]
    BY <1>9 DEF TypeOK, Linked
  <2> HIDE DEF c
  <2>5. /\ conn' \in [Conns -> Conn]
        /\ \A j \in Conns : WellFormed(conn'[j])
    BY <1>4, <2>1, <2>2, <2>3, <2>4
  <2> QED BY <1>9, <2>5 DEF TypeOK, Linked
<1>10. ASSUME NEW k \in Conns, Evicted(k)
      PROVE  TypeOK'
  <2> DEFINE c == [conn[k] EXCEPT !.state = "closing", !.answer = "none"]
  <2>1. conn[k] \in Conn /\ conn[k].state # "unused"
    BY <1>10 DEF TypeOK, Evicted
  <2>2. c \in Conn
    BY <2>1 DEF Conn
  <2>3. c.from = conn[k].from /\ c.to = conn[k].to /\ c.state # "unused"
    BY <2>1 DEF Conn
  <2>4. conn' = [conn EXCEPT ![k] = c]
    BY <1>10 DEF TypeOK, Evicted
  <2> HIDE DEF c
  <2>5. /\ conn' \in [Conns -> Conn]
        /\ \A j \in Conns : WellFormed(conn'[j])
    BY <1>4, <2>1, <2>2, <2>3, <2>4
  <2>6. conn[k].from \in Servers /\ conn[k].to \in Servers
    BY <2>1 DEF TypeOK, WellFormed
  <2>7. ws' \in [Servers -> [Servers -> Conns \cup {Nil}]]
    BY <1>10, <2>6 DEF TypeOK, Evicted
  <2>8. stage' \in [Servers -> [Servers -> Stages]]
    BY <1>10, <2>6 DEF TypeOK, Evicted, Stages
  <2>9. disk[conn[k].from] \in File
    BY <2>6 DEF TypeOK
  <2>10. \A S \in SUBSET Servers : [disk[conn[k].from] EXCEPT !.peers = S] \in File
    BY <2>9 DEF File
  <2>11. disk' \in [Servers -> File]
    <3>1. savedPeers[conn[k].from] \ {conn[k].to} \in SUBSET Servers
      BY <2>6 DEF TypeOK
    <3>2. disk' = [disk EXCEPT ![conn[k].from].peers = savedPeers[conn[k].from] \ {conn[k].to}]
      BY <1>10 DEF Evicted
    <3> QED BY <2>6, <2>10, <3>1, <3>2 DEF TypeOK
  <2>12. /\ savedPeers' \in [Servers -> SUBSET Servers]
         /\ trusted' \subseteq Servers \X Servers
         /\ UNCHANGED <<up, starting, meshPairedAt>>
    BY <1>10, <2>6 DEF TypeOK, Evicted
  <2> QED BY <2>5, <2>7, <2>8, <2>11, <2>12 DEF TypeOK
<1>11. ASSUME NEW k \in Conns, ClientOffline(k)
       PROVE  TypeOK'
  <2>1. UnusedConn \in Conn /\ WellFormed(UnusedConn)
    BY DEF UnusedConn, Conn, WellFormed
  <2>2. conn' = [conn EXCEPT ![k] = UnusedConn]
    BY <1>11 DEF ClientOffline
  <2>3. /\ conn' \in [Conns -> Conn]
        /\ \A j \in Conns : WellFormed(conn'[j])
    BY <1>1, <2>1, <2>2
  <2> QED BY <1>11, <2>3 DEF TypeOK, ClientOffline
<1> QED
  BY <1>2, <1>3, <1>5, <1>6, <1>7, <1>8, <1>9, <1>10, <1>11 DEF Quiet

\* The servers as they are first started have the types.
LEMMA InitTypes == Init => TypeOK
<1>1. UnusedConn \in Conn /\ WellFormed(UnusedConn)
  BY DEF UnusedConn, Conn, WellFormed
<1>2. ASSUME NEW p \in {"never", "active"}
      PROVE  /\ p \in Associations
             /\ [paired |-> p, peers |-> {}] \in File
  BY DEF Associations, File
<1> SUFFICES ASSUME Init PROVE TypeOK
  OBVIOUS
<1>3. PICK p \in {"never", "active"} :
         /\ meshPairedAt = [n \in Servers |-> p]
         /\ disk = [n \in Servers |-> [paired |-> p, peers |-> {}]]
  BY DEF Init
<1>4. /\ meshPairedAt \in [Servers -> Associations]
      /\ disk \in [Servers -> File]
  BY <1>2, <1>3
<1>5. /\ conn \in [Conns -> Conn]
      /\ \A k \in Conns : WellFormed(conn[k])
  BY <1>1 DEF Init
<1>6. stage \in [Servers -> [Servers -> Stages]]
  BY DEF Init, Stages
<1> QED BY <1>4, <1>5, <1>6 DEF Init, TypeOK

\* Every variable keeps its type.
THEOREM TypeCorrect == Spec => []TypeOK
<1>1. Init => TypeOK
  BY InitTypes
<1>2. TypeOK /\ [Next]_vars => TypeOK'
  <2> SUFFICES ASSUME TypeOK, [Next]_vars PROVE TypeOK'
    OBVIOUS
  <2>1. CASE Next
    BY <2>1, MembershipTypes, ConnectionTypes DEF Next
  <2>2. CASE UNCHANGED vars
    BY <2>2 DEF TypeOK, vars, WellFormed
  <2> QED BY <2>1, <2>2
<1> QED BY <1>1, <1>2, PTL DEF Spec

-----------------------------------------------------------------------------
(* Clients and their connections. *)

\* A machine whose daemon does not run has no clients; one that runs has those
\* of its saved peers.
ClientsRun ==
    \A n, m \in Servers :
        stage[n][m] # "none" <=> n \in up /\ m \in savedPeers[n]

LinkInv == TypeOK /\ OneConnection /\ ClientsRun

\* The events of the clients and connections keep LinkInv.
LEMMA ConnectionLinks ==
    ASSUME LinkInv, Quiet \/ \E k \in Conns : Lost(k)
    PROVE  OneConnection' /\ ClientsRun'
<1> USE DEF LinkInv
<1>1. ASSUME NEW a \in Servers, NEW b \in Servers
      PROVE  /\ stage[a][b] \in Stages
             /\ ws[a][b] \in Conns \cup {Nil}
             /\ stage[a][b] = "connected" <=> ws[a][b] # Nil
             /\ ws[a][b] # Nil => /\ ws[a][b] \in Conns
                                  /\ conn[ws[a][b]].from = a
                                  /\ conn[ws[a][b]].to = b
                                  /\ conn[ws[a][b]].state \in {"connecting", "open", "closing"}
  BY DEF TypeOK, OneConnection
<1>2. ASSUME NEW n \in Servers, NEW m \in Servers, OpenSocket(n, m)
      PROVE  OneConnection' /\ ClientsRun'
  <2>1. PICK k \in Conns :
           /\ conn[k].state = "unused"
           /\ conn' = [conn EXCEPT ![k] = [UnusedConn EXCEPT !.from = n, !.to = m,
                                                            !.state = "connecting"]]
           /\ ws' = [ws EXCEPT ![n][m] = k]
    BY <1>2 DEF OpenSocket
  <2>2. /\ conn'[k].from = n /\ conn'[k].to = m /\ conn'[k].state = "connecting"
        /\ \A j \in Conns : j # k => conn'[j] = conn[j]
    BY <2>1 DEF TypeOK, UnusedConn
  <2>3. /\ stage[n][m] = "credential"
        /\ stage' = [stage EXCEPT ![n][m] = "connected"]
        /\ UNCHANGED <<up, savedPeers>>
    BY <1>2 DEF OpenSocket
  <2>4. k # Nil
    BY NilAssumption
  <2>5. ASSUME NEW a \in Servers, NEW b \in Servers
        PROVE  /\ stage'[a][b] = IF a = n /\ b = m THEN "connected" ELSE stage[a][b]
               /\ ws'[a][b] = IF a = n /\ b = m THEN k ELSE ws[a][b]
    BY <2>1, <2>3 DEF TypeOK
  <2>6. OneConnection'
    BY <1>1, <2>1, <2>2, <2>4, <2>5 DEF OneConnection
  <2>7. ClientsRun'
    BY <2>3, <2>5 DEF ClientsRun
  <2> QED BY <2>6, <2>7
<1>3. ASSUME NEW n \in Servers, NEW m \in Servers, Reconnect(n, m)
      PROVE  OneConnection' /\ ClientsRun'
  <2>1. ASSUME NEW a \in Servers, NEW b \in Servers
        PROVE  /\ stage'[a][b] = IF a = n /\ b = m THEN "credential" ELSE stage[a][b]
               /\ ws'[a][b] = ws[a][b]
    BY <1>3 DEF TypeOK, Reconnect
  <2>2. stage[n][m] = "waiting" /\ UNCHANGED <<up, savedPeers, conn>>
    BY <1>3 DEF Reconnect
  <2>3. OneConnection'
    BY <1>1, <2>1, <2>2 DEF OneConnection
  <2>4. ClientsRun'
    BY <2>1, <2>2 DEF ClientsRun
  <2> QED BY <2>3, <2>4
\* An event that leaves the clients alone and the connection in use.
<1>4. ASSUME NEW k \in Conns, UNCHANGED <<stage, ws, up, savedPeers>>,
             \A j \in Conns \ {k} : conn'[j] = conn[j],
             conn'[k].from = conn[k].from, conn'[k].to = conn[k].to,
             conn'[k].state \in {"connecting", "open", "closing"} \/ conn'[k].state = conn[k].state
      PROVE  OneConnection' /\ ClientsRun'
  <2>1. OneConnection'
    BY <1>1, <1>4 DEF OneConnection
  <2>2. ClientsRun'
    BY <1>4 DEF ClientsRun
  <2> QED BY <2>1, <2>2
<1>5. ASSUME NEW k \in Conns, Opened(k) \/ Handshake(k) \/ Linked(k) \/ Retried(k)
      PROVE  OneConnection' /\ ClientsRun'
  <2>1. UNCHANGED <<stage, ws, up, savedPeers>>
    BY <1>5 DEF Opened, Handshake, Linked, Retried
  <2>2. conn[k] \in Conn
    BY DEF TypeOK
  <2>3. \A j \in Conns \ {k} : conn'[j] = conn[j]
    BY <1>5 DEF TypeOK, Opened, Handshake, Linked, Retried
  <2>4. /\ conn'[k].from = conn[k].from /\ conn'[k].to = conn[k].to
        /\ conn'[k].state \in {"connecting", "open", "closing"} \/ conn'[k].state = conn[k].state
    BY <1>5, <2>2 DEF TypeOK, Conn, Opened, Handshake, Linked, Retried
  <2> QED BY <1>4, <2>1, <2>3, <2>4
\* An event after which the connection is nobody's.
<1>6. ASSUME NEW k \in Conns, NEW n \in Servers, NEW m \in Servers,
             conn[k].from = n, conn[k].to = m,
             \A j \in Conns \ {k} : conn'[j] = conn[j],
             ws[n][m] = k => ws' = [ws EXCEPT ![n][m] = Nil],
             ws[n][m] # k => ws' = ws
      PROVE  \A a, b \in Servers :
                /\ ws'[a][b] = IF ws[a][b] = k THEN Nil ELSE ws[a][b]
                /\ ws'[a][b] # Nil => conn'[ws'[a][b]] = conn[ws[a][b]]
  BY <1>1, <1>6, NilAssumption DEF TypeOK
<1>7. ASSUME NEW k \in Conns, Closed(k) \/ Lost(k)
      PROVE  OneConnection' /\ ClientsRun'
  <2> DEFINE n == conn[k].from
             m == conn[k].to
  <2>1. n \in Servers /\ m \in Servers /\ conn[k].state # "unused"
    BY <1>7 DEF TypeOK, WellFormed, Closed, Lost
  <2>2. /\ \A j \in Conns \ {k} : conn'[j] = conn[j]
        /\ ws[n][m] = k => /\ ws' = [ws EXCEPT ![n][m] = Nil]
                           /\ stage' = [stage EXCEPT ![n][m] = "waiting"]
        /\ ws[n][m] # k => UNCHANGED <<ws, stage>>
        /\ UNCHANGED <<up, savedPeers>>
    BY <1>7, <2>1 DEF TypeOK, Closed, Lost, Close, Current
  <2> HIDE DEF n, m
  <2>3. conn[k].from = n /\ conn[k].to = m
    BY DEF n, m
  <2>4. \A a, b \in Servers :
           /\ ws'[a][b] = IF ws[a][b] = k THEN Nil ELSE ws[a][b]
           /\ ws'[a][b] # Nil => conn'[ws'[a][b]] = conn[ws[a][b]]
    BY <1>6, <2>1, <2>2, <2>3
  <2>5. \A a, b \in Servers :
           stage'[a][b] = IF ws[a][b] = k THEN "waiting" ELSE stage[a][b]
    BY <1>1, <2>1, <2>2, <2>3, NilAssumption DEF TypeOK
  <2>6. k # Nil
    BY NilAssumption
  <2>7. OneConnection'
    BY <1>1, <2>4, <2>5, <2>6 DEF OneConnection
  <2>8. ClientsRun'
    BY <1>1, <2>2, <2>5, <2>6 DEF ClientsRun
  <2> QED BY <2>7, <2>8
<1>8. ASSUME NEW k \in Conns, Evicted(k)
      PROVE  OneConnection' /\ ClientsRun'
  <2> DEFINE n == conn[k].from
             m == conn[k].to
  <2>1. n \in Servers /\ m \in Servers /\ conn[k].state # "unused"
    BY <1>8 DEF TypeOK, WellFormed, Evicted
  <2>2. /\ \A j \in Conns \ {k} : conn'[j] = conn[j]
        /\ ws[n][m] = k
        /\ ws' = [ws EXCEPT ![n][m] = Nil]
        /\ stage' = [stage EXCEPT ![n][m] = "none"]
        /\ savedPeers' = [savedPeers EXCEPT ![n] = @ \ {m}]
        /\ up' = up
    BY <1>8, <2>1 DEF TypeOK, Evicted, Current
  <2> HIDE DEF n, m
  <2>3. conn[k].from = n /\ conn[k].to = m
    BY DEF n, m
  <2>4. \A a, b \in Servers :
           /\ ws'[a][b] = IF ws[a][b] = k THEN Nil ELSE ws[a][b]
           /\ ws'[a][b] # Nil => conn'[ws'[a][b]] = conn[ws[a][b]]
    BY <1>6, <2>1, <2>2, <2>3
  <2>5. k # Nil
    BY NilAssumption
  <2>6. \A a, b \in Servers :
           /\ ws[a][b] = k <=> a = n /\ b = m
           /\ stage'[a][b] = IF a = n /\ b = m THEN "none" ELSE stage[a][b]
           /\ b \in savedPeers'[a] <=> b \in savedPeers[a] /\ ~(a = n /\ b = m)
    BY <1>1, <2>1, <2>2, <2>3, <2>5 DEF TypeOK
  <2>7. OneConnection'
    BY <1>1, <2>4, <2>5, <2>6 DEF OneConnection
  <2>8. ClientsRun'
    BY <2>2, <2>6 DEF ClientsRun
  <2> QED BY <2>7, <2>8
<1>9. ASSUME NEW k \in Conns, ClientOffline(k)
      PROVE  OneConnection' /\ ClientsRun'
  <2>1. /\ \A j \in Conns \ {k} : conn'[j] = conn[j]
        /\ conn[k].state = "closed"
        /\ UNCHANGED <<stage, ws, up, savedPeers>>
    BY <1>9 DEF TypeOK, ClientOffline
  <2>2. OneConnection'
    BY <1>1, <2>1 DEF OneConnection
  <2>3. ClientsRun'
    BY <2>1 DEF ClientsRun
  <2> QED BY <2>2, <2>3
<1> QED
  BY <1>2, <1>3, <1>5, <1>7, <1>8, <1>9 DEF Quiet

\* Stopping and starting clients of a running daemon, whose peers are then
\* what they were without S and with T, keeps LinkInv.
LEMMA ClientsLinks ==
    ASSUME LinkInv, NEW n \in up, NEW S \in SUBSET Servers, NEW T \in SUBSET Servers,
           Clients(n, S, T), up' = up,
           savedPeers' = [savedPeers EXCEPT ![n] = (@ \ S) \cup T]
    PROVE  OneConnection' /\ ClientsRun'
<1> USE DEF LinkInv
<1>1. n \in Servers
  BY DEF TypeOK
<1>2. ASSUME NEW a \in Servers, NEW b \in Servers
      PROVE  /\ stage'[a][b] = IF a = n /\ b \in T THEN "credential"
                               ELSE IF a = n /\ b \in S THEN "none" ELSE stage[a][b]
             /\ ws'[a][b] = IF a = n /\ b \in S \cup T THEN Nil ELSE ws[a][b]
             /\ b \in savedPeers'[a] <=> \/ a = n /\ b \in T
                                         \/ b \in savedPeers[a] /\ ~(a = n /\ b \in S)
  BY <1>1 DEF TypeOK, Clients
<1>3. ASSUME NEW a \in Servers, NEW b \in Servers, ws'[a][b] # Nil
      PROVE  /\ ws'[a][b] = ws[a][b]
             /\ conn'[ws[a][b]] = conn[ws[a][b]]
  <2>1. ws'[a][b] = ws[a][b] /\ ~(a = n /\ b \in S \cup T)
    BY <1>2, <1>3
  <2>2. /\ ws[a][b] \in Conns
        /\ conn[ws[a][b]].from = a /\ conn[ws[a][b]].to = b
    BY <1>3, <2>1 DEF TypeOK, OneConnection
  <2> QED BY <2>1, <2>2 DEF Clients, GivenUp
<1>4. OneConnection'
  BY <1>2, <1>3 DEF OneConnection
<1>5. ClientsRun'
  BY <1>1, <1>2 DEF ClientsRun
<1> QED BY <1>4, <1>5

\* A daemon that stops takes its clients and connections with it.
LEMMA DownLinks ==
    ASSUME LinkInv, NEW n \in Servers, NEW file \in File, Down(n, file)
    PROVE  OneConnection' /\ ClientsRun'
<1> USE DEF LinkInv
<1>1. ASSUME NEW a \in Servers, NEW b \in Servers
      PROVE  /\ stage'[a][b] = IF a = n THEN "none" ELSE stage[a][b]
             /\ ws'[a][b] = IF a = n THEN Nil ELSE ws[a][b]
             /\ savedPeers'[a] = IF a = n THEN {} ELSE savedPeers[a]
  BY DEF TypeOK, Down
<1>2. ASSUME NEW k \in Conns, conn[k].from # n
      PROVE  /\ conn'[k].from = conn[k].from
             /\ conn'[k].to = conn[k].to
             /\ conn'[k].state = conn[k].state
  <2>1. conn[k] \in Conn
    BY DEF TypeOK
  <2>2. \/ conn'[k] = [conn[k] EXCEPT !.hello = FALSE, !.session = FALSE]
        \/ conn'[k] = conn[k]
    BY <1>2 DEF Down
  <2> QED BY <2>1, <2>2 DEF Conn
<1>3. OneConnection'
  <2>1. ASSUME NEW a \in Servers, NEW b \in Servers
        PROVE  /\ ws[a][b] \in Conns \cup {Nil}
               /\ stage[a][b] = "connected" <=> ws[a][b] # Nil
               /\ ws[a][b] # Nil => /\ conn[ws[a][b]].from = a
                                    /\ conn[ws[a][b]].to = b
                                    /\ conn[ws[a][b]].state \in {"connecting", "open", "closing"}
    BY DEF TypeOK, OneConnection
  <2>2. ASSUME NEW a \in Servers, NEW b \in Servers
        PROVE  /\ stage'[a][b] = "connected" <=> ws'[a][b] # Nil
               /\ ws'[a][b] # Nil => /\ conn'[ws'[a][b]].from = a
                                     /\ conn'[ws'[a][b]].to = b
                                     /\ conn'[ws'[a][b]].state \in {"connecting", "open", "closing"}
    <3>1. CASE a = n
      BY <1>1, <3>1
    <3>2. CASE a # n
      BY <1>1, <1>2, <2>1, <3>2
    <3> QED BY <3>1, <3>2
  <2> QED BY <2>2 DEF OneConnection
<1>4. up' = up \ {n}
  BY DEF Down
<1>5. ClientsRun'
  BY <1>1, <1>4 DEF ClientsRun
<1> QED BY <1>3, <1>5

\* Sessions that go leave both ends of every connection, and those in use in use.
LEMMA DroppedLinks ==
    ASSUME TypeOK, NEW n \in Servers, NEW k \in Conns,
           conn[k].state \in {"connecting", "open", "closing"}
    PROVE  /\ Dropped(n)[k].from = conn[k].from
           /\ Dropped(n)[k].to = conn[k].to
           /\ Dropped(n)[k].state \in {"connecting", "open", "closing"}
<1>1. conn[k] \in Conn
  BY DEF TypeOK
<1>2. \/ Dropped(n)[k] = conn[k]
      \/ Dropped(n)[k] = [conn[k] EXCEPT !.state = IF @ = "open" THEN "closing" ELSE @,
                                         !.hello = FALSE, !.session = FALSE]
  BY DEF Dropped
<1> QED BY <1>1, <1>2 DEF Conn

\* A handler of the membership keeps LinkInv.
LEMMA MembershipLinks ==
    ASSUME LinkInv, Membership
    PROVE  OneConnection' /\ ClientsRun'
<1> USE DEF LinkInv
<1>1. PICK n \in Servers :
          \/ \E S \in SUBSET (Servers \ {n}) : Invite(n, S) \/ InviteCut(n, S)
          \/ \E m \in Servers : ForwardChange(n, m)
          \/ Regenerate(n) \/ Leave(n) \/ LeaveOffline(n) \/ LeaveCut(n)
          \/ Lapse(n) \/ Sweep(n)
          \/ Stop(n) \/ Start(n) \/ Boot(n) \/ UplinkLost(n)
  BY DEF Membership
<1>2. /\ disk[n] \in File
      /\ [disk[n] EXCEPT !.paired = "ejected"] \in File
      /\ \A S \in SUBSET Servers : [disk[n] EXCEPT !.peers = S] \in File
  <2>1. disk[n] \in File
    BY DEF TypeOK
  <2> QED BY <2>1 DEF File, Associations
<1>3. savedPeers \in [Servers -> SUBSET Servers] /\ savedPeers[n] \in SUBSET Servers
  BY DEF TypeOK
<1>4. ASSUME NEW S \in SUBSET (Servers \ {n}), Invite(n, S)
      PROVE  OneConnection' /\ ClientsRun'
  <2>1. /\ n \in up /\ up' = up
        /\ Clients(n, Servers \ S, S)
        /\ savedPeers' = [savedPeers EXCEPT ![n] = S]
    BY <1>4 DEF Invite
  <2>2. S = (savedPeers[n] \ (Servers \ S)) \cup S
    BY <1>3
  <2>3. savedPeers' = [savedPeers EXCEPT ![n] = (@ \ (Servers \ S)) \cup S]
    BY <2>1, <2>2
  <2>4. S \in SUBSET Servers /\ Servers \ S \in SUBSET Servers
    OBVIOUS
  <2> QED BY <2>1, <2>3, <2>4, ClientsLinks
<1>5. ASSUME NEW S \in SUBSET (Servers \ {n}), InviteCut(n, S)
      PROVE  OneConnection' /\ ClientsRun'
  BY <1>2, <1>5, DownLinks DEF InviteCut
<1>6. ASSUME NEW m \in Servers, ForwardChange(n, m)
      PROVE  OneConnection' /\ ClientsRun'
  <2>1. /\ n \in up /\ up' = up
        /\ m \in savedPeers[n]
        /\ Clients(n, {}, {m})
        /\ savedPeers' = savedPeers
    BY <1>6 DEF ForwardChange
  <2>2. savedPeers' = [savedPeers EXCEPT ![n] = (@ \ {}) \cup {m}]
    BY <1>3, <2>1
  <2>3. {m} \in SUBSET Servers /\ {} \in SUBSET Servers
    OBVIOUS
  <2> QED BY <2>1, <2>2, <2>3, ClientsLinks
<1>7. CASE Regenerate(n)
  <2> DEFINE restarted == IF isMeshActive(n) THEN {} ELSE savedPeers[n]
  <2>1. /\ n \in up /\ up' = up
        /\ Clients(n, {}, restarted)
        /\ savedPeers' = savedPeers
    BY <1>7 DEF Regenerate
  <2>2. restarted \subseteq savedPeers[n]
    OBVIOUS
  <2> HIDE DEF restarted
  <2>3. savedPeers' = [savedPeers EXCEPT ![n] = (@ \ {}) \cup restarted]
    BY <1>3, <2>1, <2>2
  <2>4. restarted \in SUBSET Servers /\ {} \in SUBSET Servers
    BY <1>3, <2>2
  <2> QED BY <2>1, <2>3, <2>4, ClientsLinks
<1>8. CASE Leave(n) \/ Sweep(n)
  <2>1. /\ n \in up /\ up' = up
        /\ Clients(n, Servers, {})
        /\ savedPeers' = [savedPeers EXCEPT ![n] = {}]
    BY <1>8 DEF Leave, Sweep, stopAllMesh
  <2>2. {} = (savedPeers[n] \ Servers) \cup {}
    BY <1>3
  <2>3. savedPeers' = [savedPeers EXCEPT ![n] = (@ \ Servers) \cup {}]
    BY <2>1, <2>2
  <2>4. Servers \in SUBSET Servers /\ {} \in SUBSET Servers
    OBVIOUS
  <2> QED BY <2>1, <2>3, <2>4, ClientsLinks
<1>9. CASE LeaveOffline(n) \/ Lapse(n) \/ Start(n)
  <2>1. UNCHANGED <<up, savedPeers, stage, ws, conn>>
    BY <1>9 DEF LeaveOffline, Lapse, Start
  <2> QED BY <2>1 DEF OneConnection, ClientsRun
<1>10. CASE LeaveCut(n) \/ Stop(n)
  <2>1. PICK file \in File : Down(n, file)
    BY <1>2, <1>10 DEF LeaveCut, Stop
  <2> QED BY <2>1, DownLinks
<1>11. ASSUME NEW a \in Servers, NEW b \in Servers, ws[a][b] # Nil, conn' = Dropped(n)
       PROVE  /\ conn'[ws[a][b]].from = a /\ conn'[ws[a][b]].to = b
              /\ conn'[ws[a][b]].state \in {"connecting", "open", "closing"}
  <2>1. /\ ws[a][b] \in Conns
        /\ conn[ws[a][b]].from = a /\ conn[ws[a][b]].to = b
        /\ conn[ws[a][b]].state \in {"connecting", "open", "closing"}
    BY <1>11 DEF TypeOK, OneConnection
  <2> QED BY <1>11, <2>1, DroppedLinks
<1>12. CASE Boot(n)
  <2>1. PICK started \in SUBSET Servers :
           /\ savedPeers' = [savedPeers EXCEPT ![n] = started]
           /\ stage' = [stage EXCEPT ![n] = [m \in Servers |-> IF m \in started
                                                               THEN "credential" ELSE "none"]]
    <3> DEFINE started == IF (IF meshPairedAt[n] = "never" /\ disk[n].peers # {}
                              THEN "active" ELSE meshPairedAt[n]) = "active"
                          THEN disk[n].peers ELSE {}
    <3>1. started \in SUBSET Servers
      BY <1>2 DEF File
    <3>2. /\ savedPeers' = [savedPeers EXCEPT ![n] = started]
          /\ stage' = [stage EXCEPT ![n] = [m \in Servers |-> IF m \in started
                                                              THEN "credential" ELSE "none"]]
      BY <1>12 DEF Boot
    <3> HIDE DEF started
    <3> QED BY <3>1, <3>2
  <2>2. /\ up' = up \cup {n}
        /\ n \in starting
        /\ ws' = ws
        /\ conn' = Dropped(n)
    BY <1>12 DEF Boot
  <2>3. n \notin up
    BY <2>2 DEF TypeOK
  <2>4. ASSUME NEW a \in Servers, NEW b \in Servers
        PROVE  /\ stage'[a][b] = IF a = n THEN IF b \in started THEN "credential" ELSE "none"
                                 ELSE stage[a][b]
               /\ savedPeers'[a] = IF a = n THEN started ELSE savedPeers[a]
    BY <2>1 DEF TypeOK
  <2>5. ASSUME NEW b \in Servers
        PROVE  ws[n][b] = Nil
    BY <2>3 DEF ClientsRun, OneConnection
  <2>6. OneConnection'
    BY <1>11, <2>2, <2>4, <2>5 DEF OneConnection
  <2>7. ClientsRun'
    BY <2>2, <2>4 DEF ClientsRun
  <2> QED BY <2>6, <2>7
<1>13. CASE UplinkLost(n)
  <2>1. conn' = Dropped(n) /\ UNCHANGED <<up, savedPeers, stage, ws>>
    BY <1>13 DEF UplinkLost
  <2>2. OneConnection'
    BY <1>11, <2>1 DEF OneConnection
  <2>3. ClientsRun'
    BY <2>1 DEF ClientsRun
  <2> QED BY <2>2, <2>3
<1> QED
  BY <1>1, <1>4, <1>5, <1>6, <1>7, <1>8, <1>9, <1>10, <1>12, <1>13

\* LinkInv holds always: it has TypeOK, and which clients run follows from who
\* runs and whom it saved.
LEMMA LinksInvariant == Spec => []LinkInv
<1>1. Init => LinkInv
  <2> SUFFICES ASSUME Init PROVE LinkInv
    OBVIOUS
  <2>1. TypeOK
    BY InitTypes
  <2>2. \A n, m \in Servers : /\ stage[n][m] = "none" /\ ws[n][m] = Nil
                              /\ savedPeers[n] = {}
    BY DEF Init
  <2> QED BY <2>1, <2>2 DEF LinkInv, OneConnection, ClientsRun
<1>2. LinkInv /\ [Next]_vars => LinkInv'
  <2> SUFFICES ASSUME LinkInv, [Next]_vars PROVE LinkInv'
    OBVIOUS
  <2>1. TypeOK
    BY DEF LinkInv
  <2>2. CASE Membership
    BY <2>1, <2>2, MembershipTypes, MembershipLinks DEF LinkInv
  <2>3. CASE Quiet \/ \E k \in Conns : Lost(k)
    BY <2>1, <2>3, ConnectionTypes, ConnectionLinks DEF LinkInv
  <2>4. CASE UNCHANGED vars
    BY <2>4 DEF vars, LinkInv, TypeOK, OneConnection, ClientsRun
  <2> QED BY <2>2, <2>3, <2>4 DEF Next
<1> QED BY <1>1, <1>2, PTL DEF Spec

\* A MeshClient has a connection exactly when it believes so, and it is its own
\* (mesh-client.ts:114-154), however many old ones are still about.
THEOREM OneConnectionEach == Spec => []OneConnection
<1>1. LinkInv => OneConnection
  BY DEF LinkInv
<1> QED BY <1>1, LinksInvariant, PTL

-----------------------------------------------------------------------------
(* The files, and ejection. *)

\* The files say what a running daemon knows, and what one that starts has
\* read: nobody wrote config.json since.
FilesAgree ==
    /\ \A n \in up : disk[n] = [paired |-> meshPairedAt[n], peers |-> savedPeers[n]]
    /\ \A n \in starting : disk[n].paired = meshPairedAt[n]

\* What the two files say.
LEMMA FileParts ==
    ASSUME NEW file, NEW paired, NEW peers, file = [paired |-> paired, peers |-> peers]
    PROVE  file.paired = paired /\ file.peers = peers
OBVIOUS

\* A handler that writes both, or neither, keeps them together.
LEMMA FilesStep ==
    ASSUME ~LeaveAtStart, TypeOK, FilesAgree, [Next]_vars
    PROVE  FilesAgree'
\* It suffices to look at the machine n whose files or memory change.
<1>1. ASSUME NEW n \in Servers,
             \A a \in Servers \ {n} : /\ disk'[a] = disk[a]
                                      /\ meshPairedAt'[a] = meshPairedAt[a]
                                      /\ savedPeers'[a] = savedPeers[a],
             up' \ {n} \subseteq up, starting' \ {n} \subseteq starting,
             up' \subseteq Servers, starting' \subseteq Servers,
             n \in up' => disk'[n] = [paired |-> meshPairedAt'[n], peers |-> savedPeers'[n]],
             n \in starting' => disk'[n].paired = meshPairedAt'[n]
      PROVE  FilesAgree'
  <2>1. ASSUME NEW a \in up'
        PROVE  disk'[a] = [paired |-> meshPairedAt'[a], peers |-> savedPeers'[a]]
    BY <1>1 DEF FilesAgree
  <2>2. ASSUME NEW a \in starting'
        PROVE  disk'[a].paired = meshPairedAt'[a]
    BY <1>1 DEF FilesAgree
  <2> QED BY <2>1, <2>2 DEF FilesAgree
<1>2. \A a \in Servers : disk[a] \in File /\ disk[a] = [paired |-> disk[a].paired,
                                                         peers |-> disk[a].peers]
  BY DEF TypeOK, File
<1>3. /\ up \subseteq Servers /\ starting \subseteq Servers \ up
      /\ meshPairedAt \in [Servers -> Associations]
      /\ savedPeers \in [Servers -> SUBSET Servers]
      /\ disk \in [Servers -> File]
  BY DEF TypeOK
<1>4. ASSUME NEW a \in up
      PROVE  disk[a].paired = meshPairedAt[a] /\ disk[a].peers = savedPeers[a]
  <2>1. disk[a] = [paired |-> meshPairedAt[a], peers |-> savedPeers[a]]
    BY DEF FilesAgree
  <2> QED BY <2>1, FileParts
<1>5. \A a \in starting : disk[a].paired = meshPairedAt[a]
  BY DEF FilesAgree
<1>6. ASSUME NEW n \in Servers,
             \E S \in SUBSET (Servers \ {n}) : InviteCut(n, S)
      PROVE  FilesAgree'
  <2>1. PICK S \in SUBSET (Servers \ {n}) : InviteCut(n, S)
    BY <1>6
  <2> QED BY <1>1, <1>3, <2>1 DEF InviteCut, Down
<1>7. ASSUME NEW n \in Servers, Stop(n) \/ LeaveCut(n)
      PROVE  FilesAgree'
  BY <1>1, <1>3, <1>7 DEF Stop, LeaveCut, Down
<1>8. ASSUME NEW n \in Servers, NEW S \in SUBSET (Servers \ {n}), Invite(n, S)
      PROVE  FilesAgree'
  <2>1. /\ n \in up /\ n \notin starting
        /\ disk[n].paired = meshPairedAt[n]
    BY <1>3, <1>4, <1>8 DEF Invite
  <2>2. /\ meshPairedAt'[n] = IF S # {} THEN "active" ELSE meshPairedAt[n]
        /\ savedPeers'[n] = S
        /\ disk'[n] = [paired |-> IF S # {} THEN "active" ELSE disk[n].paired, peers |-> S]
        /\ \A a \in Servers \ {n} : /\ disk'[a] = disk[a]
                                    /\ meshPairedAt'[a] = meshPairedAt[a]
                                    /\ savedPeers'[a] = savedPeers[a]
        /\ up' = up /\ starting' = starting
    BY <1>3, <1>8 DEF Invite
  <2>3. disk'[n] = [paired |-> meshPairedAt'[n], peers |-> savedPeers'[n]]
    BY <2>1, <2>2
  <2> QED BY <1>1, <1>3, <2>1, <2>2, <2>3
<1>9. ASSUME NEW n \in Servers, Regenerate(n) \/ Leave(n) \/ Sweep(n)
      PROVE  FilesAgree'
  <2>1. /\ n \in up /\ n \notin starting
        /\ disk[n] = [paired |-> meshPairedAt[n], peers |-> savedPeers[n]]
    BY <1>3, <1>9 DEF FilesAgree, Regenerate, Leave, Sweep
  <2>2. /\ \A a \in Servers \ {n} : /\ disk'[a] = disk[a]
                                    /\ meshPairedAt'[a] = meshPairedAt[a]
                                    /\ savedPeers'[a] = savedPeers[a]
        /\ up' = up /\ starting' = starting
    BY <1>3, <1>9 DEF Regenerate, Leave, Sweep, stopAllMesh
  <2>3. disk'[n] = [paired |-> meshPairedAt'[n], peers |-> savedPeers'[n]]
    <3>1. CASE Regenerate(n)
      BY <1>3, <2>1, <3>1 DEF Regenerate
    <3>2. CASE Leave(n)
      BY <1>3, <2>1, <3>2 DEF Leave, stopAllMesh
    <3>3. CASE Sweep(n)
      <4>1. /\ disk'[n] = [disk[n] EXCEPT !.peers = {}]
            /\ meshPairedAt'[n] = meshPairedAt[n]
            /\ savedPeers'[n] = {}
        BY <1>3, <3>3 DEF Sweep, stopAllMesh
      <4>2. disk'[n] = [paired |-> disk[n].paired, peers |-> {}]
        BY <1>2, <4>1
      <4> QED BY <1>4, <2>1, <4>1, <4>2
    <3> QED BY <1>9, <3>1, <3>2, <3>3
  <2> QED BY <1>1, <1>3, <2>1, <2>2, <2>3
<1>10. ASSUME NEW n \in Servers, Lapse(n)
       PROVE  FilesAgree'
  <2>1. /\ disk'[n] = [disk[n] EXCEPT !.paired = Lapsed(@)]
        /\ meshPairedAt'[n] = Lapsed(meshPairedAt[n])
        /\ \A a \in Servers \ {n} : disk'[a] = disk[a] /\ meshPairedAt'[a] = meshPairedAt[a]
        /\ UNCHANGED <<up, starting, savedPeers>>
    BY <1>3, <1>10 DEF Lapse
  <2>2. disk'[n] = [paired |-> Lapsed(disk[n].paired), peers |-> disk[n].peers]
    BY <1>2, <2>1
  <2>3. ASSUME n \in up
        PROVE  disk'[n] = [paired |-> meshPairedAt'[n], peers |-> savedPeers'[n]]
    <3>1. disk[n].paired = meshPairedAt[n] /\ disk[n].peers = savedPeers[n]
      BY <1>4, <2>3
    <3> QED BY <2>1, <2>2, <3>1
  <2>4. ASSUME n \in starting
        PROVE  disk'[n].paired = meshPairedAt'[n]
    BY <1>5, <2>1, <2>2, <2>4
  <2> QED BY <1>1, <1>3, <2>1, <2>3, <2>4
<1>11. ASSUME NEW n \in Servers, LeaveOffline(n)
       PROVE  FilesAgree'
  <2>1. n \notin up /\ n \notin starting
    BY <1>11 DEF LeaveOffline
  <2> QED BY <1>1, <1>3, <1>11, <2>1 DEF LeaveOffline
<1>12. ASSUME NEW n \in Servers, Start(n)
       PROVE  FilesAgree'
  <2>1. n \notin up /\ n \notin starting
    BY <1>12 DEF Start
  <2> QED BY <1>1, <1>3, <1>12, <2>1 DEF Start
<1>13. ASSUME NEW n \in Servers, Boot(n)
       PROVE  FilesAgree'
  <2> DEFINE legacy == meshPairedAt[n] = "never" /\ disk[n].peers # {}
             paired == IF legacy THEN "active" ELSE meshPairedAt[n]
             started == IF paired = "active" THEN disk[n].peers ELSE {}
  <2>1. /\ n \in starting
        /\ meshPairedAt' = [meshPairedAt EXCEPT ![n] = paired]
        /\ savedPeers' = [savedPeers EXCEPT ![n] = started]
        /\ disk' = [disk EXCEPT ![n] = [paired |-> IF legacy THEN "active" ELSE disk[n].paired,
                                       peers |-> started]]
        /\ up' = up \cup {n} /\ starting' = starting \ {n}
    BY <1>13 DEF Boot
  <2>2. (IF legacy THEN "active" ELSE disk[n].paired) = paired
    BY <1>5, <2>1
  <2> HIDE DEF legacy, paired, started
  <2> QED BY <1>1, <1>3, <2>1, <2>2
<1>14. ASSUME NEW k \in Conns, Evicted(k)
       PROVE  FilesAgree'
  <2> DEFINE n == conn[k].from
             left == savedPeers[n] \ {conn[k].to}
  <2>1. n \in Servers
    BY <1>14 DEF TypeOK, WellFormed, Evicted
  <2>2. /\ savedPeers' = [savedPeers EXCEPT ![n] = left]
        /\ disk' = [disk EXCEPT ![n].peers = left]
        /\ UNCHANGED <<up, starting, meshPairedAt>>
    BY <1>14 DEF Evicted
  <2> HIDE DEF n, left
  <2>3. disk'[n] = [disk[n] EXCEPT !.peers = left]
    BY <1>3, <2>1, <2>2
  <2>4. disk'[n] = [paired |-> disk[n].paired, peers |-> left]
    BY <1>2, <2>1, <2>3
  <2> QED BY <2>4, <1>1, <1>3, <1>4, <1>5, <2>1, <2>2, <2>3
<1>15. ASSUME UNCHANGED <<up, starting, meshPairedAt, savedPeers, disk>>
       PROVE  FilesAgree'
  BY <1>15 DEF FilesAgree
<1>16. CASE Membership
  <2>1. PICK n \in Servers :
            \/ \E S \in SUBSET (Servers \ {n}) : Invite(n, S) \/ InviteCut(n, S)
            \/ \E m \in Servers : ForwardChange(n, m)
            \/ Regenerate(n) \/ Leave(n) \/ LeaveOffline(n) \/ LeaveCut(n)
            \/ Lapse(n) \/ Sweep(n)
            \/ Stop(n) \/ Start(n) \/ Boot(n) \/ UplinkLost(n)
    BY <1>16 DEF Membership
  <2>2. CASE \E m \in Servers : ForwardChange(n, m) \/ UplinkLost(n)
    BY <1>15, <2>2 DEF ForwardChange, UplinkLost
  <2> QED
    BY <1>6, <1>7, <1>8, <1>9, <1>10, <1>11, <1>12, <1>13, <2>1, <2>2
<1>17. CASE Quiet \/ \E k \in Conns : Lost(k)
  <2>1. CASE \E k \in Conns : Evicted(k)
    BY <1>14, <2>1
  <2>2. CASE \E n, m \in Servers : OpenSocket(n, m) \/ Reconnect(n, m)
    BY <1>15, <2>2 DEF OpenSocket, Reconnect
  <2>3. CASE \E k \in Conns : \/ Opened(k) \/ Closed(k) \/ ClientOffline(k)
                              \/ Handshake(k) \/ Linked(k) \/ Retried(k) \/ Lost(k)
    BY <1>15, <2>3 DEF Opened, Closed, Lost, Close, ClientOffline, Handshake, Linked, Retried
  <2> QED BY <1>17, <2>1, <2>2, <2>3 DEF Quiet
<1>18. CASE UNCHANGED vars
  BY <1>15, <1>18 DEF vars
<1> QED BY <1>16, <1>17, <1>18 DEF Next

\* Unless somebody leaves while a daemon starts, the files agree always.
LEMMA FilesInvariant ==
    ASSUME ~LeaveAtStart
    PROVE  Spec => [](LinkInv /\ FilesAgree)
<1>1. Init => FilesAgree
  BY DEF Init, FilesAgree
<1>2. LinkInv /\ FilesAgree /\ [Next]_vars => FilesAgree'
  BY FilesStep DEF LinkInv
<1> QED BY <1>1, <1>2, LinksInvariant, PTL DEF Spec

\* The clients that run are those of the saved peers, and the files say the
\* same (index.ts:424-436, 470-478, 503-547).
THEOREM ClientsAgree ==
    ASSUME ~LeaveAtStart
    PROVE  Spec => []ClientsMatchPeers
<1>1. LinkInv /\ FilesAgree => ClientsMatchPeers
  <2> SUFFICES ASSUME LinkInv, FilesAgree, NEW n \in up
               PROVE  /\ {m \in Servers : stage[n][m] # "none"} = savedPeers[n]
                      /\ disk[n] = [paired |-> meshPairedAt[n], peers |-> savedPeers[n]]
    BY DEF ClientsMatchPeers
  <2>1. n \in Servers /\ savedPeers[n] \subseteq Servers
    BY DEF LinkInv, TypeOK
  <2>2. \A m \in Servers : stage[n][m] # "none" <=> m \in savedPeers[n]
    BY <2>1 DEF LinkInv, ClientsRun
  <2>3. {m \in Servers : stage[n][m] # "none"} = savedPeers[n]
    BY <2>1, <2>2
  <2> QED BY <2>3 DEF FilesAgree
<1> QED BY <1>1, FilesInvariant, PTL

\* Who has left stays out until its QR code is shown again (index.ts:555-556),
\* whatever invites come and wherever the process dies, unless it was told to
\* leave while it started.
THEOREM StaysOut ==
    ASSUME ~LeaveAtStart
    PROVE  Spec => EjectedStaysOut
<1>1. LinkInv /\ FilesAgree /\ [Next]_vars =>
         [\A n \in Servers :
             disk[n].paired = "ejected" => disk'[n].paired = "ejected" \/ Regenerate(n)]_vars
  <2> SUFFICES ASSUME LinkInv, FilesAgree, Next, NEW a \in Servers,
                      disk[a].paired = "ejected", ~Regenerate(a)
               PROVE  disk'[a].paired = "ejected"
    OBVIOUS
  <2>1. /\ disk \in [Servers -> File] /\ disk[a] \in File
        /\ up \subseteq Servers /\ starting \subseteq Servers
    BY DEF LinkInv, TypeOK
  <2>2. /\ a \in up => meshPairedAt[a] = "ejected"
        /\ a \in starting => meshPairedAt[a] = "ejected"
    <3>1. ASSUME a \in up
          PROVE  meshPairedAt[a] = "ejected"
      <4>1. disk[a] = [paired |-> meshPairedAt[a], peers |-> savedPeers[a]]
        BY <3>1 DEF FilesAgree
      <4>2. disk[a].paired = meshPairedAt[a]
        BY <4>1, FileParts
      <4> QED BY <4>2
    <3>2. ASSUME a \in starting
          PROVE  meshPairedAt[a] = "ejected"
      BY <3>2 DEF FilesAgree
    <3> QED BY <3>1, <3>2
  <2>3. CASE disk' = disk
    BY <2>3
  <2>4. ASSUME NEW n \in Servers, NEW S \in SUBSET (Servers \ {n}), Invite(n, S)
        PROVE  disk'[a].paired = "ejected"
    BY <2>1, <2>2, <2>4 DEF Invite
  <2>5. ASSUME NEW n \in Servers, NEW S \in SUBSET (Servers \ {n}), InviteCut(n, S)
        PROVE  disk'[a].paired = "ejected"
    BY <2>1, <2>5 DEF InviteCut, Down, File
  <2>6. ASSUME NEW n \in Servers, Regenerate(n)
        PROVE  disk'[a].paired = "ejected"
    BY <2>1, <2>6 DEF Regenerate
  <2>7. ASSUME NEW n \in Servers, Leave(n) \/ LeaveOffline(n) \/ LeaveCut(n) \/ Stop(n)
        PROVE  disk'[a].paired = "ejected"
    <3>1. CASE Leave(n) \/ LeaveOffline(n)
      BY <2>1, <3>1 DEF Leave, LeaveOffline
    <3>2. CASE LeaveCut(n)
      BY <2>1, <3>2 DEF LeaveCut, Down, File
    <3>3. CASE Stop(n)
      BY <2>1, <3>3 DEF Stop, Down
    <3> QED BY <2>7, <3>1, <3>2, <3>3
  <2>8. ASSUME NEW n \in Servers, Lapse(n)
        PROVE  disk'[a].paired = "ejected"
    BY <2>1, <2>8 DEF Lapse, Lapsed, File
  <2>9. ASSUME NEW n \in Servers, Sweep(n)
        PROVE  disk'[a].paired = "ejected"
    BY <2>1, <2>9 DEF Sweep, File
  <2>10. ASSUME NEW n \in Servers, Boot(n)
         PROVE  disk'[a].paired = "ejected"
    BY <2>1, <2>2, <2>10 DEF Boot
  <2>11. ASSUME NEW k \in Conns, Evicted(k)
         PROVE  disk'[a].paired = "ejected"
    BY <2>1, <2>11 DEF Evicted, File
  <2>12. CASE Membership
    <3>1. PICK n \in Servers :
              \/ \E S \in SUBSET (Servers \ {n}) : Invite(n, S) \/ InviteCut(n, S)
              \/ \E m \in Servers : ForwardChange(n, m)
              \/ Regenerate(n) \/ Leave(n) \/ LeaveOffline(n) \/ LeaveCut(n)
              \/ Lapse(n) \/ Sweep(n)
              \/ Stop(n) \/ Start(n) \/ Boot(n) \/ UplinkLost(n)
      BY <2>12 DEF Membership
    <3>2. CASE (\E m \in Servers : ForwardChange(n, m)) \/ Start(n) \/ UplinkLost(n)
      BY <2>3, <3>2 DEF ForwardChange, Start, UplinkLost
    <3> QED
      BY <2>4, <2>5, <2>6, <2>7, <2>8, <2>9, <2>10, <3>1, <3>2
  <2>13. CASE Quiet \/ \E k \in Conns : Lost(k)
    <3>1. CASE \E k \in Conns : Evicted(k)
      BY <2>11, <3>1
    <3>2. CASE \E n, m \in Servers : OpenSocket(n, m) \/ Reconnect(n, m)
      BY <2>3, <3>2 DEF OpenSocket, Reconnect
    <3>3. CASE \E k \in Conns : \/ Opened(k) \/ Closed(k) \/ ClientOffline(k)
                                \/ Handshake(k) \/ Linked(k) \/ Retried(k) \/ Lost(k)
      BY <2>3, <3>3 DEF Opened, Closed, Lost, Close, ClientOffline, Handshake, Linked, Retried
    <3> QED BY <2>13, <3>1, <3>2, <3>3 DEF Quiet
  <2> QED BY <2>12, <2>13 DEF Next
<1> QED BY <1>1, FilesInvariant, PTL DEF Spec, EjectedStaysOut


-----------------------------------------------------------------------------
(* Who stays in the mesh is not evicted. *)

\* Whoever has been in the mesh all the time is associated, running or not.
TrustedAreActive ==
    \A n, m \in Servers : <<n, m>> \in trusted => Association(m) = "active"

\* ... and the client that waits for its answer is not about to be told that
\* the peer has gone.
NoEvictionComes ==
    \A n, m \in Servers :
        <<n, m>> \in trusted /\ ws[n][m] # Nil => conn[ws[n][m]].answer # "evict"

\* Whom n trusts once it has started and stopped clients.
LEMMA TrustedByParts ==
    ASSUME NEW n, NEW S, NEW T, NEW a, NEW b, <<a, b>> \in TrustedBy(n, S, T)
    PROVE  \/ <<a, b>> \in trusted /\ (a = n => b \notin S)
           \/ a = n /\ b \in T /\ Association(b) = "active"
BY DEF TrustedBy

\* A trusted pair is an old one, or one whose client starts in this step while
\* the other machine is associated.
LEMMA TrustedStep ==
    ASSUME LinkInv, [Next]_vars, NEW a \in Servers, NEW b \in Servers, <<a, b>> \in trusted'
    PROVE  <<a, b>> \in trusted \/ (Association(b) = "active" /\ ws'[a][b] = Nil)
<1>1. TypeOK /\ OneConnection /\ ClientsRun
  BY DEF LinkInv
<1>2. ASSUME NEW n \in Servers, NEW S \in SUBSET Servers, NEW T \in SUBSET Servers,
             trusted' \subseteq TrustedBy(n, S, T), Clients(n, S, T)
      PROVE  <<a, b>> \in trusted \/ (Association(b) = "active" /\ ws'[a][b] = Nil)
  <2>1. a = n /\ b \in T => ws'[a][b] = Nil
    BY <1>1, <1>2 DEF Clients, TypeOK
  <2> QED
    BY <1>2, <2>1, TrustedByParts
<1>3. ASSUME NEW n, trusted' \subseteq TrustedBy(n, Servers, {})
      PROVE  <<a, b>> \in trusted
  BY <1>3, TrustedByParts
<1>4. CASE trusted' \subseteq trusted
  BY <1>4
<1>5. ASSUME NEW n \in Servers, NEW S \in SUBSET (Servers \ {n}), Invite(n, S)
      PROVE  <<a, b>> \in trusted \/ (Association(b) = "active" /\ ws'[a][b] = Nil)
  BY <1>2, <1>5 DEF Invite
<1>6. ASSUME NEW n \in Servers, Regenerate(n)
      PROVE  <<a, b>> \in trusted \/ (Association(b) = "active" /\ ws'[a][b] = Nil)
  <2>1. savedPeers[n] \in SUBSET Servers
    BY <1>1 DEF TypeOK
  <2> QED
    BY <1>2, <1>6, <2>1 DEF Regenerate
<1>7. ASSUME NEW n \in Servers, NEW m \in Servers, ForwardChange(n, m)
      PROVE  <<a, b>> \in trusted \/ (Association(b) = "active" /\ ws'[a][b] = Nil)
  <2>1. {m} \in SUBSET Servers /\ {} \in SUBSET Servers
    OBVIOUS
  <2> QED
    BY <1>2, <1>7, <2>1 DEF ForwardChange
<1>8. ASSUME NEW n \in Servers, Boot(n)
      PROVE  <<a, b>> \in trusted \/ (Association(b) = "active" /\ ws'[a][b] = Nil)
  <2>1. PICK T : trusted' = TrustedBy(n, {}, T)
    BY <1>8 DEF Boot
  <2>2. n \notin up /\ ws' = ws
    BY <1>1, <1>8 DEF Boot, TypeOK
  <2>3. a = n => ws'[a][b] = Nil
    BY <1>1, <2>2 DEF ClientsRun, OneConnection
  <2> QED
    BY <2>1, <2>3, TrustedByParts
<1>9. ASSUME NEW n \in Servers,
             \/ Leave(n) \/ LeaveOffline(n) \/ LeaveCut(n) \/ Lapse(n) \/ Sweep(n)
             \/ Stop(n) \/ Start(n) \/ UplinkLost(n)
             \/ \E S \in SUBSET (Servers \ {n}) : InviteCut(n, S)
      PROVE  <<a, b>> \in trusted
  BY <1>3, <1>9 DEF Leave, LeaveOffline, LeaveCut, Lapse, Sweep, Stop, Start, UplinkLost, InviteCut
<1>10. CASE Membership
  BY <1>5, <1>6, <1>7, <1>8, <1>9, <1>10 DEF Membership
<1>11. CASE Quiet \/ \E k \in Conns : Lost(k)
  BY <1>4, <1>11 DEF Quiet, OpenSocket, Reconnect, Opened, Closed, Lost, Close, ClientOffline,
                     Handshake, Linked, Retried, Evicted
<1> QED
  BY <1>4, <1>10, <1>11 DEF Next, vars

\* A machine that is associated stays so, or nobody trusts it any more.
LEMMA AssociationStep ==
    ASSUME TypeOK, FilesAgree, [Next]_vars, NEW b \in Servers, Association(b) = "active"
    PROVE  Association(b)' = "active" \/ \A a \in Servers : <<a, b>> \notin trusted'
<1>1. /\ up \subseteq Servers /\ starting \subseteq Servers \ up
      /\ meshPairedAt \in [Servers -> Associations]
      /\ disk \in [Servers -> File]
  BY DEF TypeOK
<1>2. disk[b].paired = "active" \/ (b \notin up /\ b \in starting /\ meshPairedAt[b] = "active")
  <2>1. CASE b \in up
    <3>1. disk[b] = [paired |-> meshPairedAt[b], peers |-> savedPeers[b]]
      BY <2>1 DEF FilesAgree
    <3> QED
      BY <2>1, <3>1, FileParts DEF Association
  <2>2. CASE b \notin up
    BY <2>2 DEF Association
  <2> QED
    BY <2>1, <2>2
<1>3. disk[b].paired = "active" /\ (b \in up \cup starting => meshPairedAt[b] = "active")
  BY <1>1, <1>2 DEF FilesAgree, Association
<1>4. CASE UNCHANGED <<up, starting, meshPairedAt>> /\ disk'[b].paired = disk[b].paired
  BY <1>3, <1>4 DEF Association
<1>5. ASSUME NEW n \in Servers, NEW S \in SUBSET (Servers \ {n}), Invite(n, S)
      PROVE  Association(b)' = "active"
  <2>1. n \in up /\ up' = up /\ starting' = starting
    BY <1>5 DEF Invite
  <2>2. meshPairedAt'[b] = meshPairedAt[b] \/ meshPairedAt'[b] = "active"
    BY <1>1, <1>5 DEF Invite
  <2>3. disk'[b].paired = disk[b].paired \/ disk'[b].paired = "active"
    BY <1>1, <1>5 DEF Invite
  <2> QED
    BY <1>3, <2>1, <2>2, <2>3 DEF Association
<1>6. ASSUME NEW n \in Servers, Regenerate(n)
      PROVE  Association(b)' = "active"
  BY <1>1, <1>3, <1>6 DEF Regenerate, Association, File
<1>7. ASSUME NEW n \in Servers, Leave(n) \/ LeaveOffline(n) \/ LeaveCut(n) \/ Lapse(n)
      PROVE  Association(b)' = "active" \/ \A a \in Servers : <<a, b>> \notin trusted'
  <2>1. CASE b = n
    <3>1. \A a \in Servers : <<a, b>> \in Unseen(n)
      BY <2>1 DEF Unseen
    <3> QED
      BY <1>7, <3>1 DEF Leave, LeaveOffline, LeaveCut, Lapse
  <2>2. CASE b # n
    BY <1>1, <1>3, <1>7, <2>2
       DEF Leave, LeaveOffline, LeaveCut, Lapse, stopAllMesh, Down, Association
  <2> QED
    BY <2>1, <2>2
<1>8. ASSUME NEW n \in Servers, NEW file \in File, Down(n, file), file.paired = disk[n].paired
      PROVE  Association(b)' = "active"
  BY <1>1, <1>3, <1>8 DEF Down, Association
<1>9. ASSUME NEW n \in Servers, NEW S \in SUBSET (Servers \ {n}), InviteCut(n, S)
      PROVE  Association(b)' = "active"
  <2>1. [disk[n] EXCEPT !.peers = S] \in File /\ [disk[n] EXCEPT !.peers = S].paired = disk[n].paired
    BY <1>1 DEF File
  <2> QED
    BY <1>8, <1>9, <2>1 DEF InviteCut
<1>10. ASSUME NEW n \in Servers, Stop(n)
       PROVE  Association(b)' = "active"
  BY <1>1, <1>8, <1>10 DEF Stop
<1>11. ASSUME NEW n \in Servers, Sweep(n)
       PROVE  Association(b)' = "active"
  <2>1. disk'[b].paired = disk[b].paired
    BY <1>1, <1>11 DEF Sweep, File
  <2>2. UNCHANGED <<up, starting, meshPairedAt>>
    BY <1>11 DEF Sweep
  <2> QED
    BY <1>3, <2>1, <2>2 DEF Association
<1>12. ASSUME NEW n \in Servers, Start(n)
       PROVE  Association(b)' = "active"
  BY <1>1, <1>3, <1>12 DEF Start, Association
<1>13. ASSUME NEW n \in Servers, Boot(n)
       PROVE  Association(b)' = "active"
  <2>1. /\ n \in starting /\ up' = up \cup {n} /\ starting' = starting \ {n}
        /\ meshPairedAt'[b] = meshPairedAt[b] \/ meshPairedAt'[b] = "active"
        /\ disk'[b].paired = disk[b].paired \/ disk'[b].paired = "active"
    BY <1>1, <1>13 DEF Boot
  <2> QED
    BY <1>1, <1>3, <2>1 DEF Association
<1>14. ASSUME NEW k \in Conns, Evicted(k)
       PROVE  Association(b)' = "active"
  <2>1. disk'[b].paired = disk[b].paired
    BY <1>1, <1>14 DEF Evicted, File
  <2>2. UNCHANGED <<up, starting, meshPairedAt>>
    BY <1>14 DEF Evicted
  <2> QED
    BY <1>3, <2>1, <2>2 DEF Association
<1>15. CASE Membership
  <2>1. PICK n \in Servers :
            \/ \E S \in SUBSET (Servers \ {n}) : Invite(n, S) \/ InviteCut(n, S)
            \/ \E m \in Servers : ForwardChange(n, m)
            \/ Regenerate(n) \/ Leave(n) \/ LeaveOffline(n) \/ LeaveCut(n)
            \/ Lapse(n) \/ Sweep(n)
            \/ Stop(n) \/ Start(n) \/ Boot(n) \/ UplinkLost(n)
    BY <1>15 DEF Membership
  <2>2. CASE (\E m \in Servers : ForwardChange(n, m)) \/ UplinkLost(n)
    BY <1>4, <2>2 DEF ForwardChange, UplinkLost
  <2> QED
    BY <1>5, <1>6, <1>7, <1>9, <1>10, <1>11, <1>12, <1>13, <2>1, <2>2
<1>16. CASE Quiet \/ \E k \in Conns : Lost(k)
  <2>1. CASE \E k \in Conns : Evicted(k)
    BY <1>14, <2>1
  <2>2. CASE \E n, m \in Servers : OpenSocket(n, m) \/ Reconnect(n, m)
    BY <1>4, <2>2 DEF OpenSocket, Reconnect
  <2>3. CASE \E k \in Conns : \/ Opened(k) \/ Closed(k) \/ ClientOffline(k)
                              \/ Handshake(k) \/ Linked(k) \/ Retried(k) \/ Lost(k)
    BY <1>4, <2>3 DEF Opened, Closed, Lost, Close, ClientOffline, Handshake, Linked, Retried
  <2> QED
    BY <1>16, <2>1, <2>2, <2>3 DEF Quiet
<1>17. CASE UNCHANGED vars
  BY <1>4, <1>17 DEF vars
<1> QED
  BY <1>15, <1>16, <1>17 DEF Next

\* So whom a machine trusts is associated after every step.
LEMMA TrustedActiveStep ==
    ASSUME LinkInv, FilesAgree, TrustedAreActive, [Next]_vars
    PROVE  TrustedAreActive'
<1> SUFFICES ASSUME NEW a \in Servers, NEW b \in Servers, <<a, b>> \in trusted'
             PROVE  Association(b)' = "active"
    BY DEF TrustedAreActive
<1>1. Association(b) = "active"
  BY TrustedStep DEF TrustedAreActive
<1> QED
  BY <1>1, AssociationStep DEF LinkInv

\* No step but a handshake makes an answer an eviction, and none but a new
\* socket gives a client another connection.
LEMMA AnswersKept ==
    ASSUME TypeOK, [Next]_vars
    PROVE  /\ \/ \A j \in Conns : conn'[j].answer = "evict" => conn[j].answer = "evict"
              \/ \E k \in Conns : Handshake(k)
           /\ \/ \A a, b \in Servers : ws'[a][b] \in {Nil, ws[a][b]}
              \/ \E n, m \in Servers : OpenSocket(n, m)
<1>1. ws \in [Servers -> [Servers -> Conns \cup {Nil}]] /\ conn \in [Conns -> Conn]
  BY DEF TypeOK
<1>2. ASSUME NEW n \in Servers, NEW S, NEW T, Clients(n, S, T)
      PROVE  /\ \A j \in Conns : conn'[j].answer = "evict" => conn[j].answer = "evict"
             /\ \A a, b \in Servers : ws'[a][b] \in {Nil, ws[a][b]}
  <2>1. \A j \in Conns : conn'[j].answer = conn[j].answer
    BY <1>1, <1>2 DEF Clients, GivenUp, Conn
  <2>2. \A a, b \in Servers : ws'[a][b] \in {Nil, ws[a][b]}
    BY <1>1, <1>2 DEF Clients
  <2> QED
    BY <2>1, <2>2
<1>3. ASSUME NEW n \in Servers, NEW file, Down(n, file)
      PROVE  /\ \A j \in Conns : conn'[j].answer = "evict" => conn[j].answer = "evict"
             /\ \A a, b \in Servers : ws'[a][b] \in {Nil, ws[a][b]}
  <2>1. \A j \in Conns : conn'[j].answer = "evict" => conn[j].answer = "evict"
    BY <1>1, <1>3 DEF Down, Conn
  <2>2. \A a, b \in Servers : ws'[a][b] \in {Nil, ws[a][b]}
    BY <1>1, <1>3 DEF Down
  <2> QED
    BY <2>1, <2>2
<1>4. ASSUME NEW n \in Servers, conn' = Dropped(n)
      PROVE  \A j \in Conns : conn'[j].answer = "evict" => conn[j].answer = "evict"
  BY <1>1, <1>4 DEF Dropped, Conn
<1>5. ASSUME NEW k \in Conns, Close(k)
      PROVE  /\ \A j \in Conns : conn'[j].answer = "evict" => conn[j].answer = "evict"
             /\ \A a, b \in Servers : ws'[a][b] \in {Nil, ws[a][b]}
  <2>1. \A j \in Conns : conn'[j].answer = "evict" => conn[j].answer = "evict"
    BY <1>1, <1>5 DEF Close, Conn
  <2>2. \A a, b \in Servers : ws'[a][b] \in {Nil, ws[a][b]}
    BY <1>1, <1>5 DEF Close
  <2> QED
    BY <2>1, <2>2
<1>6. ASSUME NEW k \in Conns, Opened(k) \/ Linked(k) \/ Retried(k) \/ ClientOffline(k)
      PROVE  /\ \A j \in Conns : conn'[j].answer = "evict" => conn[j].answer = "evict"
             /\ ws' = ws
  <2>1. CASE Opened(k)
    BY <1>1, <2>1 DEF Opened, Conn
  <2>2. CASE Linked(k)
    BY <1>1, <2>2 DEF Linked, Conn
  <2>3. CASE Retried(k)
    BY <1>1, <2>3 DEF Retried, Conn
  <2>4. CASE ClientOffline(k)
    BY <1>1, <2>4 DEF ClientOffline, UnusedConn
  <2> QED
    BY <1>6, <2>1, <2>2, <2>3, <2>4
<1>7. ASSUME NEW k \in Conns, Evicted(k)
      PROVE  /\ \A j \in Conns : conn'[j].answer = "evict" => conn[j].answer = "evict"
             /\ \A a, b \in Servers : ws'[a][b] \in {Nil, ws[a][b]}
  <2>1. \A j \in Conns : conn'[j].answer = "evict" => conn[j].answer = "evict"
    BY <1>1, <1>7 DEF Evicted, Conn
  <2>2. \A a, b \in Servers : ws'[a][b] \in {Nil, ws[a][b]}
    BY <1>1, <1>7 DEF Evicted
  <2> QED
    BY <2>1, <2>2
<1>8. ASSUME NEW n \in Servers, NEW m \in Servers, OpenSocket(n, m)
      PROVE  \A j \in Conns : conn'[j].answer = "evict" => conn[j].answer = "evict"
  BY <1>1, <1>8 DEF OpenSocket, UnusedConn, Conn
<1>9. CASE UNCHANGED <<ws, conn>>
  BY <1>9
<1>10. CASE Membership
  <2>1. PICK n \in Servers :
            \/ \E S \in SUBSET (Servers \ {n}) : Invite(n, S) \/ InviteCut(n, S)
            \/ \E m \in Servers : ForwardChange(n, m)
            \/ Regenerate(n) \/ Leave(n) \/ LeaveOffline(n) \/ LeaveCut(n)
            \/ Lapse(n) \/ Sweep(n)
            \/ Stop(n) \/ Start(n) \/ Boot(n) \/ UplinkLost(n)
    BY <1>10 DEF Membership
  <2>2. CASE \/ \E S \in SUBSET (Servers \ {n}) : Invite(n, S)
             \/ \E m \in Servers : ForwardChange(n, m)
             \/ Regenerate(n) \/ Leave(n) \/ Sweep(n)
    BY <1>2, <2>2 DEF Invite, ForwardChange, Regenerate, Leave, Sweep, stopAllMesh
  <2>3. CASE (\E S \in SUBSET (Servers \ {n}) : InviteCut(n, S)) \/ Stop(n) \/ LeaveCut(n)
    BY <1>3, <2>3 DEF InviteCut, Stop, LeaveCut
  <2>4. CASE Boot(n) \/ UplinkLost(n)
    BY <1>4, <2>4 DEF Boot, UplinkLost
  <2>5. CASE LeaveOffline(n) \/ Lapse(n) \/ Start(n)
    BY <1>9, <2>5 DEF LeaveOffline, Lapse, Start
  <2> QED
    BY <2>1, <2>2, <2>3, <2>4, <2>5
<1>11. CASE Quiet \/ \E k \in Conns : Lost(k)
  <2>1. CASE \E n, m \in Servers : OpenSocket(n, m)
    BY <1>8, <2>1
  <2>2. CASE \E n, m \in Servers : Reconnect(n, m)
    BY <1>9, <2>2 DEF Reconnect
  <2>3. CASE \E k \in Conns : Closed(k) \/ Lost(k)
    BY <1>5, <2>3 DEF Closed, Lost
  <2>4. CASE \E k \in Conns : Opened(k) \/ Linked(k) \/ Retried(k) \/ ClientOffline(k)
    BY <1>6, <2>4
  <2>5. CASE \E k \in Conns : Evicted(k)
    BY <1>7, <2>5
  <2>6. CASE \E k \in Conns : Handshake(k)
    BY <2>6 DEF Handshake
  <2> QED
    BY <1>11, <2>1, <2>2, <2>3, <2>4, <2>5, <2>6 DEF Quiet
<1> QED
  BY <1>9, <1>10, <1>11 DEF Next, vars

\* A peer that has been in the mesh all the time accepts, or asks to try again.
LEMMA NoEvictionStep ==
    ASSUME LinkInv, TrustedAreActive, NoEvictionComes, [Next]_vars
    PROVE  NoEvictionComes'
<1> SUFFICES ASSUME NEW a \in Servers, NEW b \in Servers, <<a, b>> \in trusted', ws'[a][b] # Nil
             PROVE  conn'[ws'[a][b]].answer # "evict"
    BY DEF NoEvictionComes
<1>1. TypeOK /\ OneConnection
  BY DEF LinkInv
<1>2. <<a, b>> \in trusted
  BY TrustedStep
<1>3. Association(b) = "active"
  BY <1>2 DEF TrustedAreActive
<1>4. ASSUME NEW n \in Servers, NEW m \in Servers, OpenSocket(n, m)
      PROVE  conn'[ws'[a][b]].answer # "evict"
  <2>1. PICK k \in Conns :
           /\ conn[k].state = "unused"
           /\ conn' = [conn EXCEPT ![k] = [UnusedConn EXCEPT !.from = n, !.to = m,
                                                            !.state = "connecting"]]
           /\ ws' = [ws EXCEPT ![n][m] = k]
    BY <1>4 DEF OpenSocket
  <2>2. ws'[a][b] = k \/ ws'[a][b] = ws[a][b]
    BY <1>1, <2>1 DEF TypeOK
  <2>3. conn'[k].answer = "none" /\ \A j \in Conns : j # k => conn'[j] = conn[j]
    BY <1>1, <2>1 DEF TypeOK, UnusedConn
  <2>4. ws[a][b] \in Conns \cup {Nil}
    BY <1>1 DEF TypeOK
  <2>5. ws'[a][b] # k => conn'[ws'[a][b]] = conn[ws[a][b]] /\ ws[a][b] # Nil
    BY <2>2, <2>3, <2>4
  <2> QED
    BY <1>2, <2>2, <2>3, <2>5 DEF NoEvictionComes
<1>5. ASSUME NEW k \in Conns, Handshake(k)
      PROVE  conn'[ws'[a][b]].answer # "evict"
  <2>1. ws' = ws /\ ws[a][b] \in Conns
    BY <1>1, <1>5 DEF Handshake, TypeOK
  <2>2. CASE ws[a][b] = k
    <3>1. conn[k].to = b /\ b \in up
      BY <1>1, <1>5, <2>1, <2>2 DEF OneConnection, Handshake
    <3>2. isMeshActive(b)
      BY <1>3, <3>1 DEF Association, isMeshActive
    <3>3. conn'[k].answer # "evict"
      BY <1>1, <1>5, <3>1, <3>2 DEF Handshake, TypeOK, Conn
    <3> QED
      BY <2>1, <2>2, <3>3
  <2>3. CASE ws[a][b] # k
    <3>1. conn'[ws[a][b]] = conn[ws[a][b]]
      BY <1>1, <1>5, <2>1, <2>3 DEF Handshake, TypeOK
    <3> QED
      BY <1>2, <2>1, <3>1 DEF NoEvictionComes
  <2> QED
    BY <2>2, <2>3
<1>6. CASE /\ \A j \in Conns : conn'[j].answer = "evict" => conn[j].answer = "evict"
           /\ \A x, y \in Servers : ws'[x][y] \in {Nil, ws[x][y]}
  <2>1. ws'[a][b] = ws[a][b] /\ ws[a][b] \in Conns
    BY <1>1, <1>6 DEF TypeOK
  <2> QED
    BY <1>2, <1>6, <2>1 DEF NoEvictionComes
<1> QED
  BY <1>1, <1>4, <1>5, <1>6, AnswersKept

\* A peer that was in the mesh ever since its client was started is not
\* forgotten because of an answer to an older connection (mesh-client.ts:127,
\* index.ts:421-436), however many of them are still about, unless somebody is
\* told to leave while it starts.
THEOREM MembersKept ==
    ASSUME ~LeaveAtStart
    PROVE  Spec => MemberNotEvicted
<1>1. Init => TrustedAreActive /\ NoEvictionComes
  BY DEF Init, TrustedAreActive, NoEvictionComes
<1>2. LinkInv /\ FilesAgree /\ TrustedAreActive /\ NoEvictionComes /\ [Next]_vars
         => TrustedAreActive' /\ NoEvictionComes'
  BY TrustedActiveStep, NoEvictionStep
<1>3. LinkInv /\ NoEvictionComes /\ [Next]_vars =>
         [\A n, m \in Servers :
             (m \in savedPeers[n] /\ <<n, m>> \in trusted /\ \E k \in Conns : Evicted(k))
                 => m \in savedPeers'[n]]_vars
  <2> SUFFICES ASSUME LinkInv, NoEvictionComes, NEW n \in Servers, NEW m \in Servers,
                      m \in savedPeers[n], <<n, m>> \in trusted, NEW k \in Conns, Evicted(k)
               PROVE  m \in savedPeers'[n]
    OBVIOUS
  <2>1. /\ ws[conn[k].from][conn[k].to] = k /\ conn[k].answer = "evict"
        /\ conn[k].from \in Servers /\ conn[k].to \in Servers
    BY DEF Evicted, Current, LinkInv, TypeOK, WellFormed
  <2>2. k # Nil
    BY NilAssumption
  <2>3. ~(conn[k].from = n /\ conn[k].to = m)
    BY <2>1, <2>2 DEF NoEvictionComes
  <2>4. savedPeers' = [savedPeers EXCEPT ![conn[k].from] = @ \ {conn[k].to}]
    BY DEF Evicted
  <2> QED
    BY <2>1, <2>3, <2>4 DEF LinkInv, TypeOK
<1> QED
  BY <1>1, <1>2, <1>3, FilesInvariant, PTL DEF Spec, MemberNotEvicted

-----------------------------------------------------------------------------
(* Who evicts. *)

\* An association, once there is one, lapses or ends but is never unset, in
\* memory or in the file.
OnceAssociated ==
    \A n \in Servers :
        /\ disk[n].paired # "never"
        /\ n \in up \cup starting => meshPairedAt[n] # "never"

LEMMA OnceAssociatedStep ==
    ASSUME TypeOK, OnceAssociated, [Next]_vars
    PROVE  OnceAssociated'
<1> SUFFICES ASSUME NEW b \in Servers
             PROVE  /\ disk'[b].paired # "never"
                    /\ b \in up' \cup starting' => meshPairedAt'[b] # "never"
    BY DEF OnceAssociated
<1>1. /\ up \subseteq Servers /\ starting \subseteq Servers \ up
      /\ meshPairedAt \in [Servers -> Associations]
      /\ disk \in [Servers -> File]
  BY DEF TypeOK
<1>2. /\ disk[b].paired # "never"
      /\ b \in up \cup starting => meshPairedAt[b] # "never"
  BY DEF OnceAssociated
\* An event that leaves the daemons that run and the associations alone.
<1>3. CASE UNCHANGED <<up, starting, meshPairedAt>> /\ disk'[b].paired = disk[b].paired
  BY <1>2, <1>3
<1>4. ASSUME NEW n \in Servers, NEW S \in SUBSET (Servers \ {n}), Invite(n, S)
      PROVE  /\ disk'[b].paired # "never"
             /\ b \in up' \cup starting' => meshPairedAt'[b] # "never"
  BY <1>1, <1>2, <1>4 DEF Invite
<1>5. ASSUME NEW n \in Servers, Regenerate(n) \/ Leave(n) \/ LeaveOffline(n)
      PROVE  /\ disk'[b].paired # "never"
             /\ b \in up' \cup starting' => meshPairedAt'[b] # "never"
  <2>1. CASE Regenerate(n)
    BY <1>1, <1>2, <2>1 DEF Regenerate, File
  <2>2. CASE Leave(n)
    BY <1>1, <1>2, <2>2 DEF Leave
  <2>3. CASE LeaveOffline(n)
    BY <1>1, <1>2, <2>3 DEF LeaveOffline
  <2> QED
    BY <1>5, <2>1, <2>2, <2>3
<1>6. ASSUME NEW n \in Servers, Lapse(n)
      PROVE  /\ disk'[b].paired # "never"
             /\ b \in up' \cup starting' => meshPairedAt'[b] # "never"
  BY <1>1, <1>2, <1>6 DEF Lapse, Lapsed, File
<1>7. ASSUME NEW n \in Servers, NEW file \in File, Down(n, file), file.paired # "never"
      PROVE  /\ disk'[b].paired # "never"
             /\ b \in up' \cup starting' => meshPairedAt'[b] # "never"
  BY <1>1, <1>2, <1>7 DEF Down
<1>8. ASSUME NEW n \in Servers, NEW S \in SUBSET (Servers \ {n}), InviteCut(n, S)
      PROVE  /\ disk'[b].paired # "never"
             /\ b \in up' \cup starting' => meshPairedAt'[b] # "never"
  <2>1. [disk[n] EXCEPT !.peers = S] \in File /\ [disk[n] EXCEPT !.peers = S].paired # "never"
    BY <1>1 DEF File, OnceAssociated
  <2> QED
    BY <1>7, <1>8, <2>1 DEF InviteCut
<1>9. ASSUME NEW n \in Servers, LeaveCut(n) \/ Stop(n)
      PROVE  /\ disk'[b].paired # "never"
             /\ b \in up' \cup starting' => meshPairedAt'[b] # "never"
  <2>1. /\ [disk[n] EXCEPT !.paired = "ejected"] \in File
        /\ [disk[n] EXCEPT !.paired = "ejected"].paired # "never"
        /\ disk[n] \in File /\ disk[n].paired # "never"
    BY <1>1 DEF File, Associations, OnceAssociated
  <2> QED
    BY <1>7, <1>9, <2>1 DEF LeaveCut, Stop
<1>10. ASSUME NEW n \in Servers, Start(n)
       PROVE  /\ disk'[b].paired # "never"
              /\ b \in up' \cup starting' => meshPairedAt'[b] # "never"
  BY <1>1, <1>2, <1>10 DEF Start
<1>11. ASSUME NEW n \in Servers, Boot(n)
       PROVE  /\ disk'[b].paired # "never"
              /\ b \in up' \cup starting' => meshPairedAt'[b] # "never"
  <2>1. /\ n \in starting /\ up' = up \cup {n} /\ starting' = starting \ {n}
        /\ meshPairedAt'[b] = meshPairedAt[b] \/ meshPairedAt'[b] = "active"
        /\ disk'[b].paired = disk[b].paired \/ disk'[b].paired = "active"
    BY <1>1, <1>11 DEF Boot
  <2> QED
    BY <1>2, <2>1
<1>12. ASSUME NEW n \in Servers, Sweep(n)
       PROVE  UNCHANGED <<up, starting, meshPairedAt>> /\ disk'[b].paired = disk[b].paired
  BY <1>1, <1>12 DEF Sweep, File
<1>13. ASSUME NEW k \in Conns, Evicted(k)
       PROVE  UNCHANGED <<up, starting, meshPairedAt>> /\ disk'[b].paired = disk[b].paired
  BY <1>1, <1>13 DEF Evicted, File
<1>14. CASE Membership
  <2>1. PICK n \in Servers :
            \/ \E S \in SUBSET (Servers \ {n}) : Invite(n, S) \/ InviteCut(n, S)
            \/ \E m \in Servers : ForwardChange(n, m)
            \/ Regenerate(n) \/ Leave(n) \/ LeaveOffline(n) \/ LeaveCut(n)
            \/ Lapse(n) \/ Sweep(n)
            \/ Stop(n) \/ Start(n) \/ Boot(n) \/ UplinkLost(n)
    BY <1>14 DEF Membership
  <2>2. CASE (\E m \in Servers : ForwardChange(n, m)) \/ UplinkLost(n)
    BY <1>3, <2>2 DEF ForwardChange, UplinkLost
  <2> QED
    BY <1>3, <1>4, <1>5, <1>6, <1>8, <1>9, <1>10, <1>11, <1>12, <2>1, <2>2
<1>15. CASE Quiet \/ \E k \in Conns : Lost(k)
  <2>1. CASE \E k \in Conns : Evicted(k)
    BY <1>3, <1>13, <2>1
  <2>2. CASE \E n, m \in Servers : OpenSocket(n, m) \/ Reconnect(n, m)
    BY <1>3, <2>2 DEF OpenSocket, Reconnect
  <2>3. CASE \E k \in Conns : \/ Opened(k) \/ Closed(k) \/ ClientOffline(k)
                              \/ Handshake(k) \/ Linked(k) \/ Retried(k) \/ Lost(k)
    BY <1>3, <2>3 DEF Opened, Closed, Lost, Close, ClientOffline, Handshake, Linked, Retried
  <2> QED
    BY <1>15, <2>1, <2>2, <2>3 DEF Quiet
<1>16. CASE UNCHANGED vars
  BY <1>3, <1>16 DEF vars
<1> QED
  BY <1>14, <1>15, <1>16 DEF Next

\* Only a machine that has left, or whose association has lapsed, evicts
\* (bridge.ts:506), if every machine was associated once before it is met.
THEOREM GoneEvict ==
    ASSUME ~Fresh
    PROVE  Spec => OnlyTheGoneEvict
<1>1. Init => OnceAssociated
  <2> SUFFICES ASSUME Init, NEW n \in Servers
               PROVE  disk[n].paired # "never" /\ meshPairedAt[n] # "never"
    BY DEF OnceAssociated
  <2>1. meshPairedAt[n] = "active" /\ disk[n] = [paired |-> "active", peers |-> {}]
    BY DEF Init
  <2> QED
    BY <2>1
<1>2. TypeOK /\ OnceAssociated /\ [Next]_vars => OnceAssociated'
  BY OnceAssociatedStep
<1>3. TypeOK /\ OnceAssociated /\ [Next]_vars =>
         [\A k \in Conns :
             conn'[k].answer = "evict" /\ conn[k].answer # "evict"
                 => meshPairedAt[conn[k].to] \in {"ejected", "lapsed"}]_vars
  <2> SUFFICES ASSUME TypeOK, OnceAssociated, [Next]_vars, NEW k \in Conns,
                      conn'[k].answer = "evict", conn[k].answer # "evict"
               PROVE  meshPairedAt[conn[k].to] \in {"ejected", "lapsed"}
    OBVIOUS
  <2>1. PICK j \in Conns : Handshake(j)
    BY AnswersKept
  <2>2. k = j /\ conn[k].to \in up /\ ~isMeshActive(conn[k].to)
    BY <2>1 DEF Handshake, TypeOK, Conn
  <2>3. conn[k].to \in Servers /\ meshPairedAt[conn[k].to] \in Associations
    BY <2>2 DEF TypeOK
  <2> QED
    BY <2>2, <2>3 DEF OnceAssociated, isMeshActive, Associations
<1> QED
  BY <1>1, <1>2, <1>3, TypeCorrect, PTL DEF Spec, OnlyTheGoneEvict
=============================================================================
