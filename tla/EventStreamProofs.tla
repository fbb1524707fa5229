-------------------------- MODULE EventStreamProofs --------------------------
(***************************************************************************)
(* Theorems about opencode: the event stream that all watched sessions     *)
(* share, one phone's subscription, and the server they are read from.     *)
(*                                                                         *)
(* Of EventStream, while the stream is started only when no connection is  *)
(* left over: NoIdleSocket and DeliveredOnce rest on there being one       *)
(* connection at most, which holds because the reconnect timer is set only *)
(* after the connection went away.  Its types, however many connections    *)
(* there are: an event is handed over once for each of them (OnceEach).    *)
(*                                                                         *)
(* Of Opencode, however its reads overlap and fail: types, that a question *)
(* is asked once (LookedUpOnce), and when its pending marks are right: the *)
(* n-th message is the n-th state exactly when no empty row comes before   *)
(* it.                                                                     *)
(*                                                                         *)
(* Of OpencodeServer: types, and while listings take turns, that a serve   *)
(* which runs is the one the daemon holds: no server is looked for while   *)
(* one is remembered (NoneRemembered), and what runs is remembered or      *)
(* waited for (Accounted).                                                 *)
(***************************************************************************)
EXTENDS EventStream, Opencode, OpencodeServer, FiniteSetTheorems, TLAPS

Types ==
    /\ subscribers \subseteq Subscribers
    /\ conn \in [Conns -> Conn]
    /\ controller \in Conns \cup {Nil}
    /\ received \in [Subscribers -> Nat]

\* There is one connection at most.
OneConnection ==
    \A c, d \in Conns : (conn[c].phase # "none" /\ conn[d].phase # "none") => c = d

\* It is the one that stop() would abort, or aborted already.
InReach ==
    \A c \in Conns : conn[c].phase # "none" =>
        conn[c].aborted \/ (controller = c /\ subscribers # {} /\ conn[c].phase # "unread")

\* While a reconnection is due there is none.
TimerAlone == reconnectTimer = "set" => \A c \in Conns : conn[c].phase = "none"

\* An event on its way has been handed to nobody.
FrameFresh ==
    /\ \A c \in Conns : conn[c].phase = "none" => conn[c].frame = Nil
    /\ (\E c \in Conns : conn[c].frame # Nil) => \A s \in Subscribers : received[s] = 0

StreamInv ==
    /\ Types /\ OneConnection /\ InReach /\ TimerAlone /\ FrameFresh
    /\ DeliveredOnce

LEMMA ClosedType == Closed \in Conn
  BY DEF Closed, Conn

LEMMA InitStream == Init => StreamInv
  BY ClosedType
  DEF Init, StreamInv, Types, OneConnection, InReach, TimerAlone, FrameFresh,
      DeliveredOnce, Closed, Subscribers

\* What connect does when no connection is there.
LEMMA ConnectAlone ==
  ASSUME StreamInv, Connect, \A c \in Conns : conn[c].phase = "none",
         subscribers' \subseteq Subscribers, subscribers' # {},
         received' \in [Subscribers -> Nat],
         \A s \in Subscribers : received'[s] <= 1
  PROVE  StreamInv'
  <1>1. PICK c \in Conns :
          /\ conn' = [conn EXCEPT ![c].phase = "opening"]
          /\ controller' = c
          /\ reconnectTimer' = "null"
    BY DEF Connect
  <1>2. conn \in [Conns -> Conn]
    BY DEF StreamInv, Types
  <1>3. conn' = [conn EXCEPT ![c] = [conn[c] EXCEPT !.phase = "opening"]]
    BY <1>1, <1>2
  <1>4. conn[c] \in Conn /\ conn[c].frame = Nil
    BY <1>2 DEF StreamInv, FrameFresh
  <1>5. conn' \in [Conns -> Conn]
    BY <1>2, <1>3, <1>4 DEF Conn
  <1>6. conn'[c].phase = "opening" /\ conn'[c].frame = Nil
    BY <1>2, <1>3, <1>4 DEF Conn
  <1>7. \A d \in Conns : d # c => conn'[d].phase = "none" /\ conn'[d].frame = Nil
    BY <1>2, <1>3 DEF StreamInv, FrameFresh
  <1>8. Types'
    BY <1>1, <1>5 DEF Types
  <1>9. OneConnection' /\ TimerAlone'
    BY <1>1, <1>7 DEF OneConnection, TimerAlone
  <1>10. InReach'
    BY <1>1, <1>6, <1>7 DEF InReach
  <1>11. FrameFresh' /\ DeliveredOnce'
    BY <1>6, <1>7 DEF FrameFresh, DeliveredOnce
  <1> QED
    BY <1>8, <1>9, <1>10, <1>11 DEF StreamInv

\* An abort leaves everything else of the connections as it is.
LEMMA AbortOne ==
  ASSUME StreamInv, NEW c \in Conns, conn' = [conn EXCEPT ![c].aborted = TRUE]
  PROVE  /\ conn' \in [Conns -> Conn]
         /\ \A d \in Conns : conn'[d].phase = conn[d].phase /\ conn'[d].frame = conn[d].frame
         /\ \A d \in Conns : d # c => conn'[d] = conn[d]
         /\ conn'[c].aborted
  <1>1. conn \in [Conns -> Conn] /\ conn[c] \in Conn
    BY DEF StreamInv, Types
  <1> DEFINE r == [conn[c] EXCEPT !.aborted = TRUE]
  <1>2. conn' = [conn EXCEPT ![c] = r]
    BY <1>1
  <1>3. r \in Conn /\ r.phase = conn[c].phase /\ r.frame = conn[c].frame /\ r.aborted
    BY <1>1 DEF Conn
  <1> HIDE DEF r
  <1> QED
    BY <1>1, <1>2, <1>3

\* An abort of the connection that is there.
LEMMA Aborts ==
  ASSUME StreamInv, NEW c \in Conns, conn[c].phase # "none",
         conn' = [conn EXCEPT ![c].aborted = TRUE],
         UNCHANGED received,
         subscribers' \subseteq subscribers,
         controller' \in Conns \cup {Nil},
         reconnectTimer' = "set" => reconnectTimer = "set"
  PROVE  StreamInv'
  <1>3. conn' \in [Conns -> Conn]
    BY AbortOne
  <1>4. \A d \in Conns : conn'[d].phase = conn[d].phase /\ conn'[d].frame = conn[d].frame
    BY AbortOne
  <1>5. conn'[c].aborted
    BY AbortOne
  <1>6. \A d \in Conns : d # c => conn[d].phase = "none"
    BY DEF StreamInv, OneConnection
  <1>7. Types'
    BY <1>3 DEF StreamInv, Types
  <1>8. OneConnection' /\ TimerAlone' /\ FrameFresh' /\ DeliveredOnce'
    BY <1>4 DEF StreamInv, OneConnection, TimerAlone, FrameFresh, DeliveredOnce
  <1>9. InReach'
    BY <1>4, <1>5, <1>6 DEF InReach
  <1> QED
    BY <1>7, <1>8, <1>9 DEF StreamInv

\* The connection is gone, and a reconnection may be due.
LEMMA Gone ==
  ASSUME StreamInv, NEW c \in Conns, conn[c].phase # "none",
         conn' = [conn EXCEPT ![c] = Closed],
         UNCHANGED <<subscribers, controller, received>>
  PROVE  StreamInv'
  <1>1. conn \in [Conns -> Conn]
    BY DEF StreamInv, Types
  <1>2. \A d \in Conns : conn'[d].phase = "none" /\ conn'[d].frame = Nil
    BY <1>1 DEF StreamInv, OneConnection, FrameFresh, Closed
  <1>3. Types'
    BY <1>1, ClosedType DEF StreamInv, Types
  <1>4. OneConnection' /\ TimerAlone' /\ InReach'
    BY <1>2 DEF OneConnection, TimerAlone, InReach
  <1>5. FrameFresh' /\ DeliveredOnce'
    BY <1>2 DEF StreamInv, FrameFresh, DeliveredOnce
  <1> QED
    BY <1>3, <1>4, <1>5 DEF StreamInv

LEMMA SubscribeKeeps ==
  ASSUME Overlap = FALSE, StreamInv, NEW s \in Subscribers, Subscribe(s)
  PROVE  StreamInv'
  <1>1. subscribers' \subseteq Subscribers /\ subscribers' # {}
    BY DEF Subscribe, StreamInv, Types
  <1>2. received \in [Subscribers -> Nat]
    BY DEF StreamInv, Types
  <1>3. received' = [received EXCEPT ![s] = 0]
    BY DEF Subscribe
  <1>4. received' \in [Subscribers -> Nat]
    BY <1>2, <1>3
  <1>5. \A x \in Subscribers : received'[x] <= 1 /\ (received[x] = 0 => received'[x] = 0)
    BY <1>2, <1>3 DEF StreamInv, DeliveredOnce
  <1>6. CASE Starts(subscribers')
    <2>1. Connect
      BY <1>6 DEF Subscribe
    <2>2. \A c \in Conns : conn[c].phase = "none"
      BY <1>6 DEF Subscribe, Starts
    <2> QED
      BY <1>1, <1>4, <1>5, <2>1, <2>2, ConnectAlone
  <1>7. CASE ~Starts(subscribers')
    <2>1. UNCHANGED <<conn, controller, reconnectTimer>>
      BY <1>7 DEF Subscribe
    <2>2. Types' /\ OneConnection' /\ TimerAlone'
      BY <1>1, <1>4, <2>1 DEF StreamInv, Types, OneConnection, TimerAlone
    <2>3. InReach'
      BY <1>1, <2>1 DEF StreamInv, InReach
    <2>4. FrameFresh' /\ DeliveredOnce'
      BY <1>5, <2>1 DEF StreamInv, FrameFresh, DeliveredOnce
    <2> QED
      BY <2>2, <2>3, <2>4 DEF StreamInv
  <1> QED
    BY <1>6, <1>7

\* The last subscriber takes the connection with it.
LEMMA UnsubscribeKeeps ==
  ASSUME StreamInv, NEW s \in Subscribers, Unsubscribe(s)
  PROVE  StreamInv'
  <1>1. subscribers' \subseteq subscribers
    BY DEF Unsubscribe
  <1>2. received \in [Subscribers -> Nat] /\ conn \in [Conns -> Conn]
    BY DEF StreamInv, Types
  <1>3. received' = [received EXCEPT ![s] = 0]
    BY DEF Unsubscribe
  <1>4. /\ received' \in [Subscribers -> Nat]
        /\ \A x \in Subscribers : received'[x] <= 1 /\ (received[x] = 0 => received'[x] = 0)
    BY <1>2, <1>3 DEF StreamInv, DeliveredOnce
  <1>5. /\ conn' \in [Conns -> Conn]
        /\ \A d \in Conns : conn'[d].phase = conn[d].phase /\ conn'[d].frame = conn[d].frame
        /\ \A d \in Conns : conn[d].aborted => conn'[d].aborted
        /\ controller' \in Conns \cup {Nil}
        /\ reconnectTimer' = "set" => reconnectTimer = "set"
    <2>1. CASE subscribers' = {} /\ controller \in Conns
               /\ conn' = [conn EXCEPT ![controller].aborted = TRUE]
      <3>3. /\ conn' \in [Conns -> Conn]
            /\ \A d \in Conns : conn'[d].phase = conn[d].phase /\ conn'[d].frame = conn[d].frame
        BY <2>1, AbortOne
      <3>4. \A d \in Conns : conn[d].aborted => conn'[d].aborted
        BY <2>1, AbortOne
      <3> QED
        BY <2>1, <3>3, <3>4 DEF Unsubscribe, Stop
    <2>2. CASE UNCHANGED conn
      BY <1>2, <2>2 DEF Unsubscribe, Stop, StreamInv, Types
    <2> QED
      BY <2>1, <2>2 DEF Unsubscribe, Stop, StreamInv, Types
  <1>6. Types'
    BY <1>1, <1>4, <1>5 DEF StreamInv, Types
  <1>7. OneConnection' /\ TimerAlone'
    BY <1>5 DEF StreamInv, OneConnection, TimerAlone
  <1>8. FrameFresh' /\ DeliveredOnce'
    BY <1>4, <1>5 DEF StreamInv, FrameFresh, DeliveredOnce
  <1>9. InReach'
    <2> SUFFICES ASSUME NEW c \in Conns, conn[c].phase # "none", ~conn[c].aborted
                 PROVE  conn'[c].aborted
                        \/ (controller' = c /\ subscribers' # {} /\ conn'[c].phase # "unread")
      BY <1>5 DEF InReach
    <2>1. controller = c /\ conn[c].phase # "unread"
      BY DEF StreamInv, InReach
    <2>2. CASE subscribers' = {}
      <3>1. conn' = [conn EXCEPT ![c].aborted = TRUE]
        BY <2>1, <2>2, StreamAssumption DEF Unsubscribe, Stop
      <3> QED
        BY <1>2, <3>1 DEF Conn
    <2>3. CASE subscribers' # {}
      BY <1>5, <2>1, <2>3 DEF Unsubscribe
    <2> QED
      BY <2>2, <2>3
  <1> QED
    BY <1>6, <1>7, <1>8, <1>9 DEF StreamInv

\* The response begins: it is read, or, with nobody left, it is not; but then
\* its fetch was aborted and it does not begin.
LEMMA OpenedKeeps ==
  ASSUME StreamInv, NEW c \in Conns, Opened(c)
  PROVE  StreamInv'
  <1>1. conn \in [Conns -> Conn] /\ conn[c] \in Conn
    BY DEF StreamInv, Types
  <1>2. controller = c /\ subscribers # {}
    BY DEF StreamInv, InReach, Opened
  <1> DEFINE r == [conn[c] EXCEPT !.phase = "reading"]
  <1>3. conn' = [conn EXCEPT ![c] = r]
    BY <1>1, <1>2 DEF Opened
  <1>4. r \in Conn /\ r.phase = "reading" /\ r.frame = conn[c].frame
    BY <1>1 DEF Conn
  <1> HIDE DEF r
  <1>5. conn' \in [Conns -> Conn] /\ conn'[c] = r /\ \A d \in Conns : d # c => conn'[d] = conn[d]
    BY <1>1, <1>3, <1>4
  <1>6. UNCHANGED <<subscribers, controller, reconnectTimer, received>>
    BY DEF Opened
  <1>7. conn[c].phase # "none"
    BY DEF Opened
  <1>8. Types'
    BY <1>5, <1>6 DEF StreamInv, Types
  <1>9. OneConnection' /\ TimerAlone'
    BY <1>5, <1>6, <1>7 DEF StreamInv, OneConnection, TimerAlone
  <1>10. InReach'
    BY <1>2, <1>4, <1>5, <1>6 DEF StreamInv, InReach
  <1>11. FrameFresh' /\ DeliveredOnce'
    BY <1>4, <1>5, <1>6 DEF StreamInv, FrameFresh, DeliveredOnce
  <1> QED
    BY <1>8, <1>9, <1>10, <1>11 DEF StreamInv

\* A frame is handed out once, and is the only one on its way.
LEMMA DeliverKeeps ==
  ASSUME StreamInv, NEW c \in Conns, Deliver(c)
  PROVE  StreamInv'
  <1>1. conn \in [Conns -> Conn] /\ conn[c] \in Conn /\ received \in [Subscribers -> Nat]
    BY DEF StreamInv, Types
  <1> DEFINE r == [conn[c] EXCEPT !.frame = Nil]
  <1>2. conn' = [conn EXCEPT ![c] = r]
    BY <1>1 DEF Deliver
  <1>3. r \in Conn /\ r.phase = conn[c].phase /\ r.aborted = conn[c].aborted /\ r.frame = Nil
    BY <1>1 DEF Conn
  <1> HIDE DEF r
  <1>4. /\ conn' \in [Conns -> Conn] /\ conn'[c].frame = Nil
        /\ \A d \in Conns : d # c => conn'[d] = conn[d]
    BY <1>1, <1>2, <1>3
  <1>5. \A d \in Conns : conn'[d].phase = conn[d].phase /\ (conn[d].aborted => conn'[d].aborted)
    BY <1>1, <1>2, <1>3
  <1>6. \A d \in Conns : conn'[d].frame = Nil
    <2>1. \A d \in Conns : d # c => conn[d].phase = "none"
      BY DEF StreamInv, OneConnection, Deliver
    <2> QED
      BY <1>4, <2>1 DEF StreamInv, FrameFresh
  <1>7. UNCHANGED <<subscribers, controller, reconnectTimer>>
    BY DEF Deliver
  <1>8. \A s \in Subscribers : received[s] = 0
    BY DEF StreamInv, FrameFresh, Deliver
  <1>9. received' \in [Subscribers -> Nat] /\ \A s \in Subscribers : received'[s] <= 1
    BY <1>1, <1>8 DEF Deliver
  <1>10. Types'
    BY <1>4, <1>7, <1>9 DEF StreamInv, Types
  <1>11. OneConnection' /\ TimerAlone' /\ InReach'
    BY <1>5, <1>7 DEF StreamInv, OneConnection, TimerAlone, InReach
  <1>12. FrameFresh' /\ DeliveredOnce'
    BY <1>6, <1>9 DEF FrameFresh, DeliveredOnce
  <1> QED
    BY <1>10, <1>11, <1>12 DEF StreamInv

\* An event starts a count of its own.
LEMMA EmitKeeps ==
  ASSUME StreamInv, NEW s \in Sessions \cup {AnySession}, Emit(s)
  PROVE  StreamInv'
  <1>1. conn \in [Conns -> Conn]
    BY DEF StreamInv, Types
  <1>2. \A d \in Conns :
          /\ conn'[d] \in Conn
          /\ conn'[d].phase = conn[d].phase /\ conn'[d].aborted = conn[d].aborted
          /\ conn[d].phase = "none" => conn'[d].frame = Nil
    <2> SUFFICES ASSUME NEW d \in Conns
                 PROVE  /\ conn'[d] \in Conn
                        /\ conn'[d].phase = conn[d].phase
                        /\ conn'[d].aborted = conn[d].aborted
                        /\ conn[d].phase = "none" => conn'[d].frame = Nil
      OBVIOUS
    <2>1. conn[d] \in Conn /\ conn[d].frame = Nil
      BY <1>1 DEF Emit
    <2>2. CASE conn[d].phase = "reading" /\ ~conn[d].wedged /\ ~conn[d].aborted
      <3>1. conn'[d] = [conn[d] EXCEPT !.frame = s]
        BY <2>2 DEF Emit
      <3> QED
        BY <2>1, <2>2, <3>1 DEF Conn
    <2>3. CASE ~(conn[d].phase = "reading" /\ ~conn[d].wedged /\ ~conn[d].aborted)
      <3>1. conn'[d] = conn[d]
        BY <2>3 DEF Emit
      <3> QED
        BY <2>1, <3>1
    <2> QED
      BY <2>2, <2>3
  <1>3. conn' \in [Conns -> Conn]
    <2>1. conn' = [d \in Conns |-> conn'[d]]
      BY DEF Emit
    <2> QED
      BY <1>2, <2>1
  <1>4. UNCHANGED <<subscribers, controller, reconnectTimer>>
    BY DEF Emit, streamVars
  <1>5. /\ received' \in [Subscribers -> Nat]
        /\ \A x \in Subscribers : received'[x] = 0
    BY DEF Emit
  <1>6. Types'
    BY <1>3, <1>4, <1>5 DEF StreamInv, Types
  <1>7. OneConnection' /\ TimerAlone' /\ InReach'
    BY <1>2, <1>4 DEF StreamInv, OneConnection, TimerAlone, InReach
  <1>8. FrameFresh' /\ DeliveredOnce'
    BY <1>2, <1>5 DEF StreamInv, FrameFresh, DeliveredOnce
  <1> QED
    BY <1>6, <1>7, <1>8 DEF StreamInv

LEMMA WedgeKeeps ==
  ASSUME StreamInv, NEW c \in Conns, Wedge(c)
  PROVE  StreamInv'
  <1>1. conn \in [Conns -> Conn] /\ conn[c] \in Conn
    BY DEF StreamInv, Types
  <1> DEFINE r == [conn[c] EXCEPT !.wedged = TRUE, !.frame = Nil]
  <1>2. conn' = [conn EXCEPT ![c] = r]
    BY <1>1 DEF Wedge
  <1>3. r \in Conn /\ r.phase = conn[c].phase /\ r.aborted = conn[c].aborted /\ r.frame = Nil
    BY <1>1 DEF Conn
  <1> HIDE DEF r
  <1>4. /\ conn' \in [Conns -> Conn]
        /\ \A d \in Conns : conn'[d].frame = Nil \/ conn'[d].frame = conn[d].frame
        /\ \A d \in Conns : conn'[d].phase = conn[d].phase
        /\ \A d \in Conns : conn[d].aborted => conn'[d].aborted
    BY <1>1, <1>2, <1>3
  <1>5. UNCHANGED <<subscribers, controller, reconnectTimer, received>>
    BY DEF Wedge, streamVars
  <1>6. Types' /\ DeliveredOnce'
    BY <1>4, <1>5 DEF StreamInv, Types, DeliveredOnce
  <1>7. OneConnection' /\ TimerAlone' /\ InReach' /\ FrameFresh'
    BY <1>4, <1>5 DEF StreamInv, OneConnection, TimerAlone, InReach, FrameFresh
  <1> QED
    BY <1>6, <1>7 DEF StreamInv

LEMMA ReconnectKeeps == ASSUME StreamInv, ReconnectFires PROVE StreamInv'
  <1>1. CASE subscribers = {}
    BY <1>1
    DEF ReconnectFires, StreamInv, Types, OneConnection, InReach, TimerAlone,
        FrameFresh, DeliveredOnce
  <1>2. CASE subscribers # {}
    <2>1. Connect /\ \A c \in Conns : conn[c].phase = "none"
      BY <1>2 DEF ReconnectFires, StreamInv, TimerAlone
    <2>2. UNCHANGED <<subscribers, received>>
      BY DEF ReconnectFires
    <2> QED
      BY <1>2, <2>1, <2>2, ConnectAlone DEF StreamInv, Types, DeliveredOnce
  <1> QED
    BY <1>1, <1>2

\* A step that leaves what the invariant reads.
LEMMA StillKeeps ==
  ASSUME StreamInv, UNCHANGED <<subscribers, conn, controller, received>>,
         reconnectTimer' = "set" => reconnectTimer = "set"
  PROVE  StreamInv'
  BY DEF StreamInv, Types, OneConnection, InReach, TimerAlone, FrameFresh, DeliveredOnce

LEMMA WatchdogKeeps == ASSUME StreamInv, WatchdogFires PROVE StreamInv'
  <1>1. UNCHANGED <<subscribers, controller, received, reconnectTimer>>
    BY DEF WatchdogFires
  <1>2. CASE ~reading \/ controller = Nil \/ conn[controller].phase \in {"none", "unread"}
    BY <1>1, <1>2, StillKeeps DEF WatchdogFires
  <1>3. CASE ~(~reading \/ controller = Nil \/ conn[controller].phase \in {"none", "unread"})
    <2>1. controller \in Conns
      BY <1>3 DEF StreamInv, Types
    <2> QED
      BY <1>1, <1>3, <2>1, Aborts DEF WatchdogFires, StreamInv, Types
  <1> QED
    BY <1>2, <1>3

LEMMA NextStream ==
  ASSUME Overlap = FALSE
  PROVE  StreamInv /\ [Next]_vars => StreamInv'
  <1> SUFFICES ASSUME StreamInv, [Next]_vars PROVE StreamInv'
    OBVIOUS
  <1>1. ASSUME NEW s \in Subscribers, Subscribe(s) \/ Unsubscribe(s) PROVE StreamInv'
    BY <1>1, SubscribeKeeps, UnsubscribeKeeps
  <1>2. ASSUME NEW c \in Conns, OpenFailed(c) \/ Ended(c) PROVE StreamInv'
    BY <1>2, Gone DEF OpenFailed, Ended
  <1>3. ASSUME NEW c \in Conns, Opened(c) \/ Deliver(c) \/ Wedge(c) PROVE StreamInv'
    BY <1>3, OpenedKeeps, DeliverKeeps, WedgeKeeps
  <1>4. CASE Silence
    BY <1>4, StillKeeps DEF Silence
  <1>5. CASE UNCHANGED vars
    BY <1>5, StillKeeps DEF vars, streamVars
  <1> QED
    BY <1>1, <1>2, <1>3, <1>4, <1>5, ReconnectKeeps, WatchdogKeeps, EmitKeeps DEF Next

LEMMA StreamInvariant == ASSUME Overlap = FALSE PROVE Spec => []StreamInv
  BY InitStream, NextStream, PTL DEF Spec

\* Without a subscriber no connection to opencode is open, but for one whose
\* abort is on its way (subscribe and stop of
\* agent/opencode-event-stream.ts:117-156): for any sessions and watchers, and
\* whatever breaks, reconnects or falls silent in between.
THEOREM IdleMeansClosed == ASSUME Overlap = FALSE PROVE Spec => []NoIdleSocket
  <1>1. StreamInv => NoIdleSocket
    BY DEF StreamInv, InReach, NoIdleSocket
  <1> QED
    BY <1>1, StreamInvariant, PTL

\* No subscriber is handed an event of opencode twice (deliver of
\* agent/opencode-event-stream.ts:235-262), however often the stream was reopened.
THEOREM EventOnce == ASSUME Overlap = FALSE PROVE Spec => []DeliveredOnce
  <1>1. StreamInv => DeliveredOnce
    BY DEF StreamInv
  <1> QED
    BY <1>1, StreamInvariant, PTL

-----------------------------------------------------------------------------
(* A phone's subscription (Opencode)                                       *)

\* The bounds are numbers, and there is room for the histories.
LEMMA OpencodeBounds ==
  /\ MaxRows \in Nat /\ MaxRows >= 3 /\ MaxSize \in Nat /\ MaxSize >= 1
  /\ MaxReads \in Nat /\ MaxReads >= 1
  /\ MaxChanges \in Nat /\ MaxFailures \in Nat /\ RowLimit \in Nat /\ Legacy \in Nat
  BY OpencodeAssumption

Results == [shown : [Ids -> Sent], running : {"yes", "no"}, questions : SUBSET Ids]

LEMMA RowTypes ==
  /\ User \in Row
  /\ \A end \in {"open", "tools", "settled"} :
        Reply(1, end) \in Row /\ Reply(0, end) \in Row
  BY OpencodeBounds DEF User, Reply, Row

\* What a read makes of a store that fits the bounds has the type of a result.
LEMMA ResultType ==
  ASSUME NEW store \in Seq(Row), Len(store) <= MaxRows
  PROVE  Result(store) \in Results
  <1> USE OpencodeBounds
  <1>1. Len(store) \in Nat /\ DOMAIN store = 1 .. Len(store)
    OBVIOUS
  <1>2. DOMAIN store \subseteq Ids
    BY <1>1 DEF Ids
  <1>3. Messages(store) \subseteq DOMAIN store
    BY DEF Messages, States, Listed
  <1>4. ASSUME NEW id \in Messages(store) PROVE Transcript(store)[id] \in Sent
    <2>1. store[id] \in Row
      BY <1>3, <1>4
    <2>2. store[id].size \in 0 .. MaxSize
      BY <2>1 DEF Row
    <2> DEFINE state == CHOOSE s \in States(store) :
                            Place(s, States(store)) = Place(id, Messages(store))
               flag == store[id].role = "user" /\ PendingFlag(store, state)
    <2>3. Transcript(store)[id] = [size |-> store[id].size, pending |-> flag]
      BY DEF Transcript
    <2>4. flag \in BOOLEAN
      BY DEF PendingFlag
    <2> HIDE DEF flag
    <2> QED
      BY <2>2, <2>3, <2>4 DEF Sent
  <1>5. Unsent \in Sent
    BY DEF Unsent, Sent
  <1>6. DOMAIN Transcript(store) = Messages(store)
    BY DEF Transcript
  <1> DEFINE shown == [id \in Ids |-> IF id \in DOMAIN Transcript(store)
                                      THEN Transcript(store)[id] ELSE Unsent]
  <1>7. shown \in [Ids -> Sent]
    BY <1>4, <1>5, <1>6
  <1>8. Questions(store) \in SUBSET Ids
    BY <1>2 DEF Questions, Listed
  <1> DEFINE running == IF IsTurnRunning(store, States(store)) THEN "yes" ELSE "no"
  <1>9. running \in {"yes", "no"}
    OBVIOUS
  <1>10. Result(store) = [shown |-> shown, running |-> running, questions |-> Questions(store)]
    BY DEF Result
  <1> HIDE DEF shown, running
  <1> QED
    BY <1>7, <1>8, <1>9, <1>10 DEF Results

LEMMA NoReadType == NoRead \in TranscriptRead
  <1>1. <<>> \in Seq(Row) /\ Len(<<>>) <= MaxRows
    BY OpencodeBounds
  <1>2. Result(<<>>) \in Results
    BY <1>1, ResultType
  <1> QED
    BY <1>2 DEF NoRead, TranscriptRead, Results

\* A history fits the bounds.
LEMMA HistoryType ==
  ASSUME NEW h \in Histories
  PROVE  h \in Seq(Row) /\ Len(h) <= MaxRows
  <1>1. \A a, b, c \in Row :
            /\ <<a>> \in Seq(Row) /\ <<a, b>> \in Seq(Row) /\ <<a, b, c>> \in Seq(Row)
            /\ Len(<<a>>) = 1 /\ Len(<<a, b>>) = 2 /\ Len(<<a, b, c>>) = 3
    OBVIOUS
  <1>2. <<>> \in Seq(Row) /\ Len(<<>>) = 0
    OBVIOUS
  <1>3. User \in Row /\ Reply(1, "open") \in Row /\ Reply(1, "settled") \in Row
        /\ Reply(1, "tools") \in Row
    BY RowTypes
  <1>4. h \in Seq(Row) /\ (Len(h) = 0 \/ Len(h) = 1 \/ Len(h) = 2 \/ Len(h) = 3)
    BY <1>1, <1>2, <1>3, Zenon DEF Histories
  <1>5. 0 <= MaxRows /\ 1 <= MaxRows /\ 2 <= MaxRows /\ 3 <= MaxRows
    BY OpencodeBounds
  <1> QED
    BY <1>4, <1>5

LEMMA OpencodeInitTypes == OpencodeInit => OpencodeTypeOK
  <1> SUFFICES ASSUME OpencodeInit PROVE OpencodeTypeOK
    OBVIOUS
  <1> USE OpencodeBounds
  <1>1. rows \in Seq(Row) /\ Len(rows) <= MaxRows
    BY HistoryType DEF OpencodeInit
  <1>2. since \in 0 .. MaxRows
    BY <1>1 DEF OpencodeInit
  <1>3. Unsent \in Sent
    BY DEF Unsent, Sent
  <1>4. page \in [Ids -> Sent]
    <2>1. Result(rows).shown \in [Ids -> Sent]
      BY <1>1, ResultType DEF Results
    <2> QED
      BY <1>3, <2>1 DEF OpencodeInit
  <1>5. reads \in [1 .. MaxReads -> TranscriptRead]
    <2>1. [NoRead EXCEPT !.stage = "asked"] \in TranscriptRead
      BY NoReadType DEF TranscriptRead
    <2> QED
      BY <2>1, NoReadType DEF OpencodeInit
  <1>6. /\ sent \in [Ids -> Sent] /\ lookups \in [Ids -> Nat] /\ asked \in [Ids -> Nat]
        /\ seen \subseteq Ids
    BY <1>3 DEF OpencodeInit
  <1>7. changes \in 0 .. MaxChanges /\ failures \in 0 .. MaxFailures
    BY DEF OpencodeInit
  <1> QED
    BY <1>1, <1>2, <1>4, <1>5, <1>6, <1>7 DEF OpencodeInit, OpencodeTypeOK

\* A read begins, or nothing does.
LEMMA StartReadTypes ==
  ASSUME OpencodeTypeOK, StartRead
  PROVE  reads' \in [1 .. MaxReads -> TranscriptRead] /\ failures' \in 0 .. MaxFailures
  <1> USE OpencodeBounds
  <1>1. CASE ~subscribed
    BY <1>1 DEF StartRead, OpencodeTypeOK
  <1>2. CASE subscribed
    <2>1. PICK r \in FirstFree, db \in BOOLEAN :
            /\ db \/ failures < MaxFailures
            /\ reads' = [reads EXCEPT ![r] = [NoRead EXCEPT !.stage = "asked", !.db = db]]
            /\ failures' = IF db THEN failures ELSE failures + 1
      BY <1>2 DEF StartRead
    <2>2. [NoRead EXCEPT !.stage = "asked", !.db = db] \in TranscriptRead
      BY NoReadType DEF TranscriptRead
    <2>3. failures' \in 0 .. MaxFailures
      BY <2>1 DEF OpencodeTypeOK
    <2> QED
      BY <2>1, <2>2, <2>3 DEF OpencodeTypeOK
  <1> QED
    BY <1>1, <1>2

LEMMA ReadEndsType ==
  ASSUME OpencodeTypeOK, NEW r, reads' = [reads EXCEPT ![r] = NoRead]
  PROVE  reads' \in [1 .. MaxReads -> TranscriptRead]
  BY NoReadType DEF OpencodeTypeOK

\* The store changes: so do rows, changes and fetchTimer only.
LEMMA ChangesTypes ==
  ASSUME OpencodeTypeOK, NEW store \in Seq(Row), Len(store) <= MaxRows, Changes(store)
  PROVE  OpencodeTypeOK'
  <1>1. changes' \in 0 .. MaxChanges
    BY OpencodeBounds DEF Changes, OpencodeTypeOK
  <1>2. fetchTimer' \in BOOLEAN
    BY DEF Changes, OpencodeTypeOK
  <1> QED
    BY <1>1, <1>2 DEF Changes, OpencodeTypeOK, phoneVars

LEMMA AppliedTypes ==
  ASSUME OpencodeTypeOK, NEW r \in 1 .. MaxReads, Applied(r)
  PROVE  OpencodeTypeOK'
  <1>1. reads' \in [1 .. MaxReads -> TranscriptRead]
    BY ReadEndsType DEF Applied
  <1>2. CASE ~subscribed
    BY <1>1, <1>2 DEF Applied, OpencodeTypeOK, storeVars, phoneVars
  <1>3. CASE subscribed
    <2> DEFINE result == reads[r].result
    <2>1. result \in Results
      BY DEF OpencodeTypeOK, TranscriptRead, Results
    <2>2. /\ sent' = [id \in Ids |-> IF Skipped(reads[r], id) \/ result.shown[id] = Unsent
                                     THEN sent[id] ELSE result.shown[id]]
          /\ wasRunning' = result.running
          /\ status' = StatusAfter(result.running)
          /\ seen' = seen \cup Unseen(result)
          /\ lookups' = [id \in Ids |-> IF id \in Unseen(result)
                                         THEN lookups[id] + 1 ELSE lookups[id]]
      BY <1>3 DEF Applied
    <2> HIDE DEF result
    <2>3. result.shown \in [Ids -> Sent] /\ result.running \in {"yes", "no"}
          /\ result.questions \subseteq Ids
      BY <2>1 DEF Results
    <2>4. sent' \in [Ids -> Sent]
      BY <2>2, <2>3 DEF OpencodeTypeOK
    <2>5. lookups' \in [Ids -> Nat]
      BY <2>2 DEF OpencodeTypeOK
    <2>6. seen' \subseteq Ids
      BY <2>2, <2>3 DEF OpencodeTypeOK, Unseen
    <2>7. /\ wasRunning' \in {"unknown", "yes", "no"}
          /\ status' \in {"none", "turn_start", "turn_end", "error"}
          /\ wasRunning' = "yes" <=> status' = "turn_start"
      <3>1. CASE result.running = wasRunning
        BY <2>2, <2>3, <3>1 DEF OpencodeTypeOK, StatusAfter
      <3>2. CASE result.running # wasRunning /\ result.running = "yes"
        BY <2>2, <2>3, <3>2 DEF OpencodeTypeOK, StatusAfter
      <3>3. CASE result.running # wasRunning /\ result.running = "no"
        BY <2>2, <2>3, <3>3 DEF OpencodeTypeOK, StatusAfter
      <3> QED
        BY <2>3, <3>1, <3>2, <3>3
    <2>8. UNCHANGED <<rows, changes, failures, subscribed, since, page, fetchTimer, streamUp,
                      asked>>
      BY DEF Applied, storeVars, phoneVars
    <2> QED
      BY <1>1, <2>4, <2>5, <2>6, <2>7, <2>8 DEF OpencodeTypeOK
  <1> QED
    BY <1>2, <1>3

LEMMA OpencodeStepTypes == OpencodeTypeOK /\ [OpencodeNext]_opencodeVars => OpencodeTypeOK'
  <1> SUFFICES ASSUME OpencodeTypeOK, [OpencodeNext]_opencodeVars PROVE OpencodeTypeOK'
    OBVIOUS
  <1> USE OpencodeBounds
  <1>1. CASE Poll
    BY <1>1, StartReadTypes DEF Poll, OpencodeTypeOK, phoneVars
  <1>2. CASE FetchFires
    BY <1>2, StartReadTypes DEF FetchFires, OpencodeTypeOK, phoneVars
  <1>3. CASE ConnectionChanges
    <2>1. reads' \in [1 .. MaxReads -> TranscriptRead] /\ failures' \in 0 .. MaxFailures
      <3>1. CASE streamUp'
        BY <1>3, <3>1, StartReadTypes DEF ConnectionChanges
      <3>2. CASE ~streamUp'
        BY <1>3, <3>2 DEF ConnectionChanges, OpencodeTypeOK
      <3> QED
        BY <3>1, <3>2
    <2>2. streamUp' \in BOOLEAN
      BY <1>3 DEF ConnectionChanges
    <2> QED
      BY <1>3, <2>1, <2>2 DEF ConnectionChanges, OpencodeTypeOK, phoneVars
  <1>4. CASE Stopped
    BY <1>4 DEF Stopped, OpencodeTypeOK, storeVars, phoneVars
  <1>5. ASSUME NEW r \in 1 .. MaxReads, Answered(r) PROVE OpencodeTypeOK'
    <2>1. reads[r] \in TranscriptRead
      BY DEF OpencodeTypeOK
    <2>2. Result(rows) \in Results
      BY ResultType DEF OpencodeTypeOK
    <2>3. reads' \in [1 .. MaxReads -> TranscriptRead] /\ failures' \in 0 .. MaxFailures
      <3>1. CASE /\ reads' = [reads EXCEPT ![r].stage = "answered", ![r].result = Result(rows)]
                 /\ UNCHANGED failures
        <4>1. [reads[r] EXCEPT !.stage = "answered", !.result = Result(rows)] \in TranscriptRead
          BY <2>1, <2>2 DEF TranscriptRead, Results
        <4>2. reads' = [reads EXCEPT ![r] = [reads[r] EXCEPT !.stage = "answered",
                                                             !.result = Result(rows)]]
          BY <3>1
        <4> QED
          BY <3>1, <4>1, <4>2 DEF OpencodeTypeOK
      <3>2. CASE /\ failures < MaxFailures /\ failures' = failures + 1
                 /\ reads' = [reads EXCEPT ![r].stage = "answered"]
        <4>1. [reads[r] EXCEPT !.stage = "answered"] \in TranscriptRead
          BY <2>1 DEF TranscriptRead
        <4>2. reads' = [reads EXCEPT ![r] = [reads[r] EXCEPT !.stage = "answered"]]
          BY <3>2
        <4>3. failures' \in 0 .. MaxFailures
          BY <3>2 DEF OpencodeTypeOK
        <4> QED
          BY <4>1, <4>2, <4>3 DEF OpencodeTypeOK
      <3> QED
        BY <1>5, <3>1, <3>2 DEF Answered
    <2> QED
      BY <1>5, <2>3 DEF Answered, OpencodeTypeOK, phoneVars
  <1>6. ASSUME NEW r \in 1 .. MaxReads, Applied(r) PROVE OpencodeTypeOK'
    BY <1>6, AppliedTypes
  <1>7. ASSUME NEW r \in 1 .. MaxReads, ReadThrows(r) PROVE OpencodeTypeOK'
    <2>1. reads' \in [1 .. MaxReads -> TranscriptRead]
      BY <1>7, ReadEndsType DEF ReadThrows
    <2>2. failures' \in 0 .. MaxFailures
      BY <1>7 DEF ReadThrows, OpencodeTypeOK
    <2>3. UNCHANGED <<rows, changes, subscribed, since, page, sent, fetchTimer, streamUp, seen,
                      lookups, asked>>
      BY <1>7 DEF ReadThrows, phoneVars
    <2>4. /\ wasRunning' \in {"unknown", "yes", "no"}
          /\ status' \in {"none", "turn_start", "turn_end", "error"}
          /\ wasRunning' = "yes" <=> status' = "turn_start"
      BY <1>7 DEF ReadThrows, OpencodeTypeOK
    <2> QED
      BY <2>1, <2>2, <2>3, <2>4 DEF OpencodeTypeOK
  <1>8. ASSUME NEW id \in Ids, LookupEnds(id) PROVE OpencodeTypeOK'
    <2>1. lookups' \in [Ids -> Nat] /\ asked' \in [Ids -> Nat]
      BY <1>8 DEF LookupEnds, OpencodeTypeOK
    <2> QED
      BY <1>8, <2>1 DEF LookupEnds, OpencodeTypeOK, storeVars, phoneVars
  <1>9. CASE Prompted
    <2>1. Append(rows, User) \in Seq(Row) /\ Len(Append(rows, User)) <= MaxRows
      BY <1>9, RowTypes DEF Prompted, OpencodeTypeOK
    <2> QED
      BY <1>9, <2>1, ChangesTypes DEF Prompted
  <1>10. CASE ReplyStarts
    <2> DEFINE store == Append(rows, Reply(IF EmptyRows THEN 0 ELSE 1, "open"))
    <2>1. Reply(IF EmptyRows THEN 0 ELSE 1, "open") \in Row
      BY RowTypes
    <2>2. store \in Seq(Row) /\ Len(store) <= MaxRows
      BY <1>10, <2>1 DEF ReplyStarts, OpencodeTypeOK
    <2> QED
      BY <1>10, <2>2, ChangesTypes DEF ReplyStarts
  <1>11. CASE ReplyGrows
    <2>1. PICK i \in OpenReply : /\ rows[i].size < MaxSize
                                 /\ Changes([rows EXCEPT ![i].size = @ + 1])
      BY <1>11 DEF ReplyGrows
    <2>2. i \in 1 .. Len(rows) /\ rows[i] \in Row
      BY DEF OpenReply, OpencodeTypeOK
    <2>3. [rows[i] EXCEPT !.size = @ + 1] \in Row
      <3>1. rows[i].size \in 0 .. MaxSize /\ rows[i].size < MaxSize
        BY <2>1, <2>2 DEF Row
      <3>2. rows[i].size + 1 \in 0 .. MaxSize
        BY <3>1
      <3> QED
        BY <2>2, <3>2 DEF Row
    <2>4. [rows EXCEPT ![i].size = @ + 1] = [rows EXCEPT ![i] = [rows[i] EXCEPT !.size = @ + 1]]
      OBVIOUS
    <2>5. /\ [rows EXCEPT ![i].size = @ + 1] \in Seq(Row)
          /\ Len([rows EXCEPT ![i].size = @ + 1]) <= MaxRows
      BY <2>2, <2>3, <2>4 DEF OpencodeTypeOK
    <2> QED
      BY <2>1, <2>5, ChangesTypes
  <1>12. CASE ReplyEnds
    <2>1. PICK i \in OpenReply, end \in {"tools", "settled"} :
              Changes([rows EXCEPT ![i].end = end])
      BY <1>12 DEF ReplyEnds
    <2>2. i \in 1 .. Len(rows) /\ rows[i] \in Row
      BY DEF OpenReply, OpencodeTypeOK
    <2>3. [rows[i] EXCEPT !.end = end] \in Row
      BY <2>1, <2>2 DEF Row
    <2>4. [rows EXCEPT ![i].end = end] = [rows EXCEPT ![i] = [rows[i] EXCEPT !.end = end]]
      OBVIOUS
    <2>5. /\ [rows EXCEPT ![i].end = end] \in Seq(Row)
          /\ Len([rows EXCEPT ![i].end = end]) <= MaxRows
      BY <2>2, <2>3, <2>4 DEF OpencodeTypeOK
    <2> QED
      BY <2>1, <2>5, ChangesTypes
  <1>13. CASE UNCHANGED opencodeVars
    BY <1>13 DEF opencodeVars, OpencodeTypeOK, storeVars, phoneVars
  <1> QED
    BY <1>1, <1>2, <1>3, <1>4, <1>5, <1>6, <1>7, <1>8, <1>9, <1>10, <1>11, <1>12, <1>13
    DEF OpencodeNext

\* The variables of a subscription keep their types, and the phone's spinner is
\* on exactly while the adapter takes a turn to be running
\* (opencode-adapter.ts:125-149): whichever reads fail and in whatever order
\* they are applied.
THEOREM OpencodeTypeCorrect == OpencodeSpec => []OpencodeTypeOK
  BY OpencodeInitTypes, OpencodeStepTypes, PTL DEF OpencodeSpec

\* Every question the phone was asked, or is about to be, has been seen, and
\* was looked up once.
LookedUpOnce ==
    /\ lookups \in [Ids -> Nat] /\ asked \in [Ids -> Nat]
    /\ \A id \in Ids : lookups[id] + asked[id] <= (IF id \in seen THEN 1 ELSE 0)

LEMMA LookedUpOnceInit == OpencodeInit => LookedUpOnce
  BY DEF OpencodeInit, LookedUpOnce

LEMMA LookedUpOnceStep == LookedUpOnce /\ [OpencodeNext]_opencodeVars => LookedUpOnce'
  <1> SUFFICES ASSUME LookedUpOnce, [OpencodeNext]_opencodeVars PROVE LookedUpOnce'
    OBVIOUS
  <1>1. ASSUME UNCHANGED <<seen, lookups, asked>> PROVE LookedUpOnce'
    BY <1>1 DEF LookedUpOnce
  <1>2. ASSUME NEW r \in 1 .. MaxReads, Applied(r) PROVE LookedUpOnce'
    <2>1. UNCHANGED asked
      BY <1>2 DEF Applied
    <2>2. CASE ~subscribed
      BY <1>1, <1>2, <2>1, <2>2 DEF Applied
    <2>3. CASE subscribed
      <3> DEFINE new == Unseen(reads[r].result)
      <3>1. /\ seen' = seen \cup new
            /\ lookups' = [id \in Ids |-> IF id \in new THEN lookups[id] + 1 ELSE lookups[id]]
        BY <1>2, <2>3 DEF Applied
      <3>2. new \cap seen = {}
        BY DEF Unseen
      <3> HIDE DEF new
      <3>3. ASSUME NEW id \in Ids
            PROVE  /\ lookups'[id] \in Nat /\ asked'[id] \in Nat
                   /\ lookups'[id] + asked'[id] <= (IF id \in seen' THEN 1 ELSE 0)
        <4>1. /\ lookups[id] \in Nat /\ asked[id] \in Nat
              /\ lookups[id] + asked[id] <= (IF id \in seen THEN 1 ELSE 0)
          BY DEF LookedUpOnce
        <4>2. CASE id \in new
          <5>1. id \notin seen /\ id \in seen' /\ lookups'[id] = lookups[id] + 1
            BY <3>1, <3>2, <4>2
          <5> QED
            BY <2>1, <4>1, <5>1
        <4>3. CASE id \notin new
          <5>1. (id \in seen' <=> id \in seen) /\ lookups'[id] = lookups[id]
            BY <3>1, <4>3
          <5> QED
            BY <2>1, <4>1, <5>1
        <4> QED
          BY <4>2, <4>3
      <3>4. lookups' \in [Ids -> Nat]
        BY <3>1, <3>3
      <3> QED
        BY <2>1, <3>3, <3>4 DEF LookedUpOnce
    <2> QED
      BY <2>2, <2>3
  <1>3. ASSUME NEW id \in Ids, LookupEnds(id) PROVE LookedUpOnce'
    <2>1. /\ lookups[id] \in Nat /\ lookups[id] > 0 /\ asked[id] \in Nat
          /\ lookups' = [lookups EXCEPT ![id] = @ - 1]
          /\ asked' = [asked EXCEPT ![id] = @ + 1] \/ UNCHANGED asked
          /\ UNCHANGED seen
      BY <1>3 DEF LookupEnds, LookedUpOnce
    <2>2. lookups' \in [Ids -> Nat] /\ asked' \in [Ids -> Nat]
      BY <2>1 DEF LookedUpOnce
    <2>3. ASSUME NEW i \in Ids
          PROVE  lookups'[i] + asked'[i] <= lookups[i] + asked[i]
      <3>1. lookups[i] \in Nat /\ asked[i] \in Nat
        BY DEF LookedUpOnce
      <3>2. CASE i = id
        <4>1. lookups'[i] = lookups[i] - 1
              /\ (asked'[i] = asked[i] + 1 \/ asked'[i] = asked[i])
          BY <2>1, <3>2 DEF LookedUpOnce
        <4> QED
          BY <3>1, <4>1
      <3>3. CASE i # id
        <4>1. lookups'[i] = lookups[i] /\ asked'[i] = asked[i]
          BY <2>1, <3>3 DEF LookedUpOnce
        <4> QED
          BY <3>1, <4>1
      <3> QED
        BY <3>2, <3>3
    <2>4. ASSUME NEW i \in Ids
          PROVE  lookups'[i] + asked'[i] <= (IF i \in seen' THEN 1 ELSE 0)
      <3>1. lookups[i] + asked[i] <= (IF i \in seen THEN 1 ELSE 0)
        BY DEF LookedUpOnce
      <3>2. /\ lookups[i] \in Nat /\ asked[i] \in Nat
            /\ lookups'[i] \in Nat /\ asked'[i] \in Nat
        BY <2>2 DEF LookedUpOnce
      <3> QED
        BY <2>1, <2>3, <3>1, <3>2
    <2> QED
      BY <2>2, <2>4 DEF LookedUpOnce
  <1>4. CASE \/ Poll \/ FetchFires \/ ConnectionChanges \/ Stopped
             \/ \E r \in 1 .. MaxReads : Answered(r) \/ ReadThrows(r)
    BY <1>1, <1>4 DEF Poll, FetchFires, ConnectionChanges, Stopped, Answered, ReadThrows
  <1>5. CASE Prompted \/ ReplyStarts \/ ReplyGrows \/ ReplyEnds
    BY <1>1, <1>5 DEF Prompted, ReplyStarts, ReplyGrows, ReplyEnds, Changes
  <1>6. CASE UNCHANGED opencodeVars
    BY <1>1, <1>6 DEF opencodeVars
  <1> QED
    BY <1>2, <1>3, <1>4, <1>5, <1>6 DEF OpencodeNext

\* Reads that overlap do not ask the phone a question twice, though its details
\* are looked up asynchronously and any lookup may fail
\* (opencode-adapter.ts:335-363).
THEOREM QuestionsAskedOnce == OpencodeSpec => []AskedOnce
  <1>1. ASSUME LookedUpOnce PROVE AskedOnce
    <2> SUFFICES ASSUME NEW id \in Ids PROVE asked[id] <= 1
      BY DEF AskedOnce
    <2>1. /\ lookups[id] \in Nat /\ asked[id] \in Nat
          /\ lookups[id] + asked[id] <= (IF id \in seen THEN 1 ELSE 0)
      BY <1>1 DEF LookedUpOnce
    <2> QED
      BY <2>1
  <1> QED
    BY <1>1, LookedUpOnceInit, LookedUpOnceStep, PTL DEF OpencodeSpec

\* Places in a set of rows tell its members apart.
LEMMA PlacesDiffer ==
  ASSUME NEW n \in Nat, NEW S \in SUBSET (1 .. n), NEW i \in S, NEW s \in S,
         Place(s, S) = Place(i, S)
  PROVE  s = i
  <1> DEFINE UpTo(k) == {j \in S : j <= k}
  <1>1. S \in SUBSET Nat /\ i \in Nat /\ s \in Nat
    OBVIOUS
  <1>2. IsFiniteSet(S)
    <2>1. IsFiniteSet(1 .. n)
      BY FS_Interval
    <2> QED
      BY <2>1, FS_Subset
  <1>3. ASSUME NEW k PROVE IsFiniteSet(UpTo(k))
    BY <1>2, FS_Subset
  <1>4. ASSUME NEW a \in S, NEW b \in S, a < b, Place(a, S) = Place(b, S) PROVE FALSE
    <2>1. a \in Nat /\ b \in Nat
      BY <1>1
    <2>2. \A j \in S : j \in Nat
      BY <1>1
    <2>3. UpTo(a) \in SUBSET UpTo(b)
      <3>1. \A j \in S : j <= a => j <= b
        BY <1>4, <2>1, <2>2
      <3> QED
        BY <3>1
    <2>4. Cardinality(UpTo(a)) = Cardinality(UpTo(b))
      BY <1>4 DEF Place
    <2>5. UpTo(a) = UpTo(b)
      BY <1>3, <2>3, <2>4, FS_Subset
    <2>6. b \in UpTo(b)
      BY <2>1
    <2>7. b \notin UpTo(a)
      BY <1>4, <2>1
    <2> QED
      BY <2>5, <2>6, <2>7
  <1>5. ~(s < i) /\ ~(i < s)
    BY <1>4
  <1> QED
    BY <1>1, <1>5

\* Rows without blocks, if there are any, come last.
EmptyRowsLast(store) ==
    \A i, j \in DOMAIN store : i < j /\ HasBlocks(store[j]) => HasBlocks(store[i])

\* Each message of such a store gets the flag of its own row.
LEMMA FlagsInStep ==
  ASSUME NEW store \in Seq(Row), EmptyRowsLast(store), NEW i \in Messages(store)
  PROVE  Transcript(store)[i].pending <=> PendingFlag(store, i)
  <1> DEFINE S == States(store)
             M == Messages(store)
             state == CHOOSE s \in S : Place(s, S) = Place(i, M)
  <1>1. Len(store) \in Nat /\ DOMAIN store = 1 .. Len(store)
    OBVIOUS
  <1>2. S \in SUBSET (1 .. Len(store)) /\ i \in S /\ HasBlocks(store[i])
    BY <1>1 DEF States, Messages, Listed
  <1>3. {j \in S : j <= i} = {j \in M : j <= i}
    <2>1. ASSUME NEW j \in S, j <= i PROVE j \in M
      <3>1. j = i \/ j < i
        BY <1>1, <1>2, <2>1
      <3>2. HasBlocks(store[j])
        BY <1>1, <1>2, <3>1 DEF EmptyRowsLast
      <3> QED
        BY <3>2 DEF Messages
    <2> QED
      BY <2>1 DEF Messages
  <1>4. Place(i, S) = Place(i, M)
    BY <1>3 DEF Place
  <1>5. state \in S /\ Place(state, S) = Place(i, S)
    BY <1>2, <1>4
  <1> HIDE DEF state
  <1>6. state = i
    BY <1>1, <1>2, <1>5, PlacesDiffer
  <1>7. Transcript(store)[i].pending = (store[i].role = "user" /\ PendingFlag(store, state))
    BY DEF Transcript, state
  <1> QED
    BY <1>6, <1>7 DEF PendingFlag

\* In such a store, if one answer can hold it, the flags tell what is unanswered.
LEMMA PendingWhenInStep ==
  ASSUME OpencodeTypeOK, Len(rows) <= RowLimit, EmptyRowsLast(rows)
  PROVE  PendingIsUnanswered
  <1>1. rows \in Seq(Row) /\ Len(rows) \in Nat /\ DOMAIN rows = 1 .. Len(rows)
    BY DEF OpencodeTypeOK
  <1>2. \A k \in 1 .. Len(rows) : Settled(rows[k]) <=> Answers(rows[k]) /\ k \in States(rows)
    BY <1>1, OpencodeBounds DEF Settled, Answers, States, Listed
  <1>3. ASSUME NEW i \in Messages(rows) PROVE PendingFlag(rows, i) <=> Unanswered(i)
    <2>1. i \in 1 .. Len(rows)
      BY <1>1 DEF Messages, States, Listed
    <2>2. \A k : (k \in States(rows) /\ k > i) => k \in i + 1 .. Len(rows)
      BY <1>1, <2>1 DEF States, Listed
    <2>3. \A k \in i + 1 .. Len(rows) : k \in 1 .. Len(rows) /\ k > i
      BY <1>1, <2>1
    <2> QED
      BY <1>2, <2>2, <2>3 DEF PendingFlag, Unanswered
  <1> QED
    BY <1>1, <1>3, FlagsInStep DEF PendingIsUnanswered

\* What the client marks as pending is what is unanswered, as long as one answer
\* can hold the store and no reply without blocks has a message behind it:
\* opencode-client.ts:206 gives the n-th message the flag of the n-th state.
THEOREM PendingMarksTrue ==
  OpencodeSpec => [](Len(rows) <= RowLimit /\ EmptyRowsLast(rows) => PendingIsUnanswered)
  <1>1. OpencodeTypeOK => (Len(rows) <= RowLimit /\ EmptyRowsLast(rows) => PendingIsUnanswered)
    BY PendingWhenInStep
  <1> QED
    BY <1>1, OpencodeTypeCorrect, PTL

\* Every row has something to show.
NoRowEmpty == \A i \in DOMAIN rows : HasBlocks(rows[i])

\* When replies appear with their first block, no row is ever empty.
LEMMA NoRowEmptyStep ==
  ASSUME ~EmptyRows, OpencodeTypeOK, NoRowEmpty, [OpencodeNext]_opencodeVars
  PROVE  NoRowEmpty'
  <1>1. rows \in Seq(Row) /\ DOMAIN rows = 1 .. Len(rows) /\ Len(rows) \in Nat
    BY DEF OpencodeTypeOK
  <1>2. ASSUME UNCHANGED rows PROVE NoRowEmpty'
    BY <1>2 DEF NoRowEmpty
  <1>3. ASSUME NEW row, row.size = 1, rows' = Append(rows, row) PROVE NoRowEmpty'
    <2>1. /\ DOMAIN rows' = 1 .. Len(rows) + 1
          /\ \A i \in 1 .. Len(rows) : rows'[i] = rows[i]
          /\ rows'[Len(rows) + 1] = row
      BY <1>1, <1>3
    <2>2. \A i \in 1 .. Len(rows) + 1 : i \in 1 .. Len(rows) \/ i = Len(rows) + 1
      BY <1>1
    <2> QED
      BY <1>1, <1>3, <2>1, <2>2 DEF NoRowEmpty, HasBlocks
  <1>4. CASE Prompted
    BY <1>3, <1>4 DEF Prompted, Changes, User
  <1>5. CASE ReplyStarts
    BY <1>3, <1>5 DEF ReplyStarts, Changes, Reply
  <1>6. CASE ReplyGrows
    <2>1. PICK i \in DOMAIN rows : rows' = [rows EXCEPT ![i].size = @ + 1]
      BY <1>6 DEF ReplyGrows, Changes, OpenReply
    <2>2. rows[i] \in Row /\ rows[i].size \in Nat
      <3>1. rows[i] \in Row
        BY <1>1
      <3>2. rows[i].size \in 0 .. MaxSize
        BY <3>1 DEF Row
      <3> QED
        BY <3>1, <3>2, OpencodeBounds
    <2>3. DOMAIN rows' = DOMAIN rows /\ (\A k \in DOMAIN rows : k # i => rows'[k] = rows[k])
      BY <1>1, <2>1
    <2>4. rows'[i].size = rows[i].size + 1
      BY <1>1, <2>1, <2>2 DEF Row
    <2> QED
      BY <2>2, <2>3, <2>4 DEF NoRowEmpty, HasBlocks
  <1>7. CASE ReplyEnds
    <2>1. PICK i \in DOMAIN rows, end \in {"tools", "settled"} :
              rows' = [rows EXCEPT ![i].end = end]
      BY <1>7 DEF ReplyEnds, Changes, OpenReply
    <2>2. DOMAIN rows' = DOMAIN rows /\ (\A k \in DOMAIN rows : k # i => rows'[k] = rows[k])
      BY <1>1, <2>1
    <2>3. rows'[i].size = rows[i].size
      BY <1>1, <2>1 DEF Row
    <2> QED
      BY <2>2, <2>3 DEF NoRowEmpty, HasBlocks
  <1>8. CASE \/ Poll \/ FetchFires \/ ConnectionChanges \/ Stopped
             \/ \E r \in 1 .. MaxReads : Answered(r) \/ Applied(r) \/ ReadThrows(r)
             \/ \E id \in Ids : LookupEnds(id)
    BY <1>2, <1>8 DEF Poll, FetchFires, ConnectionChanges, Stopped, Answered, Applied,
                      ReadThrows, LookupEnds, storeVars
  <1>9. CASE UNCHANGED opencodeVars
    BY <1>2, <1>9 DEF opencodeVars, storeVars
  <1> QED
    BY <1>4, <1>5, <1>6, <1>7, <1>8, <1>9 DEF OpencodeNext

\* With rows that are never empty and no more of them than one answer holds,
\* the client's pending marks are right at every moment, prompts queued behind
\* a turn included.
THEOREM PendingAlwaysTrue ==
  ASSUME ~EmptyRows, MaxRows <= RowLimit
  PROVE  OpencodeSpec => []PendingIsUnanswered
  <1>1. OpencodeInit => NoRowEmpty
    <2> SUFFICES ASSUME OpencodeInit, NEW i \in DOMAIN rows PROVE rows[i].size > 0
      BY DEF NoRowEmpty, HasBlocks
    <2>1. User.size = 1 /\ \A end : Reply(1, end).size = 1
      BY DEF User, Reply
    <2>2. rows[i] \in {User, Reply(1, "open"), Reply(1, "settled"), Reply(1, "tools")}
      BY DEF OpencodeInit, Histories
    <2> QED
      BY <2>1, <2>2
  <1>2. OpencodeTypeOK /\ NoRowEmpty => PendingIsUnanswered
    <2> SUFFICES ASSUME OpencodeTypeOK, NoRowEmpty PROVE PendingIsUnanswered
      OBVIOUS
    <2>1. Len(rows) <= RowLimit
      BY OpencodeBounds DEF OpencodeTypeOK
    <2>2. EmptyRowsLast(rows)
      BY DEF NoRowEmpty, EmptyRowsLast
    <2> QED
      BY <2>1, <2>2, PendingWhenInStep
  <1>3. OpencodeTypeOK /\ NoRowEmpty /\ [OpencodeNext]_opencodeVars => NoRowEmpty'
    BY NoRowEmptyStep
  <1> QED
    BY <1>1, <1>2, <1>3, OpencodeTypeCorrect, PTL DEF OpencodeSpec

-----------------------------------------------------------------------------
(* The server that opencode is read from. *)

Listing == [at : {"idle", "probing", "resolving", "polling", "answered"},
            own : {None} \cup Serves, result : Urls]

ServePhases == {"unborn", "starting", "ready", "ending", "gone"}

\* A serve that would go on by itself.
Running(n) == serve[n] \in {"starting", "ready"}

\* Listings take turns.
OneListing ==
    \A l, m \in Listings : listing[l].at # "idle" /\ listing[m].at # "idle" => l = m

\* A server is looked for only when none is remembered ...
NoneRemembered == \A l \in Listings : listing[l].at = "resolving" => url = "none"

\* ... and a serve that runs is the child, which is remembered or waited for.
Accounted ==
    \A n \in Serves : Running(n) =>
        /\ child = n
        /\ url = "ours" \/ \E l \in Listings : listing[l].at = "polling"

ServerInv == OneListing /\ NoneRemembered /\ Accounted

LEMMA ServerBounds ==
  /\ MaxServes \in Nat /\ MaxFaults \in Nat /\ None \notin Serves
  /\ 0 \in 0 .. MaxServes /\ 0 \in 0 .. MaxFaults
  BY OpencodeServerAssumption DEF None, Serves

\* stop() ends no serve but the child, and leaves none of its phases behind.
LEMMA WithoutChildType ==
  ASSUME ServerTypeOK
  PROVE  WithoutChild \in [Serves -> ServePhases]
  BY DEF WithoutChild, ServerTypeOK, ServePhases

\* A listing that goes on, with what it has in hand.
LEMMA ListingSet ==
  ASSUME ServerTypeOK, NEW l \in Listings, NEW r \in Listing,
         listing' = [listing EXCEPT ![l] = r]
  PROVE  /\ listing' \in [Listings -> Listing] /\ listing'[l] = r
         /\ \A m \in Listings : m # l => listing'[m] = listing[m]
  BY DEF ServerTypeOK, Listing

LEMMA FaultType ==
  ASSUME ServerTypeOK, Fault \/ UNCHANGED faults
  PROVE  faults' \in 0 .. MaxFaults
  BY ServerBounds DEF ServerTypeOK, Fault

LEMMA ServerInitTypes == ServerInit => ServerTypeOK
  BY ServerBounds DEF ServerInit, ServerTypeOK, Idle, Urls, Serves

\* What each step does to the listings.
LEMMA ReturnsListing ==
  ASSUME ServerTypeOK, NEW l \in Listings, NEW result \in Urls, Returns(l, result)
  PROVE  /\ listing' \in [Listings -> Listing] /\ listing'[l].at = "answered"
         /\ \A m \in Listings : m # l => listing'[m] = listing[m]
  <1>1. [at |-> "answered", own |-> None, result |-> result] \in Listing
    BY DEF Listing
  <1> QED BY <1>1, ListingSet DEF Returns

LEMMA EnsureListing ==
  ASSUME ServerTypeOK, NEW l \in Listings, Ensure(l)
  PROVE  /\ listing' \in [Listings -> Listing]
         /\ listing'[l].at = IF url # "none" THEN "probing" ELSE "resolving"
         /\ \A m \in Listings : m # l => listing'[m] = listing[m]
  <1>1. PICK at \in {"probing", "resolving"} :
          /\ at = IF url # "none" THEN "probing" ELSE "resolving"
          /\ listing' = [listing EXCEPT ![l].at = at, ![l].result = url]
    BY DEF Ensure
  <1>2. listing \in [Listings -> Listing] /\ url \in Urls
    BY DEF ServerTypeOK, Listing
  <1> QED BY <1>1, <1>2 DEF Listing

LEMMA UnhealthyListing ==
  ASSUME ServerTypeOK, NEW l \in Listings, Goes(l, "resolving")
  PROVE  /\ listing' \in [Listings -> Listing] /\ listing'[l].at = "resolving"
         /\ \A m \in Listings : m # l => listing'[m] = listing[m]
  BY DEF Goes, ServerTypeOK, Listing

LEMMA SpawnListing ==
  ASSUME ServerTypeOK, NEW l \in Listings, Spawn(l)
  PROVE  /\ listing' \in [Listings -> Listing] /\ listing'[l].at = "polling"
         /\ \A m \in Listings : m # l => listing'[m] = listing[m]
         /\ spawned + 1 \in Serves /\ spawned' \in 0 .. MaxServes
  <1>1. PICK n \in Serves :
          /\ n = spawned + 1 /\ spawned' \in 0 .. MaxServes
          /\ listing' = [listing EXCEPT ![l].at = "polling", ![l].own = n]
    <2>1. spawned + 1 \in Serves /\ spawned' \in 0 .. MaxServes
      BY ServerBounds DEF ServerTypeOK, Spawn, Serves
    <2> QED BY <2>1 DEF Spawn
  <1>2. listing \in [Listings -> Listing]
    BY DEF ServerTypeOK, Listing
  <1> QED BY <1>1, <1>2 DEF Listing

LEMMA IdleListing ==
  ASSUME ServerTypeOK, NEW l \in Listings, AdapterFollows(l)
  PROVE  /\ listing' \in [Listings -> Listing] /\ listing'[l].at = "idle"
         /\ \A m \in Listings : m # l => listing'[m] = listing[m]
  <1>1. Idle \in Listing
    BY DEF Idle, Listing, Urls
  <1> QED BY <1>1, ListingSet DEF AdapterFollows, Idle

\* Types, of a step of a listing.
LEMMA ListingStepTypes ==
  ASSUME ServerTypeOK, NEW l \in Listings, Ensure(l) \/ Step(l)
  PROVE  ServerTypeOK'
  <1> USE DEF processes
  <1>1. /\ listing \in [Listings -> Listing] /\ url \in Urls
        /\ {"none", "users", "ours"} \subseteq Urls
        /\ listing[l].result \in Urls
    BY DEF ServerTypeOK, Listing, Urls
  <1>2. CASE Ensure(l)
    BY <1>2, EnsureListing DEF Ensure, ServerTypeOK, Listing
  <1>3. CASE Probed(l)
    BY <1>1, <1>3, ReturnsListing DEF Probed, ServerTypeOK, Listing
  <1>4. CASE Unhealthy(l)
    <2>1. faults' \in 0 .. MaxFaults
      BY <1>4, FaultType DEF Unhealthy
    <2>2. listing' \in [Listings -> Listing]
      BY <1>4, UnhealthyListing DEF Unhealthy
    <2> QED
      BY <1>1, <1>4, <2>1, <2>2, WithoutChildType
      DEF Unhealthy, StopServe, ServerTypeOK, Listing, ServePhases
  <1>5. CASE Found(l)
    <2>1. listing' \in [Listings -> Listing]
      BY <1>1, <1>5, ReturnsListing DEF Found
    <2> QED
      BY <1>1, <1>5, <2>1 DEF Found, ServerTypeOK, Listing
  <1>6. CASE Spawn(l)
    <2>1. listing' \in [Listings -> Listing] /\ spawned' \in 0 .. MaxServes
          /\ spawned + 1 \in Serves
      BY <1>6, SpawnListing
    <2>2. serve' \in [Serves -> ServePhases]
      BY <1>6, <2>1 DEF Spawn, ServerTypeOK, ServePhases
    <2> QED
      BY <1>1, <1>6, <2>1, <2>2 DEF Spawn, ServerTypeOK, Listing, ServePhases
  <1>7. CASE NoServe(l)
    <2>1. faults' \in 0 .. MaxFaults
      BY <1>7, FaultType DEF NoServe
    <2>2. listing' \in [Listings -> Listing]
      BY <1>1, <1>7, ReturnsListing DEF NoServe
    <2> QED
      BY <1>1, <1>7, <2>1, <2>2 DEF NoServe, ServerTypeOK, Listing
  <1>8. CASE Ready(l)
    <2>1. listing' \in [Listings -> Listing]
      BY <1>1, <1>8, ReturnsListing DEF Ready
    <2> QED
      BY <1>1, <1>8, <2>1 DEF Ready, ServerTypeOK, Listing
  <1>9. CASE GivesUp(l)
    <2>1. listing' \in [Listings -> Listing]
      BY <1>1, <1>9, ReturnsListing DEF GivesUp
    <2> QED
      BY <1>1, <1>9, <2>1, WithoutChildType
      DEF GivesUp, StopServe, ServerTypeOK, Listing, ServePhases
  <1>10. CASE AdapterFollows(l)
    <2>1. listing' \in [Listings -> Listing]
      BY <1>10, IdleListing
    <2> QED
      BY <1>1, <1>10, <2>1 DEF AdapterFollows, ServerTypeOK, Listing
  <1> QED
    BY <1>2, <1>3, <1>4, <1>5, <1>6, <1>7, <1>8, <1>9, <1>10 DEF Step

LEMMA ServerNextTypes ==
  ASSUME ServerTypeOK, [ServerNext]_serverVars
  PROVE  ServerTypeOK'
  <1>1. ASSUME NEW l \in Listings, Ensure(l) \/ Step(l) PROVE ServerTypeOK'
    BY <1>1, ListingStepTypes
  <1>2. ASSUME NEW n \in Serves, Binds(n) PROVE ServerTypeOK'
    BY <1>2 DEF Binds, ServerTypeOK
  <1>3. ASSUME NEW n \in Serves, Ends(n) PROVE ServerTypeOK'
    <2>1. faults' \in 0 .. MaxFaults
      BY <1>3, FaultType DEF Ends
    <2> QED
      BY <1>3, <2>1 DEF Ends, ServerTypeOK
  <1>4. CASE UserStartsOrStops
    <2>1. faults' \in 0 .. MaxFaults
      BY <1>4, FaultType DEF UserStartsOrStops
    <2> QED
      BY <1>4, <2>1 DEF UserStartsOrStops, ServerTypeOK
  <1>5. CASE UNCHANGED serverVars
    BY <1>5 DEF serverVars, ServerTypeOK
  <1> QED
    BY <1>1, <1>2, <1>3, <1>4, <1>5 DEF ServerNext

\* The variables of OpencodeServer keep their types, however listings overlap.
THEOREM ServerTypeCorrect == ServerSpec => []ServerTypeOK
  BY ServerInitTypes, ServerNextTypes, PTL DEF ServerSpec

-----------------------------------------------------------------------------
\* Nothing runs once the child was stopped.
LEMMA StoppedAll ==
  ASSUME ServerTypeOK, ServerInv, StopServe
  PROVE  \A n \in Serves : ~(serve'[n] \in {"starting", "ready"})
  BY DEF StopServe, WithoutChild, Live, ServerTypeOK, ServerInv, Accounted, Running

\* While a server is looked for nothing runs.
LEMMA NothingRuns ==
  ASSUME ServerInv, NEW l \in Listings, listing[l].at = "resolving"
  PROVE  \A n \in Serves : ~Running(n)
  BY DEF ServerInv, OneListing, NoneRemembered, Accounted

LEMMA ListingStepInv ==
  ASSUME ServerTypeOK, ServerInv, ~ListingsOverlap, NEW l \in Listings,
         Ensure(l) \/ Step(l)
  PROVE  ServerInv'
  <1> USE DEF processes
  <1>1. /\ listing \in [Listings -> Listing] /\ url \in Urls
        /\ {"none", "users", "ours"} \subseteq Urls
        /\ listing[l].result \in Urls
    BY DEF ServerTypeOK, Listing, Urls
  <1>2. /\ \A m \in Listings : m # l => listing'[m] = listing[m]
        /\ \A m \in Listings : m # l => listing[m].at = "idle"
        /\ listing'[l].at \in {"probing", "resolving", "polling", "answered", "idle"}
    <2>1. CASE Ensure(l)
      BY <2>1, EnsureListing DEF Ensure
    <2>2. CASE Step(l)
      <3>1. listing[l].at # "idle"
        BY <2>2 DEF Step, Probed, Unhealthy, Found, Spawn, NoServe, Ready, GivesUp,
                    AdapterFollows
      <3>2. \A m \in Listings : m # l => listing[m].at = "idle"
        BY <3>1 DEF ServerInv, OneListing
      <3>3. CASE Probed(l)
        BY <3>2, <3>3, <1>1, ReturnsListing DEF Probed
      <3>4. CASE Unhealthy(l)
        BY <3>2, <3>4, UnhealthyListing DEF Unhealthy
      <3>5. CASE Found(l)
        BY <3>2, <3>5, <1>1, ReturnsListing DEF Found
      <3>6. CASE Spawn(l)
        BY <3>2, <3>6, SpawnListing
      <3>7. CASE NoServe(l)
        BY <3>2, <3>7, <1>1, ReturnsListing DEF NoServe
      <3>8. CASE Ready(l)
        BY <3>2, <3>8, <1>1, ReturnsListing DEF Ready
      <3>9. CASE GivesUp(l)
        BY <3>2, <3>9, <1>1, ReturnsListing DEF GivesUp
      <3>10. CASE AdapterFollows(l)
        BY <3>2, <3>10, IdleListing
      <3> QED
        BY <2>2, <3>3, <3>4, <3>5, <3>6, <3>7, <3>8, <3>9, <3>10 DEF Step
    <2> QED BY <2>1, <2>2
  <1>3. OneListing'
    BY <1>2 DEF OneListing
  <1>4. ASSUME listing'[l].at = "resolving" => url' = "none",
               \A n \in Serves : serve'[n] \in {"starting", "ready"} =>
                   child' = n /\ (url' = "ours" \/ listing'[l].at = "polling")
        PROVE  ServerInv'
    <2>1. NoneRemembered'
      BY <1>2, <1>4 DEF NoneRemembered
    <2>2. Accounted'
      BY <1>4 DEF Accounted, Running
    <2> QED BY <1>3, <2>1, <2>2 DEF ServerInv
  \* Whatever runs before the step is the child; it is remembered unless l polls.
  <1>5. \A n \in Serves : serve[n] \in {"starting", "ready"} =>
            child = n /\ (url = "ours" \/ listing[l].at = "polling")
    <2>1. \A m \in Listings : listing[m].at = "polling" => m = l
      BY <1>2
    <2> QED BY <2>1 DEF ServerInv, Accounted, Running
  <1>6. CASE Ensure(l)
    <2>1. listing'[l].at = (IF url # "none" THEN "probing" ELSE "resolving")
      BY <1>6, EnsureListing
    <2>2. listing[l].at = "idle" /\ UNCHANGED <<serve, child, url>>
      BY <1>6 DEF Ensure
    <2> QED BY <1>4, <1>5, <2>1, <2>2
  <1>7. CASE Probed(l)
    <2>1. listing'[l].at = "answered"
      BY <1>1, <1>7, ReturnsListing DEF Probed
    <2>2. listing[l].at = "probing" /\ UNCHANGED <<serve, child, url>>
      BY <1>7 DEF Probed
    <2> QED BY <1>4, <1>5, <2>1, <2>2
  <1>8. CASE Unhealthy(l)
    <2>1. \A n \in Serves : ~(serve'[n] \in {"starting", "ready"})
      BY <1>8, StoppedAll DEF Unhealthy
    <2>2. url' = "none"
      BY <1>8 DEF Unhealthy, StopServe
    <2> QED BY <1>4, <2>1, <2>2
  <1>9. CASE Found(l)
    <2>1. listing'[l].at = "answered"
      BY <1>1, <1>9, ReturnsListing DEF Found
    <2>2. \A n \in Serves : ~(serve'[n] \in {"starting", "ready"})
      BY <1>9, NothingRuns DEF Found, Running
    <2> QED BY <1>4, <2>1, <2>2
  <1>10. CASE Spawn(l)
    <2>1. listing'[l].at = "polling" /\ spawned + 1 \in Serves
      BY <1>10, SpawnListing
    <2>2. \A n \in Serves : ~(serve[n] \in {"starting", "ready"})
      BY <1>10, NothingRuns DEF Spawn, Running
    <2>3. \A n \in Serves : serve'[n] \in {"starting", "ready"} => n = spawned + 1
      BY <1>10, <2>1, <2>2 DEF Spawn, ServerTypeOK
    <2>4. child' = spawned + 1
      BY <1>10 DEF Spawn
    <2> QED BY <1>4, <2>1, <2>3, <2>4
  <1>11. CASE NoServe(l)
    <2>1. listing'[l].at = "answered"
      BY <1>1, <1>11, ReturnsListing DEF NoServe
    <2>2. \A n \in Serves : ~(serve'[n] \in {"starting", "ready"})
      BY <1>11, NothingRuns DEF NoServe, Running
    <2> QED BY <1>4, <2>1, <2>2
  <1>12. CASE Ready(l)
    <2>1. listing'[l].at = "answered" /\ url' = "ours" /\ UNCHANGED <<serve, child>>
      BY <1>1, <1>12, ReturnsListing DEF Ready
    <2> QED BY <1>4, <1>5, <2>1
  <1>13. CASE GivesUp(l)
    <2>1. \A n \in Serves : ~(serve'[n] \in {"starting", "ready"})
      BY <1>13, StoppedAll DEF GivesUp
    <2>2. listing'[l].at = "answered"
      BY <1>1, <1>13, ReturnsListing DEF GivesUp
    <2> QED BY <1>4, <2>1, <2>2
  <1>14. CASE AdapterFollows(l)
    <2>1. listing'[l].at = "idle"
      BY <1>14, IdleListing
    <2>2. listing[l].at = "answered" /\ UNCHANGED <<serve, child, url>>
      BY <1>14 DEF AdapterFollows
    <2> QED BY <1>4, <1>5, <2>1, <2>2
  <1> QED
    BY <1>6, <1>7, <1>8, <1>9, <1>10, <1>11, <1>12, <1>13, <1>14 DEF Step

\* What processes do starts none.
LEMMA ProcessStepInv ==
  ASSUME ServerInv, UNCHANGED <<child, url, listing>>,
         \A n \in Serves : serve'[n] \in {"starting", "ready"} => Running(n)
  PROVE  ServerInv'
  BY DEF ServerInv, OneListing, NoneRemembered, Accounted, Running

LEMMA ServerNextInv ==
  ASSUME ServerTypeOK, ServerInv, ~ListingsOverlap, [ServerNext]_serverVars
  PROVE  ServerInv'
  <1>1. ASSUME NEW l \in Listings, Ensure(l) \/ Step(l) PROVE ServerInv'
    BY <1>1, ListingStepInv
  <1>2. ASSUME NEW n \in Serves, Binds(n) PROVE ServerInv'
    BY <1>2, ProcessStepInv DEF Binds, Running, ServerTypeOK
  <1>3. ASSUME NEW n \in Serves, Ends(n) PROVE ServerInv'
    BY <1>3, ProcessStepInv DEF Ends, Running, ServerTypeOK
  <1>4. CASE UserStartsOrStops
    BY <1>4, ProcessStepInv DEF UserStartsOrStops, Running
  <1>5. CASE UNCHANGED serverVars
    BY <1>5, ProcessStepInv DEF serverVars, Running
  <1> QED
    BY <1>1, <1>2, <1>3, <1>4, <1>5 DEF ServerNext

\* While one listing ends before the next begins, no `opencode serve' is left
\* running that the daemon does not hold (opencode-server.ts:157), whichever
\* serves die, probes fail and servers of the user's come and go.
THEOREM ServesHeld ==
  ASSUME ~ListingsOverlap
  PROVE  ServerSpec => []NoStrayServe
  <1>1. ServerInit => ServerInv
    BY DEF ServerInit, ServerInv, OneListing, NoneRemembered, Accounted, Running, Idle
  <1>2. ServerTypeOK /\ ServerInv /\ [ServerNext]_serverVars => ServerInv'
    BY ServerNextInv
  <1>3. ServerInv => NoStrayServe
    BY DEF ServerInv, Accounted, Running, NoStrayServe
  <1> QED
    BY <1>1, <1>2, <1>3, ServerTypeCorrect, PTL DEF ServerSpec

-----------------------------------------------------------------------------
(* Types of EventStream, also when connections overlap. *)

\* The connections with an event on its way.
Carrying == {c \in Conns : conn[c].frame # Nil}

\* What was delivered and what may still be is one event for each connection.
OnceEach ==
    \A s \in Subscribers : received[s] + Cardinality(Carrying) <= Cardinality(Conns)

\* The flags tell of a connection that is read.
ReadingIsTrue ==
    connected => reading /\ \E c \in Conns : conn[c].phase = "reading"

StreamTypes ==
    /\ subscribers \subseteq Subscribers
    /\ conn \in [Conns -> Conn]
    /\ controller \in Conns \cup {Nil}
    /\ connected \in BOOLEAN /\ reading \in BOOLEAN /\ disposed \in BOOLEAN
    /\ watchdog \in BOOLEAN /\ silent \in BOOLEAN
    /\ reconnectTimer \in {"null", "set", "cleared"}
    /\ received \in [Subscribers -> Nat]

StreamTypeInv == StreamTypes /\ OnceEach /\ ReadingIsTrue

LEMMA ConnsFinite ==
  /\ IsFiniteSet(Conns) /\ Cardinality(Conns) \in Nat
  /\ IsFiniteSet(Carrying) /\ Cardinality(Carrying) \in Nat
  /\ Cardinality(Carrying) <= Cardinality(Conns)
  <1>1. IsFiniteSet(Conns) /\ Carrying \subseteq Conns
    BY StreamAssumption DEF Carrying
  <1> QED BY <1>1, FS_Subset, FS_CardinalityType

\* One connection changes: what it carries is dropped or kept.
LEMMA OneChanges ==
  ASSUME StreamTypeInv, NEW c \in Conns, NEW r \in Conn,
         conn' = [conn EXCEPT ![c] = r], r.frame = Nil \/ r.frame = conn[c].frame
  PROVE  /\ conn' \in [Conns -> Conn] /\ Carrying' \subseteq Carrying
         /\ \A d \in Conns : d # c => conn'[d] = conn[d]
         /\ conn'[c] = r
  <1>1. conn \in [Conns -> Conn]
    BY DEF StreamTypeInv, StreamTypes
  <1> QED BY <1>1 DEF Carrying

\* Fewer events are on their way, and nobody was handed one.
LEMMA StillOnce ==
  ASSUME StreamTypeInv, Carrying' \subseteq Carrying, received' \in [Subscribers -> Nat],
         \A s \in Subscribers : received'[s] <= received[s]
  PROVE  OnceEach'
  <1>1. IsFiniteSet(Carrying) /\ Cardinality(Carrying) \in Nat /\ Cardinality(Conns) \in Nat
    BY ConnsFinite
  <1>2. Cardinality(Carrying') \in Nat /\ Cardinality(Carrying') <= Cardinality(Carrying)
    BY <1>1, FS_Subset, FS_CardinalityType
  <1>3. ASSUME NEW s \in Subscribers
        PROVE  received'[s] + Cardinality(Carrying') <= Cardinality(Conns)
    <2>1. received[s] \in Nat /\ received'[s] \in Nat /\ received'[s] <= received[s]
      BY DEF StreamTypeInv, StreamTypes
    <2>2. received[s] + Cardinality(Carrying) <= Cardinality(Conns)
      BY DEF StreamTypeInv, OnceEach
    <2> QED BY <1>1, <1>2, <2>1, <2>2
  <1> QED BY <1>3 DEF OnceEach

\* Who subscribes or leaves starts from nothing.
LEMMA CountReset ==
  ASSUME StreamTypeInv, NEW s \in Subscribers, received' = [received EXCEPT ![s] = 0]
  PROVE  /\ received' \in [Subscribers -> Nat]
         /\ \A x \in Subscribers : received'[x] <= received[x]
  <1>1. received \in [Subscribers -> Nat]
    BY DEF StreamTypeInv, StreamTypes
  <1>2. ASSUME NEW x \in Subscribers PROVE received'[x] <= received[x]
    <2>1. received[x] \in Nat
      BY <1>1
    <2>2. received'[x] = (IF x = s THEN 0 ELSE received[x])
      BY <1>1
    <2> QED BY <2>1, <2>2
  <1>3. received' \in [Subscribers -> Nat]
    BY <1>1
  <1> QED BY <1>2, <1>3

\* connect() takes a connection that is not in use.
LEMMA ConnectTypes ==
  ASSUME StreamTypeInv, Connect
  PROVE  /\ conn' \in [Conns -> Conn] /\ Carrying' \subseteq Carrying
         /\ controller' \in Conns /\ reconnectTimer' = "null"
         /\ \A c \in Conns : conn[c].phase = "reading" => conn'[c].phase = "reading"
  <1>1. PICK c \in Conns :
          /\ conn[c].phase = "none"
          /\ conn' = [conn EXCEPT ![c].phase = "opening"]
          /\ controller' = c
          /\ reconnectTimer' = "null"
    BY DEF Connect
  <1>2. conn \in [Conns -> Conn]
    BY DEF StreamTypeInv, StreamTypes
  <1>3. conn' = [conn EXCEPT ![c] = [conn[c] EXCEPT !.phase = "opening"]]
    BY <1>1, <1>2
  <1>4. /\ [conn[c] EXCEPT !.phase = "opening"] \in Conn
        /\ [conn[c] EXCEPT !.phase = "opening"].frame = conn[c].frame
    BY <1>2 DEF Conn
  <1>5. /\ conn' \in [Conns -> Conn] /\ Carrying' \subseteq Carrying
        /\ \A d \in Conns : d # c => conn'[d] = conn[d]
    BY <1>3, <1>4, OneChanges
  <1> QED BY <1>1, <1>5

\* An abort changes no phase and drops no event.
LEMMA AbortTypes ==
  ASSUME StreamTypeInv,
         conn' = conn \/ (controller # Nil /\ conn' = [conn EXCEPT ![controller].aborted = TRUE])
  PROVE  /\ conn' \in [Conns -> Conn] /\ Carrying' \subseteq Carrying
         /\ \A c \in Conns : conn'[c].phase = conn[c].phase
  <1>1. conn \in [Conns -> Conn] /\ controller \in Conns \cup {Nil}
    BY DEF StreamTypeInv, StreamTypes
  <1>2. CASE conn' = conn
    BY <1>1, <1>2 DEF Carrying
  <1>3. CASE controller # Nil /\ conn' = [conn EXCEPT ![controller].aborted = TRUE]
    <2>1. controller \in Conns
      BY <1>1, <1>3
    <2>2. conn' = [conn EXCEPT ![controller] = [conn[controller] EXCEPT !.aborted = TRUE]]
      BY <1>1, <1>3, <2>1
    <2>3. /\ [conn[controller] EXCEPT !.aborted = TRUE] \in Conn
          /\ [conn[controller] EXCEPT !.aborted = TRUE].frame = conn[controller].frame
          /\ [conn[controller] EXCEPT !.aborted = TRUE].phase = conn[controller].phase
      BY <1>1, <2>1 DEF Conn
    <2>4. /\ conn' \in [Conns -> Conn] /\ Carrying' \subseteq Carrying
          /\ conn'[controller] = [conn[controller] EXCEPT !.aborted = TRUE]
          /\ \A d \in Conns : d # controller => conn'[d] = conn[d]
      BY <2>1, <2>2, <2>3, OneChanges
    <2> QED BY <2>3, <2>4
  <1> QED BY <1>2, <1>3

LEMMA InitStreamTypes == Init => StreamTypeInv
  <1> SUFFICES ASSUME Init PROVE StreamTypeInv
    OBVIOUS
  <1>1. StreamTypes
    BY ClosedType DEF Init, StreamTypes
  <1>2. OnceEach
    BY ConnsFinite DEF Init, OnceEach
  <1> QED BY <1>1, <1>2 DEF Init, StreamTypeInv, ReadingIsTrue

LEMMA SubscribeTypes ==
  ASSUME StreamTypeInv, NEW s \in Subscribers, Subscribe(s)
  PROVE  StreamTypeInv'
  <1>1. /\ received' \in [Subscribers -> Nat]
        /\ \A x \in Subscribers : received'[x] <= received[x]
    BY CountReset DEF Subscribe
  <1>2. /\ conn' \in [Conns -> Conn] /\ Carrying' \subseteq Carrying
        /\ controller' \in Conns \cup {Nil}
        /\ reconnectTimer' \in {"null", "set", "cleared"} /\ disposed' \in BOOLEAN
        /\ \A c \in Conns : conn[c].phase = "reading" => conn'[c].phase = "reading"
    <2>1. CASE Starts(subscribers')
      <3>1. Connect /\ disposed' = FALSE
        BY <2>1 DEF Subscribe
      <3> QED BY <3>1, ConnectTypes
    <2>2. CASE ~Starts(subscribers')
      <3>1. UNCHANGED <<conn, controller, reconnectTimer, disposed>>
        BY <2>2 DEF Subscribe
      <3> QED BY <3>1 DEF StreamTypeInv, StreamTypes, Carrying
    <2> QED BY <2>1, <2>2
  <1>3. StreamTypes'
    BY <1>1, <1>2 DEF Subscribe, StreamTypeInv, StreamTypes
  <1>4. OnceEach'
    BY <1>1, <1>2, StillOnce
  <1>5. ReadingIsTrue'
    BY <1>2 DEF Subscribe, StreamTypeInv, ReadingIsTrue
  <1> QED BY <1>3, <1>4, <1>5 DEF StreamTypeInv

LEMMA UnsubscribeTypes ==
  ASSUME StreamTypeInv, NEW s \in Subscribers, Unsubscribe(s)
  PROVE  StreamTypeInv'
  <1>1. /\ received' \in [Subscribers -> Nat]
        /\ \A x \in Subscribers : received'[x] <= received[x]
    BY CountReset DEF Unsubscribe
  <1>2. CASE Stop
    <2>1. /\ conn' \in [Conns -> Conn] /\ Carrying' \subseteq Carrying
      BY <1>2, AbortTypes DEF Stop
    <2>2. StreamTypes'
      BY <1>1, <1>2, <2>1 DEF Unsubscribe, Stop, StreamTypeInv, StreamTypes
    <2> QED
      BY <1>1, <1>2, <2>1, <2>2, StillOnce DEF Stop, StreamTypeInv, ReadingIsTrue
  <1>3. CASE UNCHANGED <<conn, controller, connected, reading, disposed,
                         reconnectTimer, watchdog>>
    <2>1. Carrying' \subseteq Carrying
      BY <1>3 DEF Carrying
    <2>2. StreamTypes'
      BY <1>1, <1>3 DEF Unsubscribe, StreamTypeInv, StreamTypes
    <2> QED
      BY <1>1, <1>3, <2>1, <2>2, StillOnce DEF StreamTypeInv, ReadingIsTrue
  <1> QED BY <1>2, <1>3 DEF Unsubscribe

\* A connection opens, fails, ends or wedges: a step of its own phase.
LEMMA ConnectionTypes ==
  ASSUME StreamTypeInv, NEW c \in Conns, Opened(c) \/ OpenFailed(c) \/ Ended(c) \/ Wedge(c)
  PROVE  StreamTypeInv'
  <1>1. conn \in [Conns -> Conn] /\ received \in [Subscribers -> Nat]
    BY DEF StreamTypeInv, StreamTypes
  <1>2. ASSUME received' = received, Carrying' \subseteq Carrying
        PROVE  OnceEach'
    BY <1>1, <1>2, StillOnce
  <1>3. CASE Opened(c)
    <2>1. PICK p \in {"reading", "unread"} :
            /\ conn' = [conn EXCEPT ![c] = [conn[c] EXCEPT !.phase = p]]
            /\ p = "reading" => reading' = TRUE /\ connected' = TRUE /\ watchdog' = TRUE
                                /\ silent' = FALSE
            /\ p = "unread" => UNCHANGED <<reading, connected, watchdog, silent>>
      BY <1>1, <1>3 DEF Opened
    <2>2. /\ [conn[c] EXCEPT !.phase = p] \in Conn
          /\ [conn[c] EXCEPT !.phase = p].frame = conn[c].frame
          /\ [conn[c] EXCEPT !.phase = p].phase = p
      BY <1>1 DEF Conn
    <2>3. /\ conn' \in [Conns -> Conn] /\ Carrying' \subseteq Carrying
          /\ \A d \in Conns : d # c => conn'[d] = conn[d]
          /\ conn'[c].phase = p
      BY <2>1, <2>2, OneChanges
    <2>4. ReadingIsTrue'
      <3>1. CASE p = "reading"
        BY <2>1, <2>3, <3>1 DEF ReadingIsTrue
      <3>2. CASE p = "unread"
        <4>1. UNCHANGED <<reading, connected>>
          BY <2>1, <3>2
        <4>2. \A d \in Conns : conn[d].phase = "reading" => conn'[d].phase = "reading"
          BY <1>3, <2>3 DEF Opened
        <4> QED BY <4>1, <4>2 DEF StreamTypeInv, ReadingIsTrue
      <3> QED BY <3>1, <3>2
    <2>5. StreamTypes'
      BY <1>3, <2>1, <2>3 DEF Opened, StreamTypeInv, StreamTypes
    <2> QED
      BY <1>3, <1>2, <2>3, <2>4, <2>5 DEF Opened, StreamTypeInv
  <1>4. ASSUME OpenFailed(c) \/ Ended(c)
        PROVE  /\ conn' \in [Conns -> Conn] /\ Carrying' \subseteq Carrying
               /\ \A d \in Conns : d # c => conn'[d] = conn[d]
    <2>1. conn' = [conn EXCEPT ![c] = Closed] /\ Closed.frame = Nil
      BY <1>4 DEF OpenFailed, Ended, Closed
    <2> QED BY <2>1, ClosedType, OneChanges
  <1>5. CASE OpenFailed(c)
    <2>1. reconnectTimer' \in {"null", "set", "cleared"}
      BY <1>5 DEF OpenFailed, ScheduleReconnect, StreamTypeInv, StreamTypes
    <2>2. StreamTypes'
      BY <1>4, <1>5, <2>1 DEF OpenFailed, StreamTypeInv, StreamTypes
    <2>3. ReadingIsTrue'
      BY <1>4, <1>5 DEF OpenFailed, StreamTypeInv, ReadingIsTrue
    <2> QED
      BY <1>4, <1>5, <1>2, <2>2, <2>3 DEF OpenFailed, StreamTypeInv
  <1>6. CASE Ended(c)
    <2>1. reconnectTimer' \in {"null", "set", "cleared"}
      BY <1>6 DEF Ended, ScheduleReconnect, StreamTypeInv, StreamTypes
    <2>2. StreamTypes'
      BY <1>4, <1>6, <2>1 DEF Ended, StreamTypeInv, StreamTypes
    <2>3. ReadingIsTrue'
      <3>1. CASE conn[c].phase = "reading"
        BY <1>6, <3>1 DEF Ended, ReadingIsTrue
      <3>2. CASE conn[c].phase = "unread"
        BY <1>4, <1>6, <3>2 DEF Ended, StreamTypeInv, ReadingIsTrue
      <3> QED BY <1>6, <3>1, <3>2 DEF Ended
    <2> QED
      BY <1>4, <1>6, <1>2, <2>2, <2>3 DEF Ended, StreamTypeInv
  <1>7. CASE Wedge(c)
    <2>1. conn' = [conn EXCEPT ![c] = [conn[c] EXCEPT !.wedged = TRUE, !.frame = Nil]]
      BY <1>1, <1>7 DEF Wedge
    <2>2. /\ [conn[c] EXCEPT !.wedged = TRUE, !.frame = Nil] \in Conn
          /\ [conn[c] EXCEPT !.wedged = TRUE, !.frame = Nil].frame = Nil
          /\ [conn[c] EXCEPT !.wedged = TRUE, !.frame = Nil].phase = conn[c].phase
      BY <1>1 DEF Conn
    <2>3. /\ conn' \in [Conns -> Conn] /\ Carrying' \subseteq Carrying
          /\ \A d \in Conns : conn'[d].phase = conn[d].phase
      BY <2>1, <2>2, OneChanges
    <2>4. ReadingIsTrue'
      BY <1>7, <2>3 DEF Wedge, streamVars, StreamTypeInv, ReadingIsTrue
    <2>5. StreamTypes'
      BY <1>7, <2>3 DEF Wedge, streamVars, StreamTypeInv, StreamTypes
    <2> QED
      BY <1>7, <1>2, <2>3, <2>4, <2>5 DEF Wedge, StreamTypeInv
  <1> QED BY <1>3, <1>5, <1>6, <1>7

\* An event is handed over: one more was delivered, one fewer is on its way.
LEMMA DeliverTypes ==
  ASSUME StreamTypeInv, NEW c \in Conns, Deliver(c)
  PROVE  StreamTypeInv'
  <1>1. conn \in [Conns -> Conn] /\ received \in [Subscribers -> Nat]
    BY DEF StreamTypeInv, StreamTypes
  <1>2. conn' = [conn EXCEPT ![c] = [conn[c] EXCEPT !.frame = Nil]]
    BY <1>1 DEF Deliver
  <1>3. /\ [conn[c] EXCEPT !.frame = Nil] \in Conn
        /\ [conn[c] EXCEPT !.frame = Nil].frame = Nil
        /\ [conn[c] EXCEPT !.frame = Nil].phase = conn[c].phase
    BY <1>1 DEF Conn
  <1>4. /\ conn' \in [Conns -> Conn]
        /\ \A d \in Conns : d # c => conn'[d] = conn[d]
        /\ conn'[c].frame = Nil /\ \A d \in Conns : conn'[d].phase = conn[d].phase
    BY <1>2, <1>3, OneChanges
  <1>5. Carrying' = Carrying \ {c} /\ c \in Carrying
    BY <1>4 DEF Carrying, Deliver
  <1>6. /\ Cardinality(Carrying') = Cardinality(Carrying) - 1
        /\ Cardinality(Carrying) \in Nat /\ Cardinality(Conns) \in Nat
    BY <1>5, ConnsFinite, FS_RemoveElement
  <1>7. /\ received' \in [Subscribers -> Nat]
        /\ \A s \in Subscribers : received'[s] <= received[s] + 1
    <2>1. ASSUME NEW s \in Subscribers
          PROVE  received'[s] \in Nat /\ received'[s] <= received[s] + 1
      BY <1>1 DEF Deliver
    <2>2. received' = [s \in Subscribers |-> received'[s]]
      BY DEF Deliver
    <2> QED BY <2>1, <2>2
  <1>8. OnceEach'
    <2>1. ASSUME NEW s \in Subscribers
          PROVE  received'[s] + Cardinality(Carrying') <= Cardinality(Conns)
      <3>1. received[s] \in Nat /\ received'[s] \in Nat /\ received'[s] <= received[s] + 1
        BY <1>1, <1>7
      <3>2. received[s] + Cardinality(Carrying) <= Cardinality(Conns)
        BY DEF StreamTypeInv, OnceEach
      <3> QED BY <1>6, <3>1, <3>2
    <2> QED BY <2>1 DEF OnceEach
  <1>9. StreamTypes'
    BY <1>4, <1>7 DEF Deliver, StreamTypeInv, StreamTypes
  <1>10. ReadingIsTrue'
    BY <1>4 DEF Deliver, StreamTypeInv, ReadingIsTrue
  <1> QED BY <1>8, <1>9, <1>10 DEF StreamTypeInv

\* opencode sends an event: the count begins anew.
LEMMA EmitTypes ==
  ASSUME StreamTypeInv, NEW s \in Sessions \cup {AnySession}, Emit(s)
  PROVE  StreamTypeInv'
  <1>1. conn \in [Conns -> Conn]
    BY DEF StreamTypeInv, StreamTypes
  <1>2. ASSUME NEW c \in Conns
        PROVE  conn'[c] \in Conn /\ conn'[c].phase = conn[c].phase
    <2>1. conn[c] \in Conn
      BY <1>1
    <2>2. [conn[c] EXCEPT !.frame = s] \in Conn /\ [conn[c] EXCEPT !.frame = s].phase = conn[c].phase
      BY <2>1 DEF Conn
    <2> QED BY <2>1, <2>2 DEF Emit
  <1>3. conn' \in [Conns -> Conn]
    BY <1>2 DEF Emit
  <1>4. received' = [x \in Subscribers |-> 0]
    BY DEF Emit
  <1>5. OnceEach'
    <2>1. Carrying' \subseteq Conns
      BY DEF Carrying
    <2>2. Cardinality(Carrying') \in Nat /\ Cardinality(Carrying') <= Cardinality(Conns)
      BY <2>1, ConnsFinite, FS_Subset, FS_CardinalityType
    <2> QED BY <1>4, <2>2 DEF OnceEach
  <1>6. StreamTypes'
    BY <1>3, <1>4 DEF Emit, streamVars, StreamTypeInv, StreamTypes
  <1>7. ReadingIsTrue'
    BY <1>2 DEF Emit, streamVars, StreamTypeInv, ReadingIsTrue
  <1> QED BY <1>5, <1>6, <1>7 DEF StreamTypeInv

LEMMA TimerTypes ==
  ASSUME StreamTypeInv, ReconnectFires \/ WatchdogFires \/ Silence \/ UNCHANGED vars
  PROVE  StreamTypeInv'
  <1>1. conn \in [Conns -> Conn] /\ received \in [Subscribers -> Nat]
    BY DEF StreamTypeInv, StreamTypes
  <1>2. received' = received
    BY DEF ReconnectFires, WatchdogFires, Silence, vars
  <1>3. ASSUME Carrying' \subseteq Carrying PROVE OnceEach'
    BY <1>1, <1>2, <1>3, StillOnce
  <1>4. CASE ReconnectFires
    <2>1. /\ conn' \in [Conns -> Conn] /\ Carrying' \subseteq Carrying
          /\ controller' \in Conns \cup {Nil} /\ reconnectTimer' = "null"
          /\ \A c \in Conns : conn[c].phase = "reading" => conn'[c].phase = "reading"
      <3>1. CASE subscribers = {}
        BY <1>4, <3>1 DEF ReconnectFires, StreamTypeInv, StreamTypes, Carrying
      <3>2. CASE subscribers # {}
        BY <1>4, <3>2, ConnectTypes DEF ReconnectFires
      <3> QED BY <3>1, <3>2
    <2>2. StreamTypes'
      BY <1>4, <2>1 DEF ReconnectFires, StreamTypeInv, StreamTypes
    <2>3. ReadingIsTrue'
      BY <1>4, <2>1 DEF ReconnectFires, StreamTypeInv, ReadingIsTrue
    <2> QED BY <1>3, <2>1, <2>2, <2>3 DEF StreamTypeInv
  <1>5. CASE WatchdogFires
    <2>1. /\ conn' \in [Conns -> Conn] /\ Carrying' \subseteq Carrying
          /\ \A c \in Conns : conn'[c].phase = conn[c].phase
      BY <1>5, AbortTypes DEF WatchdogFires
    <2>2. StreamTypes'
      BY <1>5, <2>1 DEF WatchdogFires, StreamTypeInv, StreamTypes
    <2>3. ReadingIsTrue'
      BY <1>5, <2>1 DEF WatchdogFires, StreamTypeInv, ReadingIsTrue
    <2> QED BY <1>3, <2>1, <2>2, <2>3 DEF StreamTypeInv
  <1>6. CASE Silence
    <2>1. StreamTypes' /\ Carrying' \subseteq Carrying
      BY <1>6 DEF Silence, StreamTypeInv, StreamTypes, Carrying
    <2> QED BY <1>6, <1>3, <2>1 DEF Silence, StreamTypeInv, ReadingIsTrue
  <1>7. CASE UNCHANGED vars
    <2>1. StreamTypes' /\ Carrying' \subseteq Carrying
      BY <1>7 DEF vars, streamVars, StreamTypeInv, StreamTypes, Carrying
    <2> QED BY <1>7, <1>3, <2>1 DEF vars, streamVars, StreamTypeInv, ReadingIsTrue
  <1> QED BY <1>4, <1>5, <1>6, <1>7

\* The variables of EventStream keep their types, and its flags tell of a
\* connection that is read, however many connections there are at once.
THEOREM StreamTypeCorrect == Spec => []TypeOK
  <1>1. StreamTypeInv /\ [Next]_vars => StreamTypeInv'
    BY SubscribeTypes, UnsubscribeTypes, ConnectionTypes, DeliverTypes, EmitTypes,
       TimerTypes DEF Next
  <1>2. StreamTypeInv => TypeOK
    <2> SUFFICES ASSUME StreamTypeInv PROVE TypeOK
      OBVIOUS
    <2>1. ASSUME NEW s \in Subscribers
          PROVE  received[s] \in 0 .. Cardinality(Conns)
      <3>1. received[s] \in Nat /\ received[s] + Cardinality(Carrying) <= Cardinality(Conns)
        BY DEF StreamTypeInv, StreamTypes, OnceEach
      <3> QED BY <3>1, ConnsFinite
    <2>2. received \in [Subscribers -> 0 .. Cardinality(Conns)]
      BY <2>1 DEF StreamTypeInv, StreamTypes
    <2> QED
      BY <2>2 DEF StreamTypeInv, StreamTypes, ReadingIsTrue, TypeOK
  <1> QED
    BY <1>1, <1>2, InitStreamTypes, PTL DEF Spec
=============================================================================
