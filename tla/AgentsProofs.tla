---------------------------- MODULE AgentsProofs ----------------------------
(***************************************************************************)
(* Theorems about Agents.  TypeOK and WaitersWait are inductive together,  *)
(* RegisteredIsOurs and NoInventedApproval on top of them, whatever        *)
(* overlaps.  NoLeak and PendingIsWatched need that nothing overlaps an    *)
(* attach; AttachesApart is what makes them inductive.                     *)
(***************************************************************************)
EXTENDS Agents, TLAPS

-----------------------------------------------------------------------------
(* Types *)

LEMMA InitTypes == Init => TypeOK
  BY DEF Init, TypeOK, Call, Request, FreeCall, NoRequest, Stages, Outcomes, Behaviors

LEMMA FreeCallType == FreeCall \in Call
  BY DEF FreeCall, Call, Stages

\* What detach does to the Map and to the calls, in types.
LEMMA DetachedTypes ==
  ASSUME TypeOK, NEW C \in SUBSET ConnIds, Detached(C)
  PROVE  byConn' \in [ConnIds -> Calls \cup {Nil}] /\ call' \in [Calls -> Call]
  BY FreeCallType DEF TypeOK, Detached

\* Settling a waiter or releasing them all keeps the broker well-formed.
LEMMA SettleTypes ==
  ASSUME TypeOK, NEW r \in Requests, NEW outcome \in Outcomes,
         request[r].id \in RequestIds, Settle(r, outcome)
  PROVE  waiters' \in [RequestIds -> Requests \cup {Nil}] /\ request' \in [Requests -> Request]
  <1>1. waiters' \in [RequestIds -> Requests \cup {Nil}]
    BY DEF TypeOK, Settle
  <1>2. ASSUME NEW q \in Requests
        PROVE  LET w == waiters[request[r].id]
               IN  [request[q] EXCEPT !.outcome = IF q = r THEN outcome ELSE @,
                                      !.timer = @ /\ q \notin {r, w}] \in Request
    <2>1. request[q] \in Request
      BY DEF TypeOK
    <2> QED
      BY <2>1 DEF Request
  <1> QED
    BY <1>1, <1>2 DEF Settle

LEMMA ReleaseTypes ==
  ASSUME TypeOK, ReleaseAll
  PROVE  waiters' \in [RequestIds -> Requests \cup {Nil}] /\ request' \in [Requests -> Request]
                  /\ tapped' = tapped
  <1>1. waiters' \in [RequestIds -> Requests \cup {Nil}] /\ tapped' = tapped
    BY DEF TypeOK, ReleaseAll
  <1>2. ASSUME NEW r \in Requests
        PROVE  [request[r] EXCEPT !.outcome = "unanswered", !.timer = FALSE] \in Request
    <2>1. request[r] \in Request
      BY DEF TypeOK
    <2> QED
      BY <2>1 DEF Request, Outcomes
  <1> QED
    BY <1>1, <1>2 DEF ReleaseAll, TypeOK

LEMMA ReleasedTypes ==
  ASSUME TypeOK, NEW C \in SUBSET ConnIds, ReleasedUnlessWatched(C)
  PROVE  waiters' \in [RequestIds -> Requests \cup {Nil}] /\ request' \in [Requests -> Request]
                  /\ tapped' = tapped
  BY ReleaseTypes DEF TypeOK, ReleasedUnlessWatched, permissionVars

-----------------------------------------------------------------------------
(* The broker *)

BrokerInv == TypeOK /\ WaitersWait

LEMMA InitBroker == Init => WaitersWait
  BY NilAssumption DEF Init, WaitersWait, NoRequest

\* Settling removes the one waiter filed under the id of r.
LEMMA SettleWaiters ==
  ASSUME BrokerInv, NEW r \in Requests, NEW outcome \in Outcomes,
         request[r].id \in RequestIds, Settle(r, outcome)
  PROVE  WaitersWait'
  <1> DEFINE w == waiters[request[r].id]
  <1> USE DEF BrokerInv
  <1>1. \A q \in Requests : /\ request'[q].id = request[q].id
                            /\ request'[q].timer => request[q].timer
    <2>1. ASSUME NEW q \in Requests
          PROVE  request'[q].id = request[q].id /\ (request'[q].timer => request[q].timer)
      <3>1. request[q] \in Request
        BY DEF TypeOK
      <3>2. request'[q] = [request[q] EXCEPT !.outcome = IF q = r THEN outcome ELSE @,
                                             !.timer = @ /\ q \notin {r, w}]
        BY DEF Settle
      <3> QED
        BY <3>1, <3>2 DEF Request
    <2> QED
      BY <2>1
  <1>2. ASSUME NEW i \in RequestIds, waiters'[i] # Nil
        PROVE  /\ request'[waiters'[i]].id = i
               /\ request'[waiters'[i]].outcome = "waiting"
               /\ request'[waiters'[i]].timer
    <2>1. i # request[r].id /\ waiters'[i] = waiters[i] /\ waiters[i] \in Requests
      BY <1>2 DEF Settle, TypeOK
    <2>2. request[waiters[i]].id = i /\ request[waiters[i]].outcome = "waiting"
          /\ request[waiters[i]].timer
      BY <1>2, <2>1 DEF WaitersWait
    <2>3. waiters[i] # r
      BY <2>1, <2>2
    <2>4. w \in Requests /\ request[w].id = request[r].id
      BY DEF Settle, WaitersWait, TypeOK
    <2>5. waiters[i] # w
      BY <2>1, <2>2, <2>4
    <2>6. request'[waiters[i]] = [request[waiters[i]] EXCEPT
              !.outcome = IF waiters[i] = r THEN outcome ELSE @,
              !.timer = @ /\ waiters[i] \notin {r, w}]
      BY <2>1 DEF Settle
    <2>7. request[waiters[i]] \in Request
      BY <2>1 DEF TypeOK
    <2> QED
      BY <2>1, <2>2, <2>3, <2>5, <2>6, <2>7 DEF Request
  <1> QED
    BY <1>1, <1>2 DEF WaitersWait

LEMMA ReleaseWaiters ==
  ASSUME BrokerInv, ReleaseAll
  PROVE  WaitersWait'
  <1>1. ASSUME NEW r \in Requests
        PROVE  request'[r].id = request[r].id /\ (request'[r].timer => request[r].timer)
    BY DEF ReleaseAll, BrokerInv, TypeOK, Request
  <1>2. \A i \in RequestIds : waiters'[i] = Nil
    BY DEF ReleaseAll
  <1> QED
    BY <1>1, <1>2 DEF WaitersWait, BrokerInv

\* The broker changes by a settle, a release, a request or not at all.
LEMMA BrokerShape ==
  ASSUME BrokerInv, Next
  PROVE  \/ ReleaseAll
         \/ UNCHANGED permissionVars
         \/ \E r \in Requests, b \in Behaviors :
               /\ request[r].id \in RequestIds
               /\ Settle(r, b)
               /\ tapped' = tapped \cup {<<r, b>>}
         \/ \E r \in Requests : /\ request[r].id \in RequestIds
                                /\ Settle(r, "unanswered")
                                /\ UNCHANGED tapped
         \/ \E r \in Requests : /\ request[r].timer
                                /\ waiters[request[r].id] = Nil
                                /\ request' = [request EXCEPT ![r].timer = FALSE]
                                /\ UNCHANGED <<waiters, tapped>>
         \/ \E r \in Requests, i \in RequestIds, s \in AgentSessions : HookRequest(r, i, s)
  <1> USE DEF BrokerInv
  <1>1. ASSUME NEW c \in ConnIds, Join(c) \/ Leave(c) \/ Detach(c)
        PROVE  ReleaseAll \/ UNCHANGED permissionVars
    BY <1>1 DEF Join, Leave, Detach, ReleasedUnlessWatched
  <1>2. ASSUME UplinkDown \/ Shutdown
        PROVE  ReleaseAll \/ UNCHANGED permissionVars
    BY <1>2 DEF UplinkDown, Shutdown, TeardownAll, ReleasedUnlessWatched
  <1>3. ASSUME NEW c \in ConnIds, NEW s \in AgentSessions, AttachStart(c, s)
        PROVE  UNCHANGED permissionVars
    BY <1>3 DEF AttachStart
  <1>4. ASSUME NEW a \in Calls, AttachHistory(a) \/ AttachSubscribed(a)
        PROVE  UNCHANGED permissionVars
    BY <1>4 DEF AttachHistory, AttachSubscribed
  <1>5. ASSUME NEW c \in ConnIds, NEW i \in RequestIds, NEW b \in Behaviors, Answer(c, i, b)
        PROVE  \E r \in Requests, d \in Behaviors :
                  /\ request[r].id \in RequestIds
                  /\ Settle(r, d)
                  /\ tapped' = tapped \cup {<<r, d>>}
    <2>1. waiters[i] \in Requests /\ request[waiters[i]].id = i
      BY <1>5 DEF Answer, TypeOK, WaitersWait
    <2> QED
      BY <1>5, <2>1 DEF Answer
  <1>6. ASSUME NEW r \in Requests, TimerFires(r)
        PROVE  \/ /\ request[r].id \in RequestIds
                  /\ Settle(r, "unanswered")
                  /\ UNCHANGED tapped
               \/ /\ request[r].timer
                  /\ waiters[request[r].id] = Nil
                  /\ request' = [request EXCEPT ![r].timer = FALSE]
                  /\ UNCHANGED <<waiters, tapped>>
    BY <1>6 DEF TimerFires, WaitersWait
  <1> QED
    BY <1>1, <1>2, <1>3, <1>4, <1>5, <1>6 DEF Next, ClientEvent, AttachStep, HookStep

\* A timer that finds no waiter is the only other change.
LEMMA IdleTimer ==
  ASSUME BrokerInv, NEW r \in Requests, request[r].timer, waiters[request[r].id] = Nil,
         request' = [request EXCEPT ![r].timer = FALSE], UNCHANGED <<waiters, tapped>>
  PROVE  WaitersWait' /\ request' \in [Requests -> Request]
  <1> USE DEF BrokerInv
  <1>1. request[r] \in Request /\ request[r].id \in RequestIds
    BY DEF TypeOK, WaitersWait
  <1>2. [request[r] EXCEPT !.timer = FALSE] \in Request
    BY <1>1 DEF Request
  <1>3. request' \in [Requests -> Request]
    BY <1>2 DEF TypeOK
  <1>4. ASSUME NEW i \in RequestIds, waiters[i] # Nil
        PROVE  request'[waiters[i]] = request[waiters[i]]
    <2>1. waiters[i] # r
      BY <1>4 DEF WaitersWait
    <2> QED
      BY <1>4, <2>1 DEF TypeOK
  <1>5. \A q \in Requests : request'[q].timer => request[q].timer /\ request'[q].id = request[q].id
    BY <1>1 DEF TypeOK, Request
  <1> QED
    BY <1>3, <1>4, <1>5 DEF WaitersWait

\* A hook request is filed under its id, in the place of whoever was there.
LEMMA HookBroker ==
  ASSUME BrokerInv, NEW r \in Requests, NEW i \in RequestIds, NEW s \in AgentSessions,
         HookRequest(r, i, s)
  PROVE  /\ WaitersWait'
         /\ waiters' \in [RequestIds -> Requests \cup {Nil}]
         /\ request' \in [Requests -> Request]
  <1> DEFINE fresh == [id |-> i, session |-> s, outcome |-> "waiting", timer |-> TRUE]
  <1> USE DEF BrokerInv
  <1>1. fresh \in Request
    BY DEF Request, Outcomes
  <1>2. waiters' = [waiters EXCEPT ![i] = r] /\ request' = [request EXCEPT ![r] = fresh]
    BY DEF HookRequest
  <1>3. waiters' \in [RequestIds -> Requests \cup {Nil}] /\ request' \in [Requests -> Request]
    BY <1>1, <1>2 DEF TypeOK
  <1>4. ASSUME NEW j \in RequestIds, waiters'[j] # Nil
        PROVE  /\ request'[waiters'[j]].id = j
               /\ request'[waiters'[j]].outcome = "waiting"
               /\ request'[waiters'[j]].timer
    <2>1. CASE j = i
      BY <1>2, <2>1 DEF TypeOK
    <2>2. CASE j # i
      <3>1. waiters'[j] = waiters[j] /\ waiters[j] \in Requests
        BY <1>2, <1>4, <2>2 DEF TypeOK
      <3>2. request[waiters[j]].outcome = "waiting"
        BY <1>4, <3>1 DEF WaitersWait
      <3>3. waiters[j] # r
        BY <3>2 DEF HookRequest
      <3> QED
        BY <1>2, <1>4, <3>1, <3>3 DEF WaitersWait, TypeOK
    <2> QED
      BY <2>1, <2>2
  <1>5. \A q \in Requests : request'[q].timer => request'[q].id \in RequestIds
    BY <1>2 DEF WaitersWait, TypeOK
  <1> QED
    BY <1>3, <1>4, <1>5 DEF WaitersWait

-----------------------------------------------------------------------------
(* AttachmentManager *)

\* The Map and the calls change by detaching some connections, by one of the
\* three steps of an attach, or not at all.
LEMMA AttachShape ==
  ASSUME TypeOK, Next
  PROVE  \/ \E C \in SUBSET ConnIds : Detached(C)
         \/ \E c \in ConnIds, s \in AgentSessions : AttachStart(c, s)
         \/ \E a \in Calls : AttachHistory(a) \/ AttachSubscribed(a)
         \/ UNCHANGED <<byConn, call>>
  <1>1. ASSUME NEW c \in ConnIds, Join(c) \/ Leave(c) \/ Detach(c)
        PROVE  Detached({c}) \/ UNCHANGED <<byConn, call>>
    BY <1>1 DEF Join, Leave, Detach
  <1>2. ASSUME UplinkDown \/ Shutdown
        PROVE  Detached(ConnIds)
    BY <1>2 DEF UplinkDown, Shutdown, TeardownAll
  <1>3. ASSUME NEW c \in ConnIds, NEW i \in RequestIds, NEW b \in Behaviors, Answer(c, i, b)
        PROVE  UNCHANGED <<byConn, call>>
    BY <1>3 DEF Answer, attachVars
  <1>4. ASSUME NEW r \in Requests, NEW i \in RequestIds, NEW s \in AgentSessions,
               TimerFires(r) \/ HookRequest(r, i, s)
        PROVE  UNCHANGED <<byConn, call>>
    BY <1>4 DEF TimerFires, HookRequest, attachVars
  <1>5. ASSUME NEW r \in Requests, TimerFires(r)
        PROVE  UNCHANGED <<byConn, call>>
    BY <1>5 DEF TimerFires, attachVars
  <1> QED
    BY <1>1, <1>2, <1>3, <1>4, <1>5 DEF Next, ClientEvent, AttachStep, HookStep

\* A call that is not free knows its connection.
LEMMA CallOwned ==
  ASSUME TypeOK, NEW a \in Calls
  PROVE  /\ call[a] # FreeCall => call[a].conn \in ConnIds /\ call[a].stage \in Stages
         /\ call[a].stage \in Stages => call[a] # FreeCall
         /\ \A st \in Stages : call[a] # FreeCall =>
               /\ [call[a] EXCEPT !.stage = st] \in Call
               /\ [call[a] EXCEPT !.stage = st].conn = call[a].conn
               /\ [call[a] EXCEPT !.stage = st].stage = st
               /\ [call[a] EXCEPT !.stage = st].session = call[a].session
  <1>1. call[a] \in Call
    BY DEF TypeOK
  <1> QED
    BY <1>1 DEF Call, FreeCall, Stages

\* The steps of an attach, spelled out.
LEMMA StartFacts ==
  ASSUME TypeOK, NEW c \in ConnIds, NEW s \in AgentSessions, AttachStart(c, s)
  PROVE  \E a \in Calls :
            /\ call[a] = FreeCall
            /\ call' \in [Calls -> Call]
            /\ call'[a].stage = "history" /\ call'[a].conn = c /\ call'[a].session = s
            /\ \A b \in Calls : b # a => call'[b] = call[b]
            /\ byConn' = byConn
  <1>1. PICK a \in Calls :
          /\ call[a].stage = "free"
          /\ call' = [call EXCEPT ![a] = [stage |-> "history", conn |-> c, session |-> s]]
    BY DEF AttachStart
  <1>2. call[a] = FreeCall
    <2>1. call[a] \in Call
      BY DEF TypeOK
    <2> QED
      BY <1>1, <2>1 DEF Call, Stages
  <1>3. [stage |-> "history", conn |-> c, session |-> s] \in Call
    BY DEF Call, Stages
  <1>4. call' \in [Calls -> Call]
    BY <1>1, <1>3 DEF TypeOK
  <1> QED
    BY <1>1, <1>2, <1>4 DEF TypeOK, AttachStart

LEMMA HistoryFacts ==
  ASSUME TypeOK, NEW a \in Calls, AttachHistory(a)
  PROVE  LET c == call[a].conn IN
         /\ c \in ConnIds
         /\ call[a].stage = "history"
         /\ byConn' \in [ConnIds -> Calls \cup {Nil}]
         /\ byConn'[c] = Nil
         /\ \A d \in ConnIds : d # c => byConn'[d] = byConn[d]
         /\ call' \in [Calls -> Call]
         /\ call'[a].stage = "subscribing" /\ call'[a].conn = c
         /\ call'[a].session = call[a].session
         /\ \A b \in Calls : b # a /\ b = byConn[c] => call'[b] = FreeCall
         /\ \A b \in Calls : b # a /\ b # byConn[c] => call'[b] = call[b]
  <1>1. call[a].stage = "history" /\ call[a].stage \in Stages /\ "subscribing" \in Stages
    BY DEF AttachHistory, Stages
  <1>2. call[a] # FreeCall /\ call[a].conn \in ConnIds
    BY <1>1, CallOwned
  <1>3. call'[a] = [call[a] EXCEPT !.stage = "subscribing"]
    BY DEF AttachHistory
  <1>4. call'[a] \in Call /\ call'[a].stage = "subscribing" /\ call'[a].conn = call[a].conn
        /\ call'[a].session = call[a].session
    BY <1>1, <1>2, <1>3, CallOwned
  <1>5. ASSUME NEW b \in Calls PROVE call'[b] \in Call
    BY <1>4, FreeCallType DEF AttachHistory, TypeOK
  <1>6. call' \in [Calls -> Call]
    BY <1>5 DEF AttachHistory
  <1> QED
    BY <1>1, <1>2, <1>4, <1>6 DEF AttachHistory, TypeOK

LEMMA SubscribedFacts ==
  ASSUME TypeOK, NEW a \in Calls, AttachSubscribed(a)
  PROVE  LET c == call[a].conn IN
         /\ c \in ConnIds
         /\ call[a].stage = "subscribing"
         /\ byConn' \in [ConnIds -> Calls \cup {Nil}]
         /\ byConn'[c] = a
         /\ \A d \in ConnIds : d # c => byConn'[d] = byConn[d]
         /\ call' \in [Calls -> Call]
         /\ call'[a].stage \in {"streaming", "mute"} /\ call'[a].conn = c
         /\ call'[a].session = call[a].session
         /\ \A b \in Calls : b # a /\ b # byConn[c] => call'[b] = call[b]
         /\ \A b \in Calls : b # a => call'[b] \in {call[b], FreeCall}
  <1>1. call[a].stage = "subscribing" /\ call[a].stage \in Stages /\ {"streaming", "mute"} \subseteq Stages
    BY DEF AttachSubscribed, Stages
  <1>2. call[a] # FreeCall /\ call[a].conn \in ConnIds
    BY <1>1, CallOwned
  <1>3. PICK stage \in {"streaming", "mute"} :
          call' = [b \in Calls |->
                      IF b = a THEN [call[a] EXCEPT !.stage = stage]
                      ELSE IF b = byConn[call[a].conn] /\ call[b].stage = "mute" THEN FreeCall
                      ELSE call[b]]
    BY DEF AttachSubscribed
  <1>4. call'[a] \in Call /\ call'[a].stage = stage /\ call'[a].conn = call[a].conn
        /\ call'[a].session = call[a].session
    BY <1>1, <1>2, <1>3, CallOwned
  <1>5. ASSUME NEW b \in Calls PROVE call'[b] \in Call
    BY <1>3, <1>4, FreeCallType DEF TypeOK
  <1>6. call' \in [Calls -> Call]
    BY <1>3, <1>5
  <1>7. byConn' = [byConn EXCEPT ![call[a].conn] = a]
    BY DEF AttachSubscribed
  <1> QED
    BY <1>1, <1>2, <1>3, <1>4, <1>6, <1>7 DEF TypeOK

-----------------------------------------------------------------------------
(* The type invariant, and the broker's Map *)

LEMMA OnlineStep ==
  ASSUME TypeOK, Next
  PROVE  online' \in SUBSET ConnIds /\ running' \in BOOLEAN
  <1> USE DEF TypeOK
  <1>1. ASSUME NEW c \in ConnIds, Join(c) \/ Leave(c) \/ Detach(c)
        PROVE  online' \in SUBSET ConnIds /\ running' \in BOOLEAN
    BY <1>1 DEF Join, Leave, Detach
  <1>2. ASSUME UplinkDown \/ Shutdown
        PROVE  online' \in SUBSET ConnIds /\ running' \in BOOLEAN
    BY <1>2 DEF UplinkDown, Shutdown, TeardownAll
  <1>3. ASSUME NEW c \in ConnIds, NEW s \in AgentSessions, AttachStart(c, s)
        PROVE  online' \in SUBSET ConnIds /\ running' \in BOOLEAN
    BY <1>3 DEF AttachStart
  <1>4. ASSUME NEW a \in Calls, AttachHistory(a) \/ AttachSubscribed(a)
        PROVE  online' \in SUBSET ConnIds /\ running' \in BOOLEAN
    BY <1>4 DEF AttachHistory, AttachSubscribed
  <1>5. ASSUME NEW c \in ConnIds, NEW i \in RequestIds, NEW b \in Behaviors, Answer(c, i, b)
        PROVE  online' \in SUBSET ConnIds /\ running' \in BOOLEAN
    BY <1>5 DEF Answer, attachVars
  <1>6. ASSUME NEW r \in Requests, TimerFires(r) \/ \E i \in RequestIds, s \in AgentSessions : HookRequest(r, i, s)
        PROVE  online' \in SUBSET ConnIds /\ running' \in BOOLEAN
    BY <1>6 DEF TimerFires, HookRequest, attachVars
  <1> QED
    BY <1>1, <1>2, <1>3, <1>4, <1>5, <1>6 DEF Next, ClientEvent, AttachStep, HookStep

LEMMA AttachTypesStep ==
  ASSUME TypeOK, Next
  PROVE  byConn' \in [ConnIds -> Calls \cup {Nil}] /\ call' \in [Calls -> Call]
  <1>1. ASSUME NEW c \in ConnIds, NEW s \in AgentSessions, AttachStart(c, s)
        PROVE  byConn' = byConn /\ call' \in [Calls -> Call]
    BY <1>1, StartFacts
  <1>2. ASSUME NEW a \in Calls, AttachHistory(a) \/ AttachSubscribed(a)
        PROVE  byConn' \in [ConnIds -> Calls \cup {Nil}] /\ call' \in [Calls -> Call]
    BY <1>2, HistoryFacts, SubscribedFacts
  <1> QED
    BY <1>1, <1>2, AttachShape, DetachedTypes DEF TypeOK

LEMMA BrokerStep ==
  ASSUME BrokerInv, Next
  PROVE  /\ WaitersWait'
         /\ waiters' \in [RequestIds -> Requests \cup {Nil}]
         /\ request' \in [Requests -> Request]
         /\ tapped' \subseteq Requests \X Behaviors
  <1> USE DEF BrokerInv
  <1>0. TypeOK /\ WaitersWait /\ Behaviors \subseteq Outcomes /\ "unanswered" \in Outcomes
    BY DEF Outcomes
  <1>1. CASE ReleaseAll
    BY <1>1, ReleaseTypes, ReleaseWaiters DEF TypeOK
  <1>2. CASE UNCHANGED permissionVars
    BY <1>2 DEF permissionVars, TypeOK, WaitersWait
  <1>3. ASSUME NEW r \in Requests, NEW b \in Behaviors, request[r].id \in RequestIds,
               Settle(r, b), tapped' = tapped \cup {<<r, b>>}
        PROVE  /\ WaitersWait'
               /\ waiters' \in [RequestIds -> Requests \cup {Nil}]
               /\ request' \in [Requests -> Request]
               /\ tapped' \subseteq Requests \X Behaviors
    <2>1. b \in Outcomes
      BY <1>0
    <2>2. tapped' \subseteq Requests \X Behaviors
      BY <1>3 DEF TypeOK
    <2> QED
      BY <1>3, <2>1, <2>2, SettleTypes, SettleWaiters
  <1>4. ASSUME NEW r \in Requests, request[r].id \in RequestIds,
               Settle(r, "unanswered"), UNCHANGED tapped
        PROVE  /\ WaitersWait'
               /\ waiters' \in [RequestIds -> Requests \cup {Nil}]
               /\ request' \in [Requests -> Request]
               /\ tapped' \subseteq Requests \X Behaviors
    <2>1. tapped' \subseteq Requests \X Behaviors
      BY <1>4 DEF TypeOK
    <2> QED
      BY <1>0, <1>4, <2>1, SettleTypes, SettleWaiters
  <1>5. ASSUME NEW r \in Requests, request[r].timer, waiters[request[r].id] = Nil,
               request' = [request EXCEPT ![r].timer = FALSE], UNCHANGED <<waiters, tapped>>
        PROVE  /\ WaitersWait'
               /\ waiters' \in [RequestIds -> Requests \cup {Nil}]
               /\ request' \in [Requests -> Request]
               /\ tapped' \subseteq Requests \X Behaviors
    <2>1. WaitersWait' /\ request' \in [Requests -> Request]
      BY <1>5, IdleTimer
    <2> QED
      BY <1>5, <2>1 DEF TypeOK
  <1>6. ASSUME NEW r \in Requests, NEW i \in RequestIds, NEW s \in AgentSessions, HookRequest(r, i, s)
        PROVE  /\ WaitersWait'
               /\ waiters' \in [RequestIds -> Requests \cup {Nil}]
               /\ request' \in [Requests -> Request]
               /\ tapped' \subseteq Requests \X Behaviors
    <2>1. tapped' = tapped
      BY <1>6 DEF HookRequest
    <2> QED
      BY <1>6, <2>1, HookBroker DEF TypeOK
  <1> QED
    BY <1>1, <1>2, <1>3, <1>4, <1>5, <1>6, BrokerShape

LEMMA BrokerInvariant == Spec => []BrokerInv
  <1>1. Init => BrokerInv
    BY InitTypes, InitBroker DEF BrokerInv
  <1>2. BrokerInv /\ [Next]_vars => BrokerInv'
    <2> SUFFICES ASSUME BrokerInv, [Next]_vars PROVE BrokerInv'
      OBVIOUS
    <2>1. CASE Next
      <3>1. TypeOK
        BY DEF BrokerInv
      <3> QED
        BY <2>1, <3>1, OnlineStep, AttachTypesStep, BrokerStep DEF BrokerInv, TypeOK
    <2>2. CASE UNCHANGED vars
      BY <2>2 DEF vars, BrokerInv, TypeOK, WaitersWait
    <2> QED
      BY <2>1, <2>2
  <1> QED
    BY <1>1, <1>2, PTL DEF Spec

\* Every reachable state is well-formed, for any number of connections,
\* sessions, calls and requests (attachments.ts, permission-broker.ts).
THEOREM TypeCorrect == Spec => []TypeOK
  BY BrokerInvariant, PTL DEF BrokerInv

\* The broker's Map holds requests that wait, each under its own id and with
\* its timer armed, even when ids are given out twice (permission-broker.ts).
THEOREM WaitersAreWaiting == Spec => []WaitersWait
  BY BrokerInvariant, PTL DEF BrokerInv

-----------------------------------------------------------------------------
(* What is registered, and what is approved *)

LEMMA RegisteredStep ==
  ASSUME TypeOK, RegisteredIsOurs, Next
  PROVE  RegisteredIsOurs'
  <1> SUFFICES ASSUME NEW c \in ConnIds, byConn'[c] # Nil
               PROVE  /\ call'[byConn'[c]].conn = c
                      /\ call'[byConn'[c]].stage \in {"streaming", "mute"}
    BY DEF RegisteredIsOurs
  <1>0. byConn[c] # Nil => /\ byConn[c] \in Calls
                           /\ call[byConn[c]].conn = c
                           /\ call[byConn[c]].stage \in {"streaming", "mute"}
    BY DEF TypeOK, RegisteredIsOurs
  <1>1. ASSUME NEW C \in SUBSET ConnIds, Detached(C)
        PROVE  /\ call'[byConn'[c]].conn = c
               /\ call'[byConn'[c]].stage \in {"streaming", "mute"}
    <2>1. c \notin C /\ byConn'[c] = byConn[c]
      BY <1>1 DEF Detached
    <2>2. \A d \in C : byConn[d] # byConn[c]
      BY <1>0, <2>1 DEF RegisteredIsOurs
    <2> QED
      BY <1>0, <1>1, <2>1, <2>2 DEF Detached
  <1>2. ASSUME NEW d \in ConnIds, NEW s \in AgentSessions, AttachStart(d, s)
        PROVE  /\ call'[byConn'[c]].conn = c
               /\ call'[byConn'[c]].stage \in {"streaming", "mute"}
    <2>1. PICK a \in Calls : /\ call[a] = FreeCall
                             /\ \A b \in Calls : b # a => call'[b] = call[b]
                             /\ byConn' = byConn
      BY <1>2, StartFacts
    <2> QED
      BY <1>0, <2>1 DEF FreeCall
  <1>3. ASSUME NEW a \in Calls, AttachHistory(a)
        PROVE  /\ call'[byConn'[c]].conn = c
               /\ call'[byConn'[c]].stage \in {"streaming", "mute"}
    <2> DEFINE e == call[a].conn
    <2>1. /\ call[a].stage = "history" /\ byConn'[e] = Nil
          /\ \A d \in ConnIds : d # e => byConn'[d] = byConn[d]
          /\ \A b \in Calls : b # a /\ b # byConn[e] => call'[b] = call[b]
          /\ e \in ConnIds
      BY <1>3, HistoryFacts
    <2>2. c # e /\ byConn'[c] = byConn[c] /\ byConn[c] # a
      BY <1>0, <2>1
    <2>3. byConn[c] # byConn[e]
      BY <1>0, <2>1, <2>2 DEF RegisteredIsOurs
    <2> QED
      BY <1>0, <2>1, <2>2, <2>3
  <1>4. ASSUME NEW a \in Calls, AttachSubscribed(a)
        PROVE  /\ call'[byConn'[c]].conn = c
               /\ call'[byConn'[c]].stage \in {"streaming", "mute"}
    <2> DEFINE e == call[a].conn
    <2>1. /\ call[a].stage = "subscribing" /\ byConn'[e] = a
          /\ \A d \in ConnIds : d # e => byConn'[d] = byConn[d]
          /\ \A b \in Calls : b # a /\ b # byConn[e] => call'[b] = call[b]
          /\ call'[a].stage \in {"streaming", "mute"} /\ call'[a].conn = e
          /\ e \in ConnIds
      BY <1>4, SubscribedFacts
    <2>2. CASE c = e
      BY <2>1, <2>2
    <2>3. CASE c # e
      <3>1. byConn'[c] = byConn[c] /\ byConn[c] # a
        BY <1>0, <2>1, <2>3
      <3>2. byConn[c] # byConn[e]
        BY <1>0, <2>1, <2>3, <3>1 DEF RegisteredIsOurs
      <3> QED
        BY <1>0, <2>1, <3>1, <3>2
    <2> QED
      BY <2>2, <2>3
  <1>5. CASE UNCHANGED <<byConn, call>>
    BY <1>0, <1>5
  <1> QED
    BY <1>1, <1>2, <1>3, <1>4, <1>5, AttachShape

\* What a connection is registered for is its own call and has not been
\* stopped, whatever overlaps (attachments.ts:26-49).
THEOREM RegisteredCalls == Spec => []RegisteredIsOurs
  <1>1. Init => RegisteredIsOurs
    BY DEF Init, RegisteredIsOurs
  <1>2. TypeOK /\ RegisteredIsOurs /\ [Next]_vars => RegisteredIsOurs'
    <2> SUFFICES ASSUME TypeOK, RegisteredIsOurs, [Next]_vars PROVE RegisteredIsOurs'
      OBVIOUS
    <2>1. CASE Next
      BY <2>1, RegisteredStep
    <2>2. CASE UNCHANGED vars
      BY <2>2 DEF vars, RegisteredIsOurs
    <2> QED
      BY <2>1, <2>2
  <1> QED
    BY <1>1, <1>2, TypeCorrect, PTL DEF Spec

\* Settling r leaves the outcome of the other requests alone.
LEMMA SettleOutcomes ==
  ASSUME TypeOK, NEW r \in Requests, NEW outcome \in Outcomes, Settle(r, outcome)
  PROVE  \A q \in Requests : request'[q].outcome = IF q = r THEN outcome ELSE request[q].outcome
  <1> SUFFICES ASSUME NEW q \in Requests
               PROVE  request'[q].outcome = IF q = r THEN outcome ELSE request[q].outcome
    OBVIOUS
  <1>1. request[q] \in Request
    BY DEF TypeOK
  <1> QED
    BY <1>1 DEF Settle, Request

LEMMA ApprovalStep ==
  ASSUME BrokerInv, NoInventedApproval, Next
  PROVE  NoInventedApproval'
  <1> SUFFICES ASSUME NEW q \in Requests, request'[q].outcome \in Behaviors
               PROVE  <<q, request'[q].outcome>> \in tapped'
    BY DEF NoInventedApproval
  <1>0. /\ TypeOK /\ Behaviors \subseteq Outcomes /\ "unanswered" \in Outcomes
        /\ "unanswered" \notin Behaviors /\ "waiting" \notin Behaviors
        /\ request[q] \in Request
        /\ request[q].outcome \in Behaviors => <<q, request[q].outcome>> \in tapped
    BY DEF BrokerInv, TypeOK, Outcomes, Behaviors, NoInventedApproval
  <1>1. CASE ReleaseAll
    <2>1. request'[q].outcome \in {"unanswered", request[q].outcome} /\ tapped' = tapped
      BY <1>0, <1>1 DEF ReleaseAll, Request
    <2> QED
      BY <1>0, <2>1
  <1>2. CASE UNCHANGED permissionVars
    BY <1>0, <1>2 DEF permissionVars
  <1>3. ASSUME NEW r \in Requests, NEW b \in Behaviors, request[r].id \in RequestIds,
               Settle(r, b), tapped' = tapped \cup {<<r, b>>}
        PROVE  <<q, request'[q].outcome>> \in tapped'
    <2>1. b \in Outcomes
      BY <1>0
    <2>2. request'[q].outcome = IF q = r THEN b ELSE request[q].outcome
      BY <1>0, <1>3, <2>1, SettleOutcomes
    <2> QED
      BY <1>0, <1>3, <2>2
  <1>4. ASSUME NEW r \in Requests, Settle(r, "unanswered"), UNCHANGED tapped
        PROVE  <<q, request'[q].outcome>> \in tapped'
    <2>1. request'[q].outcome = IF q = r THEN "unanswered" ELSE request[q].outcome
      BY <1>0, <1>4, SettleOutcomes
    <2> QED
      BY <1>0, <1>4, <2>1
  <1>5. ASSUME NEW r \in Requests,
               request' = [request EXCEPT ![r].timer = FALSE], UNCHANGED <<waiters, tapped>>
        PROVE  <<q, request'[q].outcome>> \in tapped'
    <2>1. request'[q].outcome = request[q].outcome
      BY <1>0, <1>5 DEF BrokerInv, TypeOK, Request
    <2> QED
      BY <1>0, <1>5, <2>1
  <1>6. ASSUME NEW r \in Requests, NEW i \in RequestIds, NEW s \in AgentSessions, HookRequest(r, i, s)
        PROVE  <<q, request'[q].outcome>> \in tapped'
    <2>1. request'[q].outcome = IF q = r THEN "waiting" ELSE request[q].outcome
      BY <1>0, <1>6 DEF HookRequest, TypeOK
    <2> QED
      BY <1>0, <1>6, <2>1 DEF HookRequest
  <1> QED
    BY <1>1, <1>2, <1>3, <1>4, <1>5, <1>6, BrokerShape

\* The broker never invents an approval: allow and deny are what a phone
\* answered while that very request was open, for any number of phones, any
\* timeouts and detaches, and even when two requests share an id
\* (permission-broker.ts:19-25).
THEOREM NoApprovalInvented == Spec => []NoInventedApproval
  <1>1. Init => NoInventedApproval
    BY DEF Init, NoInventedApproval, NoRequest, Behaviors
  <1>2. BrokerInv /\ NoInventedApproval /\ [Next]_vars => NoInventedApproval'
    <2> SUFFICES ASSUME BrokerInv, NoInventedApproval, [Next]_vars PROVE NoInventedApproval'
      OBVIOUS
    <2>1. CASE Next
      BY <2>1, ApprovalStep
    <2>2. CASE UNCHANGED vars
      BY <2>2 DEF vars, NoInventedApproval
    <2> QED
      BY <2>1, <2>2
  <1> QED
    BY <1>1, <1>2, BrokerInvariant, PTL DEF Spec

-----------------------------------------------------------------------------
(* Nothing is lost when nothing overlaps an attach *)

PatientInv ==
    TypeOK /\ RegisteredIsOurs /\ AttachesApart /\ NoLeak /\ PendingIsWatched

\* Detaching connections without an attach in flight keeps the attachments in
\* order, as long as only those connections may go offline.
LEMMA DetachedKeeps ==
  ASSUME PatientInv, NEW C \in SUBSET ConnIds, Detached(C),
         \A a \in Calls : InFlight(a) => call[a].conn \notin C,
         online \ C \subseteq online'
  PROVE  AttachesApart' /\ NoLeak'
  <1> USE DEF PatientInv
  <1>1. \A a \in Calls : \/ call'[a] = FreeCall /\ \E c \in C : byConn[c] = a
                         \/ call'[a] = call[a] /\ \A c \in C : byConn[c] # a
    <2> SUFFICES ASSUME NEW a \in Calls
                 PROVE  \/ call'[a] = FreeCall /\ \E c \in C : byConn[c] = a
                        \/ call'[a] = call[a] /\ \A c \in C : byConn[c] # a
      OBVIOUS
    <2>1. call'[a] = IF \E c \in C : byConn[c] = a THEN FreeCall ELSE call[a]
      BY DEF Detached
    <2> QED
      BY <2>1
  <1>2. \A c \in ConnIds : IF c \in C THEN byConn'[c] = Nil ELSE byConn'[c] = byConn[c]
    BY DEF Detached
  <1>3. FreeCall.stage = "free" /\ \A a \in Calls : call[a].stage \in Stages => call[a].conn \in ConnIds
    BY CallOwned DEF FreeCall
  <1>4. AttachesApart'
    <2>1. ASSUME NEW a \in Calls, call'[a].stage \in {"history", "subscribing"}
          PROVE  call'[a] = call[a] /\ InFlight(a) /\ call[a].conn \in online
                 /\ call[a].conn \notin C /\ call[a].conn \in ConnIds
      BY <1>1, <1>3, <2>1 DEF AttachesApart, InFlight, Stages
    <2> SUFFICES ASSUME NEW a \in Calls, call'[a].stage \in {"history", "subscribing"}
                 PROVE  /\ call'[a].conn \in online'
                        /\ \A b \in Calls : call'[b].stage \in {"history", "subscribing"}
                                             /\ call'[b].conn = call'[a].conn => b = a
                        /\ call'[a].stage = "subscribing" => byConn'[call'[a].conn] = Nil
      BY DEF AttachesApart, InFlight
    <2> QED
      BY <1>2, <2>1 DEF AttachesApart
  <1>5. StreamRegistered'
    <2> SUFFICES ASSUME NEW a \in Calls, call'[a].stage = "streaming"
                 PROVE  byConn'[call'[a].conn] = a
      BY DEF StreamRegistered
    <2>1. call'[a] = call[a] /\ call[a].conn \in ConnIds /\ \A c \in C : byConn[c] # a
      BY <1>1, <1>3 DEF Stages
    <2>2. byConn[call[a].conn] = a
      BY <2>1 DEF NoLeak, StreamRegistered
    <2> QED
      BY <1>2, <2>1, <2>2
  <1>6. WatcherOnline'
    BY <1>2 DEF WatcherOnline, NoLeak
  <1> QED
    BY <1>4, <1>5, <1>6 DEF NoLeak

\* Releasing what is pending when the last watcher goes keeps approvals watched.
LEMMA ReleasedKeeps ==
  ASSUME PatientInv, NEW c \in ConnIds, Detached({c}), ReleasedUnlessWatched({c}),
         online \ {c} \subseteq online'
  PROVE  PendingIsWatched'
  <1> USE DEF PatientInv
  <1>1. CASE ReleaseAll
    BY <1>1 DEF ReleaseAll, PendingIsWatched
  <1>2. CASE WatchedOutside({c}) # {}
    <2>1. PICK d \in ConnIds : d # c /\ byConn[d] # Nil
      BY <1>2 DEF WatchedOutside
    <2>2. byConn'[d] # Nil /\ d \in online'
      BY <2>1 DEF Detached, NoLeak, WatcherOnline
    <2> QED
      BY <2>2 DEF PendingIsWatched
  <1> QED
    BY <1>1, <1>2 DEF ReleasedUnlessWatched

LEMMA JoinPatient ==
  ASSUME Overlap = FALSE, PatientInv, NEW c \in ConnIds, Join(c)
  PROVE  AttachesApart' /\ NoLeak' /\ PendingIsWatched'
  <1>1. CASE c \in online
    <2>1. Detached({c}) /\ ReleasedUnlessWatched({c}) /\ online \ {c} \subseteq online'
      BY <1>1 DEF Join
    <2>2. \A a \in Calls : InFlight(a) => call[a].conn \notin {c}
      BY <1>1 DEF Join, Settled
    <2>3. {c} \in SUBSET ConnIds
      OBVIOUS
    <2> QED
      BY <2>1, <2>2, <2>3, DetachedKeeps, ReleasedKeeps
  <1>2. CASE c \notin online
    <2>1. online \subseteq online' /\ UNCHANGED <<byConn, call, waiters>>
      BY <1>2 DEF Join, permissionVars
    <2> QED
      BY <2>1 DEF PatientInv, AttachesApart, NoLeak, StreamRegistered, WatcherOnline,
                  PendingIsWatched, InFlight
  <1> QED
    BY <1>1, <1>2

LEMMA LeavePatient ==
  ASSUME Overlap = FALSE, PatientInv, NEW c \in ConnIds, Leave(c) \/ Detach(c)
  PROVE  AttachesApart' /\ NoLeak' /\ PendingIsWatched'
  <1>1. Detached({c}) /\ ReleasedUnlessWatched({c}) /\ online \ {c} \subseteq online'
    BY DEF Leave, Detach
  <1>2. \A a \in Calls : InFlight(a) => call[a].conn \notin {c}
    BY DEF Leave, Detach, Settled
  <1>3. {c} \in SUBSET ConnIds
    OBVIOUS
  <1> QED
    BY <1>1, <1>2, <1>3, DetachedKeeps, ReleasedKeeps

LEMMA TeardownPatient ==
  ASSUME Overlap = FALSE, PatientInv, TeardownAll
  PROVE  AttachesApart' /\ NoLeak' /\ PendingIsWatched'
  <1>1. Detached(ConnIds) /\ ReleasedUnlessWatched(online) /\ online' = {}
    BY DEF TeardownAll
  <1>2. \A a \in Calls : InFlight(a) => call[a].conn \notin ConnIds
    BY DEF TeardownAll, Settled
  <1>3. ConnIds \in SUBSET ConnIds /\ online \ ConnIds \subseteq online'
    BY DEF PatientInv, TypeOK
  <1>4. AttachesApart' /\ NoLeak'
    BY <1>1, <1>2, <1>3, DetachedKeeps
  <1>5. CASE ReleaseAll
    BY <1>4, <1>5 DEF ReleaseAll, PendingIsWatched
  <1>6. CASE online = {} /\ UNCHANGED permissionVars
    BY <1>1, <1>4, <1>6 DEF PatientInv, PendingIsWatched, permissionVars
  <1>7. WatchedOutside(online) = {}
    BY DEF PatientInv, NoLeak, WatcherOnline, WatchedOutside
  <1> QED
    BY <1>1, <1>4, <1>5, <1>6, <1>7 DEF ReleasedUnlessWatched

LEMMA StartPatient ==
  ASSUME Overlap = FALSE, PatientInv, NEW c \in ConnIds, NEW s \in AgentSessions, AttachStart(c, s)
  PROVE  AttachesApart' /\ NoLeak' /\ PendingIsWatched'
  <1> USE DEF PatientInv
  <1>1. PICK a \in Calls :
          /\ call[a] = FreeCall
          /\ call'[a].stage = "history" /\ call'[a].conn = c
          /\ \A b \in Calls : b # a => call'[b] = call[b]
          /\ byConn' = byConn
    BY StartFacts
  <1>2. /\ c \in online /\ online' = online /\ waiters' = waiters
        /\ \A b \in Calls : InFlight(b) => call[b].conn # c
    BY DEF AttachStart, Settled, permissionVars
  <1>3. FreeCall.stage = "free"
    BY DEF FreeCall
  <1>4. AttachesApart'
    BY <1>1, <1>2, <1>3 DEF AttachesApart, InFlight
  <1>5. NoLeak'
    BY <1>1, <1>2, <1>3 DEF NoLeak, StreamRegistered, WatcherOnline
  <1>6. PendingIsWatched'
    BY <1>1, <1>2, <1>3 DEF PendingIsWatched, InFlight
  <1> QED
    BY <1>4, <1>5, <1>6

LEMMA HistoryPatient ==
  ASSUME PatientInv, NEW a \in Calls, AttachHistory(a)
  PROVE  AttachesApart' /\ NoLeak' /\ PendingIsWatched'
  <1> USE DEF PatientInv
  <1> DEFINE c == call[a].conn
  <1>1. /\ c \in ConnIds
        /\ call[a].stage = "history"
        /\ byConn'[c] = Nil
        /\ \A d \in ConnIds : d # c => byConn'[d] = byConn[d]
        /\ call'[a].stage = "subscribing" /\ call'[a].conn = c
        /\ \A b \in Calls : b # a /\ b = byConn[c] => call'[b] = FreeCall
        /\ \A b \in Calls : b # a /\ b # byConn[c] => call'[b] = call[b]
    BY HistoryFacts
  <1>2. online' = online /\ FreeCall.stage = "free" /\ c \in online
    BY <1>1 DEF AttachHistory, FreeCall, AttachesApart, InFlight
  <1>3. \A b \in Calls : call[b].stage \in Stages => call[b].conn \in ConnIds
    BY CallOwned
  <1>4. \A b \in Calls : b # a /\ call'[b].stage # "free" => b # byConn[c] /\ call'[b] = call[b]
    BY <1>1, <1>2
  <1>5. AttachesApart'
    <2>1. ASSUME NEW b \in Calls, b # a, call'[b].stage \in {"history", "subscribing"}
          PROVE  call'[b] = call[b] /\ InFlight(b) /\ call[b].conn # c
                 /\ call[b].conn \in ConnIds /\ call[b].conn \in online
                 /\ (call[b].stage = "subscribing" => byConn[call[b].conn] = Nil)
      BY <1>1, <1>3, <1>4, <2>1 DEF AttachesApart, InFlight, Stages
    <2> QED
      BY <1>1, <1>2, <2>1 DEF AttachesApart, InFlight
  <1>6. NoLeak'
    <2>1. ASSUME NEW b \in Calls, call'[b].stage = "streaming"
          PROVE  byConn'[call'[b].conn] = b
      <3>1. b # a /\ call'[b] = call[b] /\ b # byConn[c] /\ call[b].conn \in ConnIds
        BY <1>1, <1>3, <1>4, <2>1 DEF Stages
      <3> QED
        BY <1>1, <2>1, <3>1 DEF NoLeak, StreamRegistered
    <2> QED
      BY <1>1, <1>2, <2>1 DEF NoLeak, StreamRegistered, WatcherOnline
  <1>7. PendingIsWatched'
    BY <1>1, <1>2 DEF PendingIsWatched, InFlight
  <1> QED
    BY <1>5, <1>6, <1>7

LEMMA SubscribedPatient ==
  ASSUME PatientInv, NEW a \in Calls, AttachSubscribed(a)
  PROVE  AttachesApart' /\ NoLeak' /\ PendingIsWatched'
  <1> USE DEF PatientInv
  <1> DEFINE c == call[a].conn
  <1>1. /\ c \in ConnIds
        /\ call[a].stage = "subscribing"
        /\ byConn'[c] = a
        /\ \A d \in ConnIds : d # c => byConn'[d] = byConn[d]
        /\ call'[a].stage \in {"streaming", "mute"} /\ call'[a].conn = c
        /\ \A b \in Calls : b # a /\ b # byConn[c] => call'[b] = call[b]
    BY SubscribedFacts
  <1>2. online' = online /\ c \in online /\ byConn[c] = Nil
    BY <1>1 DEF AttachSubscribed, AttachesApart, InFlight
  <1>3. \A b \in Calls : b # a => call'[b] = call[b]
    BY <1>1, <1>2, NilAssumption
  <1>4. \A b \in Calls : call[b].stage \in Stages => call[b].conn \in ConnIds
    BY CallOwned
  <1>5. AttachesApart'
    <2>1. ASSUME NEW b \in Calls, call'[b].stage \in {"history", "subscribing"}
          PROVE  b # a /\ call'[b] = call[b] /\ InFlight(b) /\ call[b].conn # c
                 /\ call[b].conn \in ConnIds
      BY <1>1, <1>3, <1>4, <2>1 DEF AttachesApart, InFlight, Stages
    <2> QED
      BY <1>1, <1>2, <2>1 DEF AttachesApart, InFlight
  <1>6. NoLeak'
    <2>1. ASSUME NEW b \in Calls, call'[b].stage = "streaming"
          PROVE  byConn'[call'[b].conn] = b
      <3>1. CASE b = a
        BY <1>1, <3>1
      <3>2. CASE b # a
        <4>1. call'[b] = call[b] /\ call[b].conn \in ConnIds /\ byConn[call[b].conn] = b
          BY <1>3, <1>4, <2>1, <3>2 DEF NoLeak, StreamRegistered, Stages
        <4>2. call[b].conn # c
          BY <1>2, <4>1, NilAssumption
        <4> QED
          BY <1>1, <4>1, <4>2
      <3> QED
        BY <3>1, <3>2
    <2> QED
      BY <1>1, <1>2, <2>1 DEF NoLeak, StreamRegistered, WatcherOnline
  <1>7. PendingIsWatched'
    <2>1. byConn'[c] # Nil /\ c \in online'
      BY <1>1, <1>2, NilAssumption
    <2> QED
      BY <2>1 DEF PendingIsWatched
  <1> QED
    BY <1>5, <1>6, <1>7

\* The hook and the phones' answers leave the attachments alone; a request is
\* only taken for a session somebody watches.
LEMMA HookPatient ==
  ASSUME BrokerInv, PatientInv, UNCHANGED attachVars,
         \/ \E c \in ConnIds, i \in RequestIds, b \in Behaviors : Answer(c, i, b)
         \/ \E r \in Requests : TimerFires(r)
         \/ \E r \in Requests, i \in RequestIds, s \in AgentSessions : HookRequest(r, i, s)
  PROVE  AttachesApart' /\ NoLeak' /\ PendingIsWatched'
  <1>1. AttachesApart' /\ NoLeak'
    BY DEF PatientInv, attachVars, AttachesApart, NoLeak, StreamRegistered, WatcherOnline, InFlight
  <1>2. ASSUME \A i \in RequestIds : waiters'[i] # Nil => waiters[i] # Nil
        PROVE  PendingIsWatched'
    BY <1>2 DEF PatientInv, attachVars, PendingIsWatched, InFlight
  <1>3. ASSUME NEW c \in ConnIds, NEW i \in RequestIds, NEW b \in Behaviors, Answer(c, i, b)
        PROVE  PendingIsWatched'
    BY <1>2, <1>3 DEF Answer, Settle, BrokerInv, TypeOK
  <1>4. ASSUME NEW r \in Requests, TimerFires(r)
        PROVE  PendingIsWatched'
    BY <1>2, <1>4 DEF TimerFires, Settle, BrokerInv, TypeOK
  <1>5. ASSUME NEW r \in Requests, NEW i \in RequestIds, NEW s \in AgentSessions, HookRequest(r, i, s)
        PROVE  PendingIsWatched'
    <2>1. PICK c \in ConnIds : byConn[c] # Nil
      BY <1>5 DEF HookRequest, IsAttached
    <2>2. c \in online' /\ byConn'[c] # Nil
      BY <2>1 DEF PatientInv, NoLeak, WatcherOnline, attachVars
    <2> QED
      BY <2>2 DEF PendingIsWatched
  <1> QED
    BY <1>1, <1>3, <1>4, <1>5

LEMMA PatientStep ==
  ASSUME Overlap = FALSE, BrokerInv, PatientInv, Next
  PROVE  AttachesApart' /\ NoLeak' /\ PendingIsWatched'
  <1>1. ASSUME NEW c \in ConnIds, NEW i \in RequestIds, NEW b \in Behaviors, Answer(c, i, b)
        PROVE  UNCHANGED attachVars
    BY <1>1 DEF Answer
  <1>2. ASSUME NEW r \in Requests, \/ TimerFires(r)
                                   \/ \E i \in RequestIds, s \in AgentSessions : HookRequest(r, i, s)
        PROVE  UNCHANGED attachVars
    BY <1>2 DEF TimerFires, HookRequest
  <1>3. ASSUME UplinkDown \/ Shutdown
        PROVE  TeardownAll
    BY <1>3 DEF UplinkDown, Shutdown
  <1> QED
    BY <1>1, <1>2, <1>3, JoinPatient, LeavePatient, TeardownPatient, StartPatient,
       HistoryPatient, SubscribedPatient, HookPatient
       DEF Next, ClientEvent, AttachStep, HookStep

LEMMA PatientInvariant ==
  ASSUME Overlap = FALSE
  PROVE  Spec => []PatientInv
  <1>1. Init => AttachesApart /\ NoLeak /\ PendingIsWatched
    BY DEF Init, AttachesApart, NoLeak, StreamRegistered, WatcherOnline, PendingIsWatched,
           InFlight, FreeCall
  <1>2. BrokerInv /\ RegisteredIsOurs /\ AttachesApart /\ NoLeak /\ PendingIsWatched /\ [Next]_vars
        => (AttachesApart /\ NoLeak /\ PendingIsWatched)'
    <2> SUFFICES ASSUME BrokerInv, PatientInv, [Next]_vars
                 PROVE  AttachesApart' /\ NoLeak' /\ PendingIsWatched'
      BY DEF PatientInv, BrokerInv
    <2>1. CASE Next
      BY <2>1, PatientStep
    <2>2. CASE UNCHANGED vars
      BY <2>2 DEF vars, PatientInv, AttachesApart, NoLeak, StreamRegistered, WatcherOnline,
                  PendingIsWatched, InFlight
    <2> QED
      BY <2>1, <2>2
  <1>3. BrokerInv => TypeOK
    BY DEF BrokerInv
  <1> QED
    BY <1>1, <1>2, <1>3, BrokerInvariant, RegisteredCalls, PTL DEF Spec, PatientInv

\* No subscription is lost when nothing overlaps an attach: every stream is the
\* registered one of a client that is there (attachments.ts:14-17,
\* bridge.ts:251-253).
THEOREM NothingLeaks ==
  ASSUME Overlap = FALSE
  PROVE  Spec => []NoLeak
  BY PatientInvariant, PTL DEF PatientInv

\* An approval is pending only while a client that is there watches a session
\* or is about to (permission-broker.ts:60-63, index.ts:768-772).
THEOREM PendingWatched ==
  ASSUME Overlap = FALSE
  PROVE  Spec => []PendingIsWatched
  BY PatientInvariant, PTL DEF PatientInv
=============================================================================
