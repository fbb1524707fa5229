------------------------------- MODULE Agents -------------------------------
(***************************************************************************)
(* Watching agent sessions from a phone and answering their tool calls:    *)
(* AttachmentManager (agent/attachments.ts), PermissionBroker              *)
(* (agent/permission-broker.ts), the handlers of index.ts that join them   *)
(* to the Bridge, and the endpoint of web-ui.ts the agent's hook blocks    *)
(* on.                                                                     *)
(*                                                                         *)
(* An attach is asynchronous: it awaits a page of history, releases what   *)
(* the connection watched, awaits the subscription and only then registers *)
(* it.  What happens in between is modelled by giving every call of the    *)
(* agent_attach handler a slot that records how far it got.                *)
(***************************************************************************)

CONSTANTS
    ConnIds,            \* connection ids of the Bridge
    AgentSessions,      \* the agents' own session ids
    Calls,              \* slots for agent_attach calls and their subscriptions
    Requests,           \* POSTs of the permission hook
    RequestIds,         \* the ids they get: session and tool_use_id or time
    Nil,                \* JavaScript null / undefined
    Overlap,            \* may a client attach again, detach or leave while an
                        \* attach of its own is still being awaited?
    DuplicateIds        \* may two requests get the same id?

ASSUME NilAssumption == Nil \notin ConnIds \cup AgentSessions \cup Calls \cup Requests \cup RequestIds
ASSUME OverlapAssumption == Overlap \in BOOLEAN /\ DuplicateIds \in BOOLEAN

VARIABLES
    running,    \* the daemon has not begun to shut down
    online,     \* connIds that have a client session in the Bridge
    byConn,     \* AttachmentManager.byConn: connId -> call or Nil
    call,       \* the agent_attach calls and the subscriptions they made
    waiters,    \* PermissionBroker.waiters: request id -> request or Nil
    request,    \* the hook's requests: id, session, outcome, timer
    tapped      \* ghost: <<request, behaviour>> the phones answered while the
                \* request was open

vars == <<running, online, byConn, call, waiters, request, tapped>>
attachVars == <<running, online, byConn, call>>
permissionVars == <<waiters, request, tapped>>

Behaviors == {"allow", "deny"}
Stages == {"history", "subscribing", "streaming", "mute"}     \* ... or "free"
Outcomes == {"none", "waiting", "unanswered"} \cup Behaviors

FreeCall == [stage |-> "free", conn |-> Nil, session |-> Nil]
Call == [stage : Stages, conn : ConnIds, session : AgentSessions] \cup {FreeCall}
Request == [id : RequestIds \cup {Nil}, session : AgentSessions \cup {Nil},
            outcome : Outcomes, timer : BOOLEAN]

NoRequest == [id |-> Nil, session |-> Nil, outcome |-> "none", timer |-> FALSE]

TypeOK ==
    /\ running \in BOOLEAN
    /\ online \subseteq ConnIds
    /\ byConn \in [ConnIds -> Calls \cup {Nil}]
    /\ call \in [Calls -> Call]
    /\ waiters \in [RequestIds -> Requests \cup {Nil}]
    /\ request \in [Requests -> Request]
    /\ tapped \subseteq Requests \X Behaviors

Init ==
    /\ running = TRUE
    /\ online = {}
    /\ byConn = [c \in ConnIds |-> Nil]
    /\ call = [a \in Calls |-> FreeCall]
    /\ waiters = [i \in RequestIds |-> Nil]
    /\ request = [r \in Requests |-> NoRequest]
    /\ tapped = {}

-----------------------------------------------------------------------------
(* AttachmentManager. *)

InFlight(a) == call[a].stage \in {"history", "subscribing"}

\* No attach of a client in C is being awaited, or that does not matter here.
Settled(C) == Overlap \/ \A a \in Calls : InFlight(a) => call[a].conn \notin C

\* Mutant of Detached: the entry of the Map is forgotten, its stream is not
\* stopped.
DetachedKeepsStream(C) ==
    /\ byConn' = [c \in ConnIds |-> IF c \in C THEN Nil ELSE byConn[c]]
    /\ UNCHANGED call

\* detach, for every connection of C: unsubscribe and forget.
Detached(C) ==
    /\ byConn' = [c \in ConnIds |-> IF c \in C THEN Nil ELSE byConn[c]]
    /\ call' = [a \in Calls |-> IF \E c \in C : byConn[c] = a THEN FreeCall ELSE call[a]]

\* The sessions some connection outside C watches.
WatchedOutside(C) == {c \in ConnIds \ C : byConn[c] # Nil}

IsAttached(s) == \E c \in ConnIds : byConn[c] # Nil /\ call[byConn[c]].session = s

-----------------------------------------------------------------------------
(* PermissionBroker. *)

\* settle of request r: whatever waiter is filed under its id is dropped with
\* its timer, and the promise of r resolves.
Settle(r, outcome) ==
    LET w == waiters[request[r].id]
    IN  /\ w # Nil
        /\ waiters' = [waiters EXCEPT ![request[r].id] = Nil]
        /\ request' = [q \in Requests |->
                          [request[q] EXCEPT
                              !.outcome = IF q = r THEN outcome ELSE @,
                              !.timer = @ /\ q \notin {r, w}]]

\* releaseAll: every waiter in the Map, unanswered.
ReleaseAll ==
    /\ waiters' = [i \in RequestIds |-> Nil]
    /\ request' = [r \in Requests |->
                      IF \E i \in RequestIds : waiters[i] = r
                      THEN [request[r] EXCEPT !.outcome = "unanswered", !.timer = FALSE]
                      ELSE request[r]]
    /\ UNCHANGED tapped

\* Mutant of ReleasedUnlessWatched: nothing is released.
ReleasedNever(C) == UNCHANGED permissionVars

\* The agent_detach handler, once for every connection of C: what is pending is
\* released when nobody watches any session after that.
ReleasedUnlessWatched(C) ==
    IF C # {} /\ WatchedOutside(C) = {} THEN ReleaseAll ELSE UNCHANGED permissionVars

-----------------------------------------------------------------------------
(* Events of the Bridge. *)

\* A client connects; the session that held its connId is torn down first.
Join(c) ==
    /\ running
    /\ online' = online \cup {c}
    /\ IF c \in online
       THEN Settled({c}) /\ Detached({c}) /\ ReleasedUnlessWatched({c})
       ELSE UNCHANGED <<byConn, call, permissionVars>>
    /\ UNCHANGED running

\* teardownSession on client_offline or a rejected handshake.
Leave(c) ==
    /\ c \in online
    /\ Settled({c})
    /\ online' = online \ {c}
    /\ Detached({c})
    /\ ReleasedUnlessWatched({c})
    /\ UNCHANGED running

\* The AGENT_DETACH frame.
Detach(c) ==
    /\ c \in online
    /\ Settled({c})
    /\ Detached({c})
    /\ ReleasedUnlessWatched({c})
    /\ UNCHANGED <<running, online>>

\* teardownAllSessions: agent_detach for each client, then agent_detach_all.
TeardownAll ==
    /\ Settled(ConnIds)
    /\ online' = {}
    /\ Detached(ConnIds)
    /\ ReleasedUnlessWatched(online)

UplinkDown ==
    /\ running
    /\ TeardownAll
    /\ UNCHANGED running

Shutdown ==
    /\ running
    /\ TeardownAll
    /\ running' = FALSE

\* The AGENT_ATTACH frame: the handler asks for a page of history.
AttachStart(c, s) ==
    /\ c \in online
    /\ Settled({c})
    /\ \E a \in Calls :
          /\ call[a].stage = "free"
          /\ call' = [call EXCEPT ![a] = [stage |-> "history", conn |-> c, session |-> s]]
    /\ UNCHANGED <<running, online, byConn, permissionVars>>

\* The history is sent; attach releases what the connection watched and asks
\* for the subscription.
AttachHistory(a) ==
    LET c == call[a].conn
    IN  /\ call[a].stage = "history"
        /\ byConn' = [byConn EXCEPT ![c] = Nil]
        /\ call' = [b \in Calls |->
                       IF b = a THEN [call[a] EXCEPT !.stage = "subscribing"]
                       ELSE IF b = byConn[c] THEN FreeCall
                       ELSE call[b]]
        /\ UNCHANGED <<running, online, permissionVars>>

\* The subscription is there, or failed and left a no-op behind; it is
\* registered whatever the Map holds by now.
AttachSubscribed(a) ==
    LET c == call[a].conn
        old == byConn[c]
    IN  /\ call[a].stage = "subscribing"
        /\ \E stage \in {"streaming", "mute"} :
              call' = [b \in Calls |->
                          IF b = a THEN [call[a] EXCEPT !.stage = stage]
                          ELSE IF b = old /\ call[b].stage = "mute" THEN FreeCall
                          ELSE call[b]]
        /\ byConn' = [byConn EXCEPT ![c] = a]
        /\ UNCHANGED <<running, online, permissionVars>>

-----------------------------------------------------------------------------
(* The permission hook, the phones' answers and the timers. *)

\* POST /api/agent/permission for a session somebody watches.
HookRequest(r, i, s) ==
    /\ running
    /\ request[r].outcome = "none"
    /\ DuplicateIds \/ \A q \in Requests : request[q].id # i
    /\ IsAttached(s)
    /\ request' = [request EXCEPT ![r] = [id |-> i, session |-> s,
                                          outcome |-> "waiting", timer |-> TRUE]]
    /\ waiters' = [waiters EXCEPT ![i] = r]
    /\ UNCHANGED <<attachVars, tapped>>

\* The AGENT_PERMISSION frame; an id nobody waits under is ignored.
Answer(c, i, behavior) ==
    LET r == waiters[i]
    IN  /\ c \in online
        /\ r # Nil
        /\ tapped' = tapped \cup {<<r, behavior>>}
        /\ Settle(r, behavior)
        /\ UNCHANGED attachVars

\* Mutant of TimerFires: the timeout approves.
TimerApproves(r) ==
    /\ request[r].timer
    /\ IF waiters[request[r].id] # Nil
       THEN Settle(r, "allow")
       ELSE /\ request' = [request EXCEPT ![r].timer = FALSE]
            /\ UNCHANGED waiters
    /\ UNCHANGED <<attachVars, tapped>>

\* Mutant of TimerFires: the timeout of a request changes nothing.
TimerForgets(r) ==
    /\ request[r].timer
    /\ request' = [request EXCEPT ![r].timer = FALSE]
    /\ UNCHANGED <<attachVars, waiters, tapped>>

\* The 540 s timeout.
TimerFires(r) ==
    /\ request[r].timer
    /\ IF waiters[request[r].id] # Nil
       THEN Settle(r, "unanswered")
       ELSE /\ request' = [request EXCEPT ![r].timer = FALSE]
            /\ UNCHANGED waiters
    /\ UNCHANGED <<attachVars, tapped>>

-----------------------------------------------------------------------------
ClientEvent ==
    \/ \E c \in ConnIds :
          \/ Join(c)
          \/ Leave(c)
          \/ Detach(c)
          \/ \E s \in AgentSessions : AttachStart(c, s)
          \/ \E i \in RequestIds, behavior \in Behaviors : Answer(c, i, behavior)
    \/ UplinkDown
    \/ Shutdown

AttachStep == \E a \in Calls : AttachHistory(a) \/ AttachSubscribed(a)

HookStep ==
    \E r \in Requests :
        \/ TimerFires(r)
        \/ \E i \in RequestIds, s \in AgentSessions : HookRequest(r, i, s)

Next == ClientEvent \/ AttachStep \/ HookStep

Spec == Init /\ [][Next]_vars

\* A timer that is due fires; nothing else has to happen.
FairSpec == Spec /\ \A r \in Requests : WF_vars(TimerFires(r))

-----------------------------------------------------------------------------
(* Properties *)

\* What a connection is registered for is its own call, and has not been
\* stopped (attachments.ts:26-49).
RegisteredIsOurs ==
    \A c \in ConnIds : byConn[c] # Nil =>
        /\ call[byConn[c]].conn = c
        /\ call[byConn[c]].stage \in {"streaming", "mute"}

\* "A connection holds at most one attachment: re-attaching replaces the old
\* subscription rather than stacking a second one" (attachments.ts:14-17): a
\* stream that runs is the registered one of its connection, so that detach
\* still reaches it.
StreamRegistered ==
    \A a \in Calls : call[a].stage = "streaming" => byConn[call[a].conn] = a

\* "Release every agent subscription in one go: leaking a tail poller per
\* reconnect" (bridge.ts:251-253): nothing is registered for a client that
\* left.
WatcherOnline == \A c \in ConnIds : byConn[c] # Nil => c \in online

\* No subscription is lost as long as nothing overlaps an attach: streams are
\* registered, and for clients that are there.
NoLeak == StreamRegistered /\ WatcherOnline

\* Why: a client has at most one attach in flight, is there while it is, and
\* has nothing registered when its subscription comes (index.ts:703-714,
\* attachments.ts:28-38).
AttachesApart ==
    \A a \in Calls : InFlight(a) =>
        /\ call[a].conn \in online
        /\ \A b \in Calls : InFlight(b) /\ call[b].conn = call[a].conn => b = a
        /\ call[a].stage = "subscribing" => byConn[call[a].conn] = Nil

\* An approval is pending only while some phone watches a session or is about
\* to (permission-broker.ts:60-63, index.ts:768-772).
PendingIsWatched ==
    (\E i \in RequestIds : waiters[i] # Nil) =>
        \/ \E c \in online : byConn[c] # Nil
        \/ \E a \in Calls : InFlight(a) /\ call[a].conn \in online

\* "The broker never invents an approval": allow and deny are what a phone
\* answered while that very request was open (permission-broker.ts:19-25).
NoInventedApproval ==
    \A r \in Requests : request[r].outcome \in Behaviors => <<r, request[r].outcome>> \in tapped

\* What the Map holds under an id is a request of that id that still waits with
\* its timer armed; a timer is only armed for a request that was made
\* (permission-broker.ts:30-44), whatever ids are given out twice.
WaitersWait ==
    /\ \A i \in RequestIds : waiters[i] # Nil =>
          /\ request[waiters[i]].id = i
          /\ request[waiters[i]].outcome = "waiting"
          /\ request[waiters[i]].timer
    /\ \A r \in Requests : request[r].timer => request[r].id \in RequestIds

\* "Every path that is not an explicit human tap - timeout, detach, shutdown -
\* resolves to unanswered" (permission-broker.ts:22-24): the hook is answered.
EveryRequestSettles ==
    \A r \in Requests :
        request[r].outcome = "waiting" ~> request[r].outcome \notin {"none", "waiting"}
=============================================================================
