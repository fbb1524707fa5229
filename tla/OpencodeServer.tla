--------------------------- MODULE OpencodeServer ---------------------------
(***************************************************************************)
(* OpencodeServer (agent/opencode-server.ts), which finds or spawns the    *)
(* `opencode serve' that the sessions of opencode are read from, and       *)
(* ensureOpencode (index.ts), which asks it before every listing and makes *)
(* an adapter for what it answers.                                         *)
(*                                                                         *)
(* Serves are numbered in the order they are spawned.  All listen on one   *)
(* port, which one of them can hold.  Every await is a step boundary.      *)
(***************************************************************************)
EXTENDS Naturals, FiniteSets

CONSTANTS
    Listings,        \* session listings that may be under way
    ListingsOverlap, \* whether one begins while another is
    Restarts,        \* whether the user's own server comes and goes
    MaxServes,       \* bound: serves spawned
    MaxFaults        \* bound: serves that die, probes and spawns that fail

ASSUME OpencodeServerAssumption ==
    /\ IsFiniteSet(Listings)
    /\ ListingsOverlap \in BOOLEAN /\ Restarts \in BOOLEAN
    /\ MaxServes \in Nat /\ MaxFaults \in Nat

VARIABLES
    users,   \* is a server of the user's up on the conventional port?
    serve,   \* the serves spawned
    spawned, \* how many
    holder,  \* the one that holds the port of ours, or None
    child,   \* this.child
    url,     \* this.url
    listing, \* the listings, with the serve that each of them spawned
    adapter, \* opencodeUrl: the server of the adapter there is
    faults   \* faults so far

serverVars == <<users, serve, spawned, holder, child, url, listing, adapter, faults>>

processes == <<users, serve, spawned, holder>>

None == 0
Serves == 1 .. MaxServes
Urls == {"none", "users", "ours"}
Idle == [at |-> "idle", own |-> None, result |-> "none"]

ServerInit ==
    /\ users \in BOOLEAN
    /\ serve = [n \in Serves |-> "unborn"]
    /\ spawned = 0
    /\ holder = None
    /\ child = None
    /\ url = "none"
    /\ listing = [l \in Listings |-> Idle]
    /\ adapter = "none"
    /\ faults = 0

Fault == faults < MaxFaults /\ faults' = faults + 1

\* OpencodeClient.health of a server.
Healthy(u) == \/ u = "users" /\ users
              \/ u = "ours" /\ holder # None

Live(n) == serve[n] \in {"starting", "ready", "ending"}

-----------------------------------------------------------------------------
(* ensureRunning                                                           *)

\* stop: the serve that is remembered gets SIGTERM.
WithoutChild == [n \in Serves |-> IF n = child /\ Live(n) THEN "ending" ELSE serve[n]]

StopServe ==
    /\ serve' = WithoutChild
    /\ child' = None
    /\ url' = "none"

Goes(l, at) == listing' = [listing EXCEPT ![l].at = at]

Returns(l, result) ==
    listing' = [listing EXCEPT ![l] = [at |-> "answered", own |-> None, result |-> result]]

\* agent_list: a server that is known is probed, otherwise one is looked for.
Ensure(l) ==
    /\ listing[l].at = "idle"
    /\ ListingsOverlap \/ \A m \in Listings : listing[m].at = "idle"
    /\ listing' = [listing EXCEPT ![l].at = IF url # "none" THEN "probing" ELSE "resolving",
                                  ![l].result = url]
    /\ UNCHANGED <<processes, child, url, adapter, faults>>

\* It answers: the URL that is remembered by then is returned.
Probed(l) ==
    /\ listing[l].at = "probing"
    /\ Healthy(listing[l].result)
    /\ Returns(l, url)
    /\ UNCHANGED <<processes, child, url, adapter, faults>>

\* Mutant of Unhealthy: a server that does not answer stays remembered.
UnhealthyKept(l) ==
    /\ listing[l].at = "probing"
    /\ ~Healthy(listing[l].result)
    /\ Returns(l, url)
    /\ UNCHANGED <<processes, child, url, adapter, faults>>

\* It does not: it is stopped, if it is ours, and one is looked for.
Unhealthy(l) ==
    /\ listing[l].at = "probing"
    /\ \/ ~Healthy(listing[l].result) /\ UNCHANGED faults
       \/ Healthy(listing[l].result) /\ Fault
    /\ StopServe
    /\ Goes(l, "resolving")
    /\ UNCHANGED <<users, spawned, holder, adapter>>

\* The conventional port is tried first: a server that answers is not ours.
Found(l) ==
    /\ listing[l].at = "resolving"
    /\ users
    /\ url' = "users"
    /\ Returns(l, "users")
    /\ UNCHANGED <<processes, child, adapter, faults>>

\* Otherwise a serve is spawned, and remembered in place of the last.
Spawn(l) ==
    /\ listing[l].at = "resolving"
    /\ ~users
    /\ spawned < MaxServes
    /\ spawned' = spawned + 1
    /\ serve' = [serve EXCEPT ![spawned + 1] = "starting"]
    /\ child' = spawned + 1
    /\ listing' = [listing EXCEPT ![l].at = "polling", ![l].own = spawned + 1]
    /\ UNCHANGED <<users, holder, url, adapter, faults>>

\* opencode is not installed, or cannot be spawned: on an error event the
\* child is forgotten and the poll's end stops what is left.
NoServe(l) ==
    /\ listing[l].at = "resolving"
    /\ ~users
    /\ (spawned = MaxServes /\ UNCHANGED faults) \/ Fault
    /\ \/ UNCHANGED <<child, url>>
       \/ child' = None /\ url' = "none"
    /\ Returns(l, "none")
    /\ UNCHANGED <<processes, adapter>>

\* The poll finds a serve on the port, whichever it is.
Ready(l) ==
    /\ listing[l].at = "polling"
    /\ Healthy("ours")
    /\ url' = "ours"
    /\ Returns(l, "ours")
    /\ UNCHANGED <<processes, child, adapter, faults>>

\* Its serve has exited, or the poll's budget is used up.
GivesUp(l) ==
    /\ listing[l].at = "polling"
    /\ serve[listing[l].own] = "gone" \/ ~Healthy("ours")
    /\ StopServe
    /\ Returns(l, "none")
    /\ UNCHANGED <<users, spawned, holder, adapter, faults>>

\* ensureOpencode: another answer than before, another adapter, or none.
AdapterFollows(l) ==
    /\ listing[l].at = "answered"
    /\ adapter' = listing[l].result
    /\ listing' = [listing EXCEPT ![l] = Idle]
    /\ UNCHANGED <<processes, child, url, faults>>

-----------------------------------------------------------------------------
(* The processes                                                           *)

Binds(n) ==
    /\ serve[n] = "starting" /\ holder = None
    /\ serve' = [serve EXCEPT ![n] = "ready"]
    /\ holder' = n
    /\ UNCHANGED <<users, spawned, child, url, listing, adapter, faults>>

\* A serve ends when it is told to, finds its port taken, or dies.
Ends(n) ==
    /\ \/ serve[n] = "ending" /\ UNCHANGED faults
       \/ serve[n] = "starting" /\ holder # None /\ UNCHANGED faults
       \/ serve[n] \in {"starting", "ready"} /\ Fault
    /\ serve' = [serve EXCEPT ![n] = "gone"]
    /\ holder' = IF holder = n THEN None ELSE holder
    /\ UNCHANGED <<users, spawned, child, url, listing, adapter>>

UserStartsOrStops ==
    /\ Restarts /\ Fault
    /\ users' = ~users
    /\ UNCHANGED <<serve, spawned, holder, child, url, listing, adapter>>

-----------------------------------------------------------------------------
Step(l) == \/ Probed(l) \/ Unhealthy(l) \/ Found(l) \/ Spawn(l) \/ NoServe(l)
           \/ Ready(l) \/ GivesUp(l) \/ AdapterFollows(l)

ServerNext ==
    \/ \E l \in Listings : Ensure(l) \/ Step(l)
    \/ \E n \in Serves : Binds(n) \/ Ends(n)
    \/ UserStartsOrStops

ServerSpec == ServerInit /\ [][ServerNext]_serverVars

\* Requests end, processes run, and phones list their sessions now and then.
\* A poll lasts five seconds, in which a serve that can be up is up.
FairServerSpec ==
    /\ ServerSpec
    /\ \A l \in Listings : WF_serverVars(Ensure(l) \/ Step(l))
    /\ \A n \in Serves : WF_serverVars(Binds(n))
                        /\ WF_serverVars(serve[n] = "ending" /\ Ends(n))

-----------------------------------------------------------------------------
(* Properties                                                              *)

ServerTypeOK ==
    /\ users \in BOOLEAN
    /\ serve \in [Serves -> {"unborn", "starting", "ready", "ending", "gone"}]
    /\ spawned \in 0 .. MaxServes
    /\ holder \in {None} \cup Serves /\ child \in {None} \cup Serves
    /\ url \in Urls /\ adapter \in Urls
    /\ listing \in [Listings -> [at : {"idle", "probing", "resolving", "polling", "answered"},
                                 own : {None} \cup Serves, result : Urls]]
    /\ faults \in 0 .. MaxFaults

\* No serve is left running that the daemon would not stop at its shutdown
\* (index.ts:901): each is the one it remembers, or was told to end.  Without
\* overlapping listings this holds; two at once break it (README).
NoStrayServe ==
    \A n \in Serves : serve[n] \in {"starting", "ready"} => child = n

\* The sessions of opencode come back: after a crash, a failed probe or a
\* failed start, some later listing finds a server that answers (index.ts:
\* 617-619, opencode-server.ts:148-155).
SessionsComeBack ==
    []<>(Healthy(adapter) \/ spawned = MaxServes)
=============================================================================
