------------------------------- MODULE Claude -------------------------------
(***************************************************************************)
(* One Claude Code session as the daemon drives it: the send, interrupt    *)
(* and answer handlers of ClaudeAdapter (agent/claude-adapter.ts), the     *)
(* headless sessions it starts (agent/claude-sdk-session.ts), the desk     *)
(* registry and liveness oracle it asks first (agent/desk-target.ts,       *)
(* agent/session-liveness.ts, agent/session-registry.ts) and the driver of *)
(* a pane (agent/desk-inject.ts).  What the phone sees of the transcript   *)
(* is in module Tail.                                                      *)
(*                                                                         *)
(* Every await of a handler is a step boundary: between two steps another  *)
(* handler, the agent or the person at the desk may act.  The agent itself *)
(* (the SDK's child process, the terminal, herdr) is external.             *)
(***************************************************************************)
EXTENDS Integers, Sequences, FiniteSets, SequencesExt

CONSTANTS
    Sends,       \* the prompts the phones send to the session, a call each
    Hooks,       \* the SessionStart hook is installed: panes and pids are known
    Overlap,     \* a send may begin while another one is under way
    MaxSessions, \* bound: headless sessions made
    MaxCalls,    \* bound: tool calls of one headless session
    MaxMoves,    \* bound: what the person at the desk does
    MaxFaults    \* bound: failures of herdr, of the import and of the stream

ASSUME ClaudeAssumption ==
    /\ IsFiniteSet(Sends)
    /\ Hooks \in BOOLEAN /\ Overlap \in BOOLEAN
    /\ {MaxSessions, MaxCalls, MaxMoves, MaxFaults} \subseteq Nat

VARIABLES
    desk,    \* where a terminal holds the session, and whether it is working
    call,    \* call[s]: how far send(s) has come
    using,   \* using[s]: the headless session send(s) handed its prompt to
    sdk,     \* the ClaudeSdkSession objects
    made,    \* how many of them were made so far
    current, \* the one in the sdkSessions map, 0 when there is none
    told,    \* the prompts whose turn the phone knows to have ended
    taken,   \* the prompts the agent has received
    spent    \* how much of the bounds is used

vars == <<desk, call, using, sdk, made, current, told, taken, spent>>

Objects == 1 .. MaxSessions
Places == {"away", "tmux", "herdr", "plain"}
Phases == {"new", "looking", "injecting", "listing", "locating", "starting",
           "done", "refused"}

\* The private state of a ClaudeSdkSession; parked: its input generator waits
\* for notify; turn: the agent works on a prompt; open: pending approvals.
Session == [running : BOOLEAN, stream : {"none", "live", "ended", "broken"},
            parked : BOOLEAN, queue : Seq(Sends), turn : BOOLEAN,
            open : SUBSET (1 .. MaxCalls), seq : 0 .. MaxCalls]

Unused == [running |-> FALSE, stream |-> "none", parked |-> FALSE,
           queue |-> <<>>, turn |-> FALSE, open |-> {}, seq |-> 0]

Init ==
    /\ desk = [at |-> "away", busy |-> FALSE]
    /\ call = [s \in Sends |-> "new"]
    /\ using = [s \in Sends |-> 0]
    /\ sdk = [o \in Objects |-> Unused]
    /\ made = 0
    /\ current = 0
    /\ told = {}
    /\ taken = {}
    /\ spent = [moves |-> 0, faults |-> 0]

Fault == /\ spent.faults < MaxFaults
         /\ spent' = [spent EXCEPT !.faults = @ + 1]
Move  == /\ spent.moves < MaxMoves
         /\ spent' = [spent EXCEPT !.moves = @ + 1]

(***************************************************************************)
(* The desk registry and the liveness oracle.  herdr reports a status,     *)
(* tmux none; a terminal outside both is known to live by its hook only.   *)
(***************************************************************************)
Reachable(at) == at = "herdr" \/ (at = "tmux" /\ Hooks)
Injectable(d) == d.at = "tmux" \/ ~d.busy
PidAlive(at) == at # "away"
Alive(at) == Hooks /\ PidAlive(at)

-----------------------------------------------------------------------------
(* ClaudeAdapter.send                                                      *)

Waiting(s) == call[s] \notin {"new", "done", "refused"}

Send(s) ==
    /\ call[s] = "new"
    /\ Overlap \/ \A t \in Sends : ~Waiting(t)
    /\ call' = [call EXCEPT ![s] = "looking"]
    /\ UNCHANGED <<desk, using, sdk, made, current, told, taken, spent>>

\* The lookup answers: drive the pane, refuse it while it is busy, or go on
\* without one.
LookedUp(s) ==
    /\ call[s] = "looking"
    /\ call' = [call EXCEPT ![s] =
                  IF ~Reachable(desk.at) THEN "listing"
                  ELSE IF Injectable(desk) THEN "injecting" ELSE "refused"]
    /\ UNCHANGED <<desk, using, sdk, made, current, told, taken, spent>>

\* herdr does not answer within its timeout: the composite registry goes on
\* with tmux, which does not know the session.
LookupFails(s) ==
    /\ call[s] = "looking"
    /\ desk.at = "herdr"
    /\ Fault
    /\ call' = [call EXCEPT ![s] = "listing"]
    /\ UNCHANGED <<desk, using, sdk, made, current, told, taken>>

\* The prompt is typed into the pane and the watcher begins.
Inject(s) ==
    /\ call[s] = "injecting"
    /\ desk.at \in {"tmux", "herdr"}
    /\ call' = [call EXCEPT ![s] = "done"]
    /\ desk' = [desk EXCEPT !.busy = TRUE]
    /\ taken' = taken \cup {s}
    /\ UNCHANGED <<using, sdk, made, current, told, spent>>

InjectRefused(s) ==
    /\ call[s] = "injecting"
    /\ desk.at \in {"away", "plain"} \/ (desk.at = "herdr" /\ desk.busy)
    /\ call' = [call EXCEPT ![s] = "refused"]
    /\ UNCHANGED <<desk, using, sdk, made, current, told, taken, spent>>

\* watchUntilSettled: the pane has left working, has no status (tmux), is gone
\* or cannot be read, or ten minutes are over; the turn ends for the phone.
Settled(s) ==
    /\ call[s] = "done" /\ using[s] = 0 /\ s \notin told
    /\ told' = told \cup {s}
    /\ UNCHANGED <<desk, call, using, sdk, made, current, taken, spent>>

\* Mutant of Push: the waiting generator is not notified.
PushSilently(o, s) == [sdk EXCEPT ![o].queue = Append(@, s)]

\* ClaudeSdkSession.send: queue the prompt and wake the generator.
Push(o, s) == [sdk EXCEPT ![o].queue = Append(@, s), ![o].parked = FALSE]

\* isAlive answers: refuse a session that a terminal holds, give the prompt to
\* the headless session that is there, or look for the transcript.
Checked(s) ==
    /\ call[s] = "listing"
    /\ IF Alive(desk.at)
         THEN /\ call' = [call EXCEPT ![s] = "refused"]
              /\ UNCHANGED <<using, sdk>>
       ELSE IF current # 0
         THEN /\ call' = [call EXCEPT ![s] = "done"]
              /\ using' = [using EXCEPT ![s] = current]
              /\ sdk' = Push(current, s)
       ELSE /\ call' = [call EXCEPT ![s] = "locating"]
            /\ UNCHANGED <<using, sdk>>
    /\ UNCHANGED <<desk, made, current, told, taken, spent>>

\* The transcript is found: a session object takes the place in the map,
\* whatever is there by now, and begins to import the SDK.
Located(s) ==
    /\ call[s] = "locating"
    /\ made < MaxSessions
    /\ made' = made + 1
    /\ sdk' = [sdk EXCEPT ![made'].running = TRUE]
    /\ current' = made'
    /\ using' = [using EXCEPT ![s] = made']
    /\ call' = [call EXCEPT ![s] = "starting"]
    /\ UNCHANGED <<desk, told, taken, spent>>

NotLocated(s) ==
    /\ call[s] = "locating"
    /\ call' = [call EXCEPT ![s] = "refused"]
    /\ UNCHANGED <<desk, using, sdk, made, current, told, taken, spent>>

\* The import is done: the stream runs, and the prompt is queued.
Started(s) ==
    /\ call[s] = "starting"
    /\ sdk' = [Push(using[s], s) EXCEPT ![using[s]].stream = "live"]
    /\ call' = [call EXCEPT ![s] = "done"]
    /\ UNCHANGED <<desk, using, made, current, told, taken, spent>>

\* The import fails: the caller gets the error, the object stays in the map
\* with `running` set and nobody to read its queue.
StartFails(s) ==
    /\ call[s] = "starting"
    /\ Fault
    /\ call' = [call EXCEPT ![s] = "refused"]
    /\ UNCHANGED <<desk, using, sdk, made, current, told, taken>>

-----------------------------------------------------------------------------
(* ClaudeSdkSession                                                        *)

\* The input generator finds its queue empty and waits.
Park(o) ==
    /\ sdk[o].stream = "live" /\ sdk[o].running
    /\ sdk[o].queue = <<>> /\ ~sdk[o].parked
    /\ sdk' = [sdk EXCEPT ![o].parked = TRUE]
    /\ UNCHANGED <<desk, call, using, made, current, told, taken, spent>>

\* It hands the next prompt to the agent.
Take(o) ==
    /\ sdk[o].stream = "live" /\ sdk[o].running
    /\ sdk[o].queue # <<>> /\ ~sdk[o].parked
    /\ sdk' = [sdk EXCEPT ![o].queue = Tail(@), ![o].turn = TRUE]
    /\ taken' = taken \cup {Head(sdk[o].queue)}
    /\ UNCHANGED <<desk, call, using, made, current, told, spent>>

\* canUseTool: the agent asks for approval and waits for the phone.
CanUseTool(o) ==
    /\ sdk[o].stream = "live" /\ sdk[o].turn
    /\ sdk[o].seq < MaxCalls
    /\ sdk' = [sdk EXCEPT ![o].seq = @ + 1, ![o].open = @ \cup {sdk[o].seq + 1}]
    /\ UNCHANGED <<desk, call, using, made, current, told, taken, spent>>

\* respondPermission, respondQuestion: the session in the map that knows the
\* request resolves it.
Respond(id) ==
    /\ current # 0
    /\ id \in sdk[current].open
    /\ sdk' = [sdk EXCEPT ![current].open = @ \ {id}]
    /\ UNCHANGED <<desk, call, using, made, current, told, taken, spent>>

\* The agent ends its turn; the stream goes on and nobody is told.
TurnDone(o) ==
    /\ sdk[o].stream = "live" /\ sdk[o].turn /\ sdk[o].open = {}
    /\ sdk' = [sdk EXCEPT ![o].turn = FALSE]
    /\ UNCHANGED <<desk, call, using, made, current, told, taken, spent>>

ToldBy(o) == {s \in Sends : using[s] = o /\ call[s] = "done"}

\* The generator of a stopped session returns and the stream ends: turn_end.
StreamEnds(o) ==
    /\ sdk[o].stream = "live" /\ ~sdk[o].running /\ ~sdk[o].turn
    /\ sdk' = [sdk EXCEPT ![o].stream = "ended"]
    /\ told' = told \cup ToldBy(o)
    /\ UNCHANGED <<desk, call, using, made, current, taken, spent>>

\* The agent's process fails: an error event; the object stays in the map.
StreamBreaks(o) ==
    /\ sdk[o].stream = "live"
    /\ Fault
    /\ sdk' = [sdk EXCEPT ![o].stream = "broken", ![o].turn = FALSE]
    /\ told' = told \cup ToldBy(o)
    /\ UNCHANGED <<desk, call, using, made, current, taken>>

\* Mutants of Stop: the pending approvals are forgotten; only they are denied.
StopForgetsCalls(o) == [sdk EXCEPT ![o].running = FALSE, ![o].parked = FALSE]
StopKeepsRunning(o) == [sdk EXCEPT ![o].parked = FALSE, ![o].open = {}]

\* ClaudeSdkSession.stop: end the generator and deny what is pending.
Stop(o) == [sdk EXCEPT ![o].running = FALSE, ![o].parked = FALSE, ![o].open = {}]

Interrupt ==
    /\ current # 0
    /\ sdk' = Stop(current)
    /\ current' = 0
    /\ UNCHANGED <<desk, call, using, made, told, taken, spent>>

-----------------------------------------------------------------------------
(* The desk                                                                *)

DeskOpens(at) ==
    /\ desk.at = "away" /\ at # "away"
    /\ Move
    /\ desk' = [at |-> at, busy |-> FALSE]
    /\ UNCHANGED <<call, using, sdk, made, current, told, taken>>

DeskCloses ==
    /\ desk.at # "away"
    /\ Move
    /\ desk' = [at |-> "away", busy |-> FALSE]
    /\ UNCHANGED <<call, using, sdk, made, current, told, taken>>

\* The person at the desk gives the agent something to do.
DeskWorks ==
    /\ desk.at # "away" /\ ~desk.busy
    /\ Move
    /\ desk' = [desk EXCEPT !.busy = TRUE]
    /\ UNCHANGED <<call, using, sdk, made, current, told, taken>>

DeskRests ==
    /\ desk.busy
    /\ desk' = [desk EXCEPT !.busy = FALSE]
    /\ UNCHANGED <<call, using, sdk, made, current, told, taken, spent>>

-----------------------------------------------------------------------------
\* What the daemon does by itself, once begun.
SendStep(s) ==
    LookedUp(s) \/ Inject(s) \/ InjectRefused(s) \/ Settled(s) \/ Checked(s)
      \/ Located(s) \/ NotLocated(s) \/ Started(s)
SdkStep(o) == Park(o) \/ Take(o) \/ TurnDone(o) \/ StreamEnds(o)

Answer == \E id \in 1 .. MaxCalls : Respond(id)
Progress == \/ \E s \in Sends : SendStep(s)
            \/ \E o \in Objects : SdkStep(o)

Next ==
    \/ Progress
    \/ Answer
    \/ \E s \in Sends : Send(s) \/ LookupFails(s) \/ StartFails(s)
    \/ \E o \in Objects : CanUseTool(o) \/ StreamBreaks(o)
    \/ Interrupt
    \/ \E at \in Places : DeskOpens(at)
    \/ DeskCloses \/ DeskWorks \/ DeskRests

Spec == Init /\ [][Next]_vars

\* Every await of a send settles, the agent works on what it has and the phone
\* answers what it is shown.  Nobody has to send, interrupt or use a terminal,
\* and the agent at a terminal need not rest.
FairSpec == Spec /\ WF_vars(Progress) /\ WF_vars(Answer)

-----------------------------------------------------------------------------
(* Properties                                                              *)

TypeOK ==
    /\ desk \in [at : Places, busy : BOOLEAN]
    /\ call \in [Sends -> Phases]
    /\ using \in [Sends -> 0 .. made]
    /\ sdk \in [Objects -> Session]
    /\ made \in 0 .. MaxSessions /\ current \in 0 .. made
    /\ told \subseteq Sends /\ taken \subseteq Sends
    /\ spent \in [moves : 0 .. MaxMoves, faults : 0 .. MaxFaults]

\* A headless session that runs is the one in the map: it can be interrupted,
\* and its approvals can be answered.  Only while sends do not overlap:
\* claude-adapter.ts:158-167 looks for a session before it awaits and sets it
\* after.
RunningIsReachable == \A o \in Objects : sdk[o].running => current = o

\* What an approval of the session in the map waits for, it gets: an answer,
\* or the denial of an interrupt; it is never forgotten.
CallsSettle ==
    \A o \in Objects, id \in 1 .. MaxCalls :
        (current = o /\ id \in sdk[o].open)
          ~> (id \notin sdk[o].open)

\* A prompt the adapter accepted reaches the agent, or the phone is told that
\* the turn is over: neither a lost notification of the generator nor a pane
\* that goes away leaves it waiting.  A prompt given to a session that had
\* already failed, or that is interrupted before it is taken, is excepted.
PromptHeard ==
    \A s \in Sends :
        /\ (call[s] = "done" /\ using[s] = 0) ~> (s \in told)
        /\ \A o \in Objects :
             (using[s] = o /\ sdk[o].stream = "live"
                /\ sdk[o].running /\ s \in ToSet(sdk[o].queue))
             ~> (s \in taken \cup told \/ ~sdk[o].running)

=============================================================================
