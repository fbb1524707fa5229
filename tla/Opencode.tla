------------------------------ MODULE Opencode ------------------------------
(***************************************************************************)
(* One phone's subscription to an opencode session: OpencodeAdapter        *)
(* (agent/opencode-adapter.ts) over OpencodeClient                         *)
(* (agent/opencode-client.ts).                                             *)
(*                                                                         *)
(* Every signal (a structural event, a poll, a reconnection) starts a read *)
(* of the whole transcript; reads overlap, and what is applied is compared *)
(* with what was sent before.  opencode's own store is the environment.    *)
(*                                                                         *)
(* Abstracted: a message's blocks to how much of it there is; previews     *)
(* from text deltas (the transcript replaces them); messages of the frozen *)
(* legacy store to their number, from which the `seq' of a live one        *)
(* counts; the number of retries for a question's details.                 *)
(***************************************************************************)
EXTENDS Naturals, Sequences, FiniteSets

CONSTANTS
    MaxRows,     \* bound: rows of the live store (a row is its id)
    MaxChanges,  \* bound: changes of the store after the phone attached
    MaxSize,     \* bound: how far a reply grows
    MaxReads,    \* bound: transcript reads under way at once
    MaxFailures, \* bound: answers that are lost or cannot be read
    RowLimit,    \* V2_MESSAGE_LIMIT
    Legacy,      \* messages of the session in the legacy store
    EmptyRows,   \* does a reply appear in the store before its first block?
    MidTurn      \* may the phone already know of messages that still change?

ASSUME OpencodeAssumption ==
    /\ MaxRows \in Nat \ 0 .. 2 /\ MaxSize \in Nat \ {0} /\ MaxReads \in Nat \ {0}
    /\ MaxChanges \in Nat /\ MaxFailures \in Nat /\ RowLimit \in Nat /\ Legacy \in Nat
    /\ EmptyRows \in BOOLEAN /\ MidTurn \in BOOLEAN

VARIABLES
    rows,        \* the session_message store, oldest first
    changes,     \* changes of the store so far
    failures,    \* answers that went wrong so far
    subscribed,  \* ~stopped
    since,       \* live rows the phone has from the history page (sinceSeq)
    page,        \* how it has them
    sent,        \* what was last sent of each message
    wasRunning,  \* "unknown" before the first read, then "yes" or "no"
    status,      \* the last status event the phone got
    reads,       \* the reads under way
    fetchTimer,  \* is the debounced read armed?
    streamUp,    \* eventStream.isConnected()
    seen,        \* seenQuestionToolUseIds
    lookups,     \* how many lookups of a question's details are under way
    asked        \* how often the phone was asked each question

storeVars == <<rows, changes, failures>>
phoneVars == <<since, page>>
opencodeVars == <<storeVars, subscribed, phoneVars, sent, wasRunning, status, reads,
                  fetchTimer, streamUp, seen, lookups, asked>>

Ids == 1 .. MaxRows
Row == [role : {"user", "assistant"}, size : 0 .. MaxSize,
        end : {"open", "tools", "settled"}]
Unsent == [size |-> 0, pending |-> FALSE]
Sent == [size : 0 .. MaxSize, pending : BOOLEAN]

-----------------------------------------------------------------------------
(* What the client makes of the store.                                      *)

\* Mutant of Answers: a turn that calls tools counts as answered.
AnswersWhenDone(row) == row.role = "assistant" /\ row.end # "open"

(* A completed turn that is not followed by another one of its own. *)
Answers(row) == row.role = "assistant" /\ row.end = "settled"

HasBlocks(row) == row.size > 0

(* The rows the v2 route hands out: the oldest ones. *)
Listed(store) == {i \in DOMAIN store : i <= RowLimit}

(* listMessagesV2 keeps the state of a reply without blocks, but not the    *)
(* message.                                                                 *)
States(store) ==
    {i \in Listed(store) : HasBlocks(store[i]) \/ store[i].role = "assistant"}

Messages(store) == {i \in States(store) : HasBlocks(store[i])}

(* pendingFlags: no answered turn comes after a turn of the user. *)
PendingFlag(store, i) ==
    /\ store[i].role = "user"
    /\ \A j \in States(store) : j > i => ~Answers(store[j])

(* isTurnRunning: the newest turn has not settled. *)
IsTurnRunning(store, states) ==
    \E i \in states : ~Answers(store[i]) /\ \A j \in states : j <= i

Place(i, set) == Cardinality({j \in set : j <= i})

(* listTranscript: the n-th message goes with the flag of the n-th state. *)
Transcript(store) ==
    [i \in Messages(store) |->
        LET state == CHOOSE s \in States(store) :
                        Place(s, States(store)) = Place(i, Messages(store))
        IN  [size |-> store[i].size,
             pending |-> store[i].role = "user" /\ PendingFlag(store, state)]]

(* The tool call that asks is the last thing in its row. *)
IsQuestion(row) == row.role = "assistant" /\ row.end = "tools" /\ HasBlocks(row)

Questions(store) == {i \in Listed(store) : IsQuestion(store[i])}

(* What a read has to tell, once the answer is there. *)
Result(store) ==
    LET transcript == Transcript(store)
    IN  [shown |-> [id \in Ids |-> IF id \in DOMAIN transcript THEN transcript[id] ELSE Unsent],
         running |-> IF IsTurnRunning(store, States(store)) THEN "yes" ELSE "no",
         questions |-> Questions(store)]

NoRead == [stage |-> "none", db |-> TRUE, result |-> Result(<<>>)]

TranscriptRead ==
    [stage : {"none", "asked", "answered"}, db : BOOLEAN,
     result : [shown : [Ids -> Sent], running : {"yes", "no"}, questions : SUBSET Ids]]

Shown(id) == IF sent[id] = Unsent THEN page[id] ELSE sent[id]

-----------------------------------------------------------------------------
OpencodeTypeOK ==
    /\ rows \in Seq(Row) /\ Len(rows) <= MaxRows
    /\ changes \in 0 .. MaxChanges /\ failures \in 0 .. MaxFailures
    /\ subscribed \in BOOLEAN
    /\ since \in 0 .. MaxRows
    /\ page \in [Ids -> Sent] /\ sent \in [Ids -> Sent]
    /\ wasRunning \in {"unknown", "yes", "no"}
    /\ status \in {"none", "turn_start", "turn_end", "error"}
    /\ wasRunning = "yes" <=> status = "turn_start"
    /\ reads \in [1 .. MaxReads -> TranscriptRead]
    /\ fetchTimer \in BOOLEAN /\ streamUp \in BOOLEAN
    /\ seen \subseteq Ids
    /\ lookups \in [Ids -> Nat] /\ asked \in [Ids -> Nat]

User == [role |-> "user", size |-> 1, end |-> "settled"]
Reply(size, end) == [role |-> "assistant", size |-> size, end |-> end]

(* The session as it may be when the phone attaches: new, asked, being      *)
(* answered, answered, with a prompt queued, or between two steps of a turn. *)
Histories ==
    {<<>>, <<User>>,
     <<User, Reply(1, "open")>>, <<User, Reply(1, "settled")>>,
     <<User, Reply(1, "open"), User>>, <<User, Reply(1, "tools")>>}

(* The first read is started by subscribe itself. *)
OpencodeInit ==
    /\ rows \in Histories
    /\ since \in {0, Len(rows)}
    /\ MidTurn \/ since = 0 \/ ~IsTurnRunning(rows, DOMAIN rows)
    /\ page = [id \in Ids |-> IF id <= since THEN Result(rows).shown[id] ELSE Unsent]
    /\ changes = 0 /\ failures = 0
    /\ subscribed = TRUE
    /\ sent = [id \in Ids |-> Unsent]
    /\ wasRunning = "unknown" /\ status = "none"
    /\ reads = [r \in 1 .. MaxReads |->
                   IF r = 1 THEN [NoRead EXCEPT !.stage = "asked"] ELSE NoRead]
    /\ fetchTimer = FALSE /\ streamUp = FALSE
    /\ seen = {}
    /\ lookups = [id \in Ids |-> 0] /\ asked = [id \in Ids |-> 0]

-----------------------------------------------------------------------------
(* The adapter.                                                             *)

FirstFree ==
    {r \in 1 .. MaxReads : /\ reads[r].stage = "none"
                           /\ \A q \in 1 .. r - 1 : reads[q].stage # "none"}

(* transcript() up to its await; the store of old messages is read at once, *)
(* and a failure of that read counts as no old messages.                    *)
StartRead ==
    IF ~subscribed THEN UNCHANGED <<reads, failures>>
    ELSE \E r \in FirstFree, db \in BOOLEAN :
            /\ db \/ failures < MaxFailures
            /\ reads' = [reads EXCEPT ![r] = [NoRead EXCEPT !.stage = "asked", !.db = db]]
            /\ failures' = IF db THEN failures ELSE failures + 1

\* Mutant of Poll: no safety poll while the stream is up.
PollWhileDown ==
    /\ subscribed /\ ~streamUp
    /\ StartRead
    /\ UNCHANGED <<rows, changes, subscribed, phoneVars, sent, wasRunning, status, fetchTimer,
                   streamUp, seen, lookups, asked>>

(* The poll of 1 s without a stream, and that of 15 s with one. *)
Poll ==
    /\ subscribed
    /\ StartRead
    /\ UNCHANGED <<rows, changes, subscribed, phoneVars, sent, wasRunning, status, fetchTimer,
                   streamUp, seen, lookups, asked>>

FetchFires ==
    /\ fetchTimer
    /\ fetchTimer' = FALSE
    /\ StartRead
    /\ UNCHANGED <<rows, changes, subscribed, phoneVars, sent, wasRunning, status, streamUp,
                   seen, lookups, asked>>

(* onConnectionChange *)
ConnectionChanges ==
    /\ subscribed
    /\ streamUp' = ~streamUp
    /\ IF streamUp' THEN StartRead ELSE UNCHANGED <<reads, failures>>
    /\ UNCHANGED <<rows, changes, subscribed, phoneVars, sent, wasRunning, status, fetchTimer,
                   seen, lookups, asked>>

(* opencode answers; an answer that does not come reads as an empty store. *)
Answered(r) ==
    /\ reads[r].stage = "asked"
    /\ \/ /\ reads' = [reads EXCEPT ![r].stage = "answered", ![r].result = Result(rows)]
          /\ UNCHANGED failures
       \/ /\ failures < MaxFailures /\ failures' = failures + 1
          /\ reads' = [reads EXCEPT ![r].stage = "answered"]
    /\ UNCHANGED <<rows, changes, subscribed, phoneVars, sent, wasRunning, status, fetchTimer,
                   streamUp, seen, lookups, asked>>

(* Messages the phone has by its own account, unless one was sent since.    *)
(* Without the old messages every later one has a lower `seq'.              *)
Skipped(read, id) ==
    id <= since + (IF read.db THEN 0 ELSE Legacy) /\ sent[id] = Unsent

\* Mutant of Unseen: a question counts as seen once its details are sent.
UnseenUntilAsked(result) == {id \in result.questions : asked[id] = 0}

Unseen(result) == result.questions \ seen

(* The first read only tells of a turn that runs already. *)
StatusAfter(running) ==
    CASE running = wasRunning -> status
      [] running # wasRunning /\ running = "yes" -> "turn_start"
      [] running # wasRunning /\ running = "no" ->
            IF wasRunning = "unknown" THEN status ELSE "turn_end"

(* The read is applied: messages that changed, the turn's beginning or end, *)
(* and new questions.                                                       *)
Applied(r) ==
    /\ reads[r].stage = "answered"
    /\ reads' = [reads EXCEPT ![r] = NoRead]
    /\ IF ~subscribed
       THEN UNCHANGED <<sent, wasRunning, status, seen, lookups>>
       ELSE LET result == reads[r].result
            IN  /\ sent' = [id \in Ids |->
                               IF Skipped(reads[r], id) \/ result.shown[id] = Unsent
                               THEN sent[id] ELSE result.shown[id]]
                /\ wasRunning' = result.running
                /\ status' = StatusAfter(result.running)
                /\ seen' = seen \cup Unseen(result)
                /\ lookups' = [id \in Ids |-> IF id \in Unseen(result)
                                               THEN lookups[id] + 1 ELSE lookups[id]]
    /\ UNCHANGED <<storeVars, subscribed, phoneVars, fetchTimer, streamUp, asked>>

(* A row that cannot be read throws: the phone's spinner is ended. *)
ReadThrows(r) ==
    /\ reads[r].stage = "answered" /\ subscribed /\ failures < MaxFailures
    /\ failures' = failures + 1
    /\ reads' = [reads EXCEPT ![r] = NoRead]
    /\ IF wasRunning = "yes"
       THEN wasRunning' = "no" /\ status' = "error"
       ELSE UNCHANGED <<wasRunning, status>>
    /\ UNCHANGED <<rows, changes, subscribed, phoneVars, sent, fetchTimer, streamUp, seen,
                   lookups, asked>>

(* detectQuestions, after its await: details were found and the phone is    *)
(* asked, even when it has left; or they were not, at the last attempt.     *)
LookupEnds(id) ==
    /\ lookups[id] > 0
    /\ lookups' = [lookups EXCEPT ![id] = @ - 1]
    /\ \/ asked' = [asked EXCEPT ![id] = @ + 1]
       \/ UNCHANGED asked
    /\ UNCHANGED <<storeVars, subscribed, phoneVars, sent, wasRunning, status, reads,
                   fetchTimer, streamUp, seen>>

Stopped ==
    /\ subscribed
    /\ subscribed' = FALSE /\ fetchTimer' = FALSE
    /\ UNCHANGED <<storeVars, phoneVars, sent, wasRunning, status, reads, streamUp,
                   seen, lookups, asked>>

-----------------------------------------------------------------------------
(* opencode: the store changes, and a stream that is up may say so.  What    *)
(* it does once the phone has left is not followed (bound).                 *)
Changes(store) ==
    /\ subscribed /\ changes < MaxChanges
    /\ rows' = store /\ changes' = changes + 1
    /\ fetchTimer' \in {fetchTimer, fetchTimer \/ streamUp}
    /\ UNCHANGED <<failures, subscribed, phoneVars, sent, wasRunning, status, reads,
                   streamUp, seen, lookups, asked>>

(* A prompt, from the phone or from the desk; it may queue behind a turn. *)
Prompted ==
    /\ Len(rows) < MaxRows
    /\ Changes(Append(rows, User))

OpenReply == {i \in DOMAIN rows : rows[i].role = "assistant" /\ rows[i].end = "open"}

ReplyStarts ==
    /\ Len(rows) < MaxRows /\ IsTurnRunning(rows, DOMAIN rows) /\ OpenReply = {}
    /\ Changes(Append(rows, Reply(IF EmptyRows THEN 0 ELSE 1, "open")))

ReplyGrows ==
    \E i \in OpenReply :
        /\ rows[i].size < MaxSize
        /\ Changes([rows EXCEPT ![i].size = @ + 1])

ReplyEnds ==
    \E i \in OpenReply, end \in {"tools", "settled"} :
        Changes([rows EXCEPT ![i].end = end])

OpencodeNext ==
    \/ Poll \/ FetchFires \/ ConnectionChanges \/ Stopped
    \/ \E r \in 1 .. MaxReads : Answered(r) \/ Applied(r) \/ ReadThrows(r)
    \/ \E id \in Ids : LookupEnds(id)
    \/ Prompted \/ ReplyStarts \/ ReplyGrows \/ ReplyEnds

OpencodeSpec == OpencodeInit /\ [][OpencodeNext]_opencodeVars

(* The intervals tick, and every request is answered or given up within     *)
(* its timeout.                                                             *)
OpencodeFairness ==
    /\ WF_opencodeVars(Poll)
    /\ \A r \in 1 .. MaxReads : WF_opencodeVars(Answered(r)) /\ WF_opencodeVars(Applied(r))

FairOpencodeSpec == OpencodeSpec /\ OpencodeFairness

-----------------------------------------------------------------------------
Settled(row) == row.role = "assistant" /\ row.end = "settled"

Unanswered(id) ==
    /\ rows[id].role = "user"
    /\ \A k \in id + 1 .. Len(rows) : ~Settled(rows[k])

(* A user message is unanswered exactly when no completed reply follows it  *)
(* (opencode-client.ts:202); that is what a read makes of the store.        *)
PendingIsUnanswered ==
    \A i \in Messages(rows) : Transcript(rows)[i].pending <=> Unanswered(i)

(* Reads that overlap do not ask the phone the same question twice. *)
AskedOnce == \A id \in Ids : asked[id] <= 1

CaughtUp ==
    /\ \A id \in DOMAIN rows :
          rows[id].size > 0 => Shown(id) = [size |-> rows[id].size, pending |-> Unanswered(id)]
    /\ status = "turn_start" <=> IsTurnRunning(rows, DOMAIN rows)

(* Whatever order the reads are applied in, whichever fail, and whether or  *)
(* not the stream says anything: when the store rests, the phone shows it,  *)
(* pending marks included, and its spinner tells whether a turn runs.       *)
PhoneCatchesUp == <>[](subscribed => CaughtUp)
=============================================================================
