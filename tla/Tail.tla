-------------------------------- MODULE Tail --------------------------------
(***************************************************************************)
(* What an attached phone sees of a Claude Code transcript: the page of    *)
(* history it gets on attaching and the pages it scrolls back to           *)
(* (ClaudeAdapter.history), and the lines TranscriptTail streams to it     *)
(* while Claude Code is writing (agent/claude-tail.ts), as far as the      *)
(* parser (agent/claude-transcript.ts) makes a message of them.            *)
(*                                                                         *)
(* A message's seq is its line.  The code counts lines from 0 and says -1  *)
(* for "from the start"; here they count from 1 and the start is 0.        *)
(***************************************************************************)
EXTENDS Integers, Sequences, FiniteSets, SequencesExt, FiniteSetsExt

CONSTANTS
    PageSize,   \* messages on a page of history (50)
    MaxLines,   \* bound: lines of the transcript
    MaxAttaches \* bound: subscriptions of the phone

ASSUME TailAssumption ==
    PageSize \in Nat \ {0} /\ MaxLines \in Nat /\ MaxAttaches \in Nat

VARIABLES
    file,  \* the lines of the transcript
    tail,  \* the TranscriptTail of the subscription
    reads, \* its reads under way, and those of tails that were stopped
    from,  \* the line after which the phone asked to be streamed
    got,   \* the messages streamed to it since, in order
    back,  \* the messages it has from pages of history
    more   \* whether the last page said that there are earlier ones

tailVars == <<file, tail, reads, from, got, back, more>>

Lines == 1 .. MaxLines

\* What a line may be: a turn of the conversation, one of a subagent, a hook or
\* a reminder, one without anything to render, or half of a line.
Kinds == {"turn", "aside", "blank", "torn"}

-----------------------------------------------------------------------------
(* The transcript                                                          *)

ParseLine(line) == line # "torn"
IsHidden(line) == line = "aside"
HasBlocks(line) == line # "blank"
ToMessage(line) == ~IsHidden(line) /\ HasBlocks(line)

\* parseTranscript, from the line after `since'.
Messages(lines, since) ==
    {i \in DOMAIN lines : ParseLine(lines[i]) /\ ToMessage(lines[i]) /\ i > since}

InOrder(set) ==
    CHOOSE seq \in [1 .. Cardinality(set) -> set] :
        \A i, j \in DOMAIN seq : i < j => seq[i] < seq[j]

\* Mutant of Page: the message the phone has is counted into the page.
PageWithBefore(lines, before) ==
    LET all == Messages(lines, 0)
        earlier == IF before \in all THEN {i \in all : i <= before} ELSE all
    IN  [messages |-> {i \in earlier :
                         Cardinality({j \in earlier : j >= i}) <= PageSize},
         more |-> Cardinality(earlier) > PageSize + 1]

\* ClaudeAdapter.history: the messages before `before`, the last ones of the
\* file when there is no such message, and whether there are earlier ones.
Page(lines, before) ==
    LET all == Messages(lines, 0)
        earlier == IF before \in all THEN {i \in all : i < before} ELSE all
    IN  [messages |-> {i \in earlier :
                         Cardinality({j \in earlier : j >= i}) <= PageSize},
         more |-> Cardinality(earlier) > PageSize]

TailInit ==
    /\ file = <<>>
    /\ tail = [id |-> 0, timer |-> FALSE, reading |-> FALSE, last |-> 0]
    /\ reads = {}
    /\ from = 0
    /\ got = <<>>
    /\ back = {}
    /\ more = FALSE

\* Claude Code appends a line, in one write or in two.
Write(kind) ==
    /\ Len(file) < MaxLines
    /\ "torn" \notin ToSet(file)
    /\ file' = Append(file, kind)
    /\ UNCHANGED <<tail, reads, from, got, back, more>>

Complete(kind) ==
    /\ "torn" \in ToSet(file) /\ kind # "torn"
    /\ file' = [file EXCEPT ![Len(file)] = kind]
    /\ UNCHANGED <<tail, reads, from, got, back, more>>

-----------------------------------------------------------------------------
(* The phone                                                               *)

\* agent_attach: a page of history, then a tail of its own from the line the
\* phone names.  The tail reads from that line whatever was written between
\* the two, so they are one step.
Attach(since) ==
    /\ ~tail.timer /\ tail.id < MaxAttaches
    /\ since \in {0} \cup ToSet(got) \cup back
    /\ tail' = [id |-> tail.id + 1, timer |-> TRUE, reading |-> FALSE,
                last |-> since]
    /\ from' = since
    /\ got' = <<>>
    /\ back' = Page(file, 0).messages
    /\ more' = Page(file, 0).more
    /\ UNCHANGED <<file, reads>>

\* The phone detaches, or goes away: the tail is stopped.
Detach ==
    /\ tail.timer
    /\ tail' = [tail EXCEPT !.timer = FALSE]
    /\ UNCHANGED <<file, reads, from, got, back, more>>

\* agent_history: the page before the earliest message the phone has.
ScrollBack ==
    /\ tail.timer /\ more
    /\ LET page == Page(file, Min(back)) IN
         /\ back' = back \cup page.messages
         /\ more' = page.more
    /\ UNCHANGED <<file, tail, reads, from, got>>

-----------------------------------------------------------------------------
(* TranscriptTail                                                          *)

Read(no) == [of |-> tail.id, no |-> no, since |-> tail.last, lines |-> file]

\* Mutant of PollStarts: a slow read may overlap the next one.
PollOverlaps ==
    /\ tail.timer
    /\ Cardinality(reads) < 2
    /\ reads' = reads \cup {Read(Cardinality(reads))}
    /\ tail' = [tail EXCEPT !.reading = TRUE]
    /\ UNCHANGED <<file, from, got, back, more>>

\* The interval fires and the file is read, unless a read is under way.
PollStarts ==
    /\ tail.timer /\ ~tail.reading
    /\ reads' = reads \cup {Read(0)}
    /\ tail' = [tail EXCEPT !.reading = TRUE]
    /\ UNCHANGED <<file, from, got, back, more>>

Found(r) == InOrder(Messages(r.lines, r.since))

\* Mutant of Drained: `reading` is reset only when something was found.
DrainedIfFound(r) == [tail EXCEPT !.reading = (Found(r) = <<>>),
                                  !.last = IF Found(r) = <<>> THEN @ ELSE Last(Found(r))]

\* What a read found is sent and the tail remembers the last line.
Drained(r) == [tail EXCEPT !.reading = FALSE,
                           !.last = IF Found(r) = <<>> THEN @ ELSE Last(Found(r))]

\* A read of the tail is done.
PollEnds(r) ==
    /\ r.of = tail.id /\ tail.timer
    /\ got' = got \o Found(r)
    /\ tail' = Drained(r)
    /\ reads' = reads \ {r}
    /\ UNCHANGED <<file, from, back, more>>

\* One of a tail that was stopped meanwhile: nothing is sent.
PollEndsLate(r) ==
    /\ r.of # tail.id \/ ~tail.timer
    /\ tail' = IF r.of = tail.id THEN [tail EXCEPT !.reading = FALSE] ELSE tail
    /\ reads' = reads \ {r}
    /\ UNCHANGED <<file, from, got, back, more>>

Poll == PollStarts \/ \E r \in reads : PollEnds(r)

TailNext ==
    \/ \E kind \in Kinds : Write(kind) \/ Complete(kind)
    \/ \E since \in 0 .. MaxLines : Attach(since)
    \/ Detach
    \/ ScrollBack
    \/ Poll
    \/ \E r \in reads : PollEndsLate(r)

TailSpec == TailInit /\ [][TailNext]_tailVars

\* The interval timer keeps firing and a read of a file ends.
FairTailSpec == TailSpec /\ WF_tailVars(Poll)

-----------------------------------------------------------------------------
(* Properties                                                              *)

TailTypeOK ==
    /\ file \in Seq(Kinds) /\ Len(file) <= MaxLines
    /\ tail \in [id : 0 .. MaxAttaches, timer : BOOLEAN, reading : BOOLEAN,
                 last : 0 .. MaxLines]
    /\ reads \subseteq [of : 1 .. MaxAttaches, no : {0}, since : 0 .. MaxLines,
                        lines : Seq(Kinds)]
    /\ from \in 0 .. MaxLines
    /\ got \in Seq(Lines)
    /\ back \subseteq Lines
    /\ more \in BOOLEAN

\* The phone is streamed every message after the line it named once, in the
\* order of the file and without a gap, whatever is half written when a read
\* happens and however reads, detaching and attaching interleave
\* (claude-tail.ts:32, 57-71).
TailOnce == IsPrefix(got, InOrder(Messages(file, from)))

\* The pages a phone has scrolled through are one stretch of the transcript,
\* and it is told of earlier messages exactly when there are some: scrolling
\* back meets every message and stops at the first (claude-adapter.ts:104-113),
\* though the file grows between the pages.
HistoryWhole ==
    /\ \A i \in Messages(file, 0), j, k \in back :
          j < i /\ i < k => i \in back
    /\ more <=> /\ back # {}
                /\ \E i \in Messages(file, 0) : \A j \in back : i < j

\* A message written while the phone is attached is streamed to it, unless it
\* detaches: no read that ends, empty or not, keeps the next from starting.
TailCatchesUp ==
    \A i \in Lines :
        (tail.timer /\ i \in Messages(file, from))
          ~> (i \in ToSet(got) \/ ~tail.timer)
=============================================================================
