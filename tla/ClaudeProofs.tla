---------------------------- MODULE ClaudeProofs ----------------------------
(***************************************************************************)
(* Theorems about Claude and about Tail, which run side by side and share  *)
(* nothing but the transcript's file.                                      *)
(*                                                                         *)
(* Of Claude, TypeOK is inductive by itself, whatever overlaps.            *)
(* RunningIsReachable needs that sends do not overlap, and a               *)
(* strengthening: one send is under way at most, and while it looks for    *)
(* the transcript there is no headless session in the map, so that the     *)
(* one it makes takes nobody's place.                                      *)
(*                                                                         *)
(* Of Tail, TailOnce and HistoryWhole follow from TailInv: what was        *)
(* streamed is every message up to the last line sent, and a read under    *)
(* way started from that line and saw a beginning of the file.             *)
(***************************************************************************)
EXTENDS Claude, Tail, FiniteSetTheorems, TLAPS

-----------------------------------------------------------------------------
(* Types *)

\* The bounds are numbers.
LEMMA Bounds == MaxSessions \in Nat /\ MaxCalls \in Nat /\ MaxMoves \in Nat /\ MaxFaults \in Nat
  BY ClaudeAssumption

LEMMA UnusedType == Unused \in Session
  <1>1. <<>> \in Seq(Sends)
    OBVIOUS
  <1>2. 0 \in 0 .. MaxCalls
    BY Bounds
  <1> QED
    BY <1>1, <1>2 DEF Unused, Session

LEMMA InitTypes == Init => TypeOK
  <1> SUFFICES ASSUME Init PROVE TypeOK
    OBVIOUS
  <1>1. sdk \in [Objects -> Session]
    BY UnusedType DEF Init
  <1> QED
    BY <1>1, Bounds DEF Init, TypeOK, Places, Phases

\* A change of one session object that keeps its type keeps that of all.
LEMMA OneObject ==
  ASSUME sdk \in [Objects -> Session], NEW o, NEW r,
         o \in Objects => r \in Session
  PROVE  [sdk EXCEPT ![o] = r] \in [Objects -> Session]
  OBVIOUS

\* What the operations of a session object do to it, in types.
LEMMA PushType ==
  ASSUME TypeOK, NEW o, NEW s \in Sends
  PROVE  Push(o, s) \in [Objects -> Session]
  <1> DEFINE r == [sdk[o] EXCEPT !.queue = Append(@, s), !.parked = FALSE]
  <1>1. ASSUME o \in Objects PROVE r \in Session
    <2>1. sdk[o] \in Session
      BY <1>1 DEF TypeOK
    <2>2. Append(sdk[o].queue, s) \in Seq(Sends)
      BY <2>1 DEF Session
    <2> QED
      BY <2>1, <2>2 DEF Session
  <1>2. Push(o, s) = [sdk EXCEPT ![o] = r]
    BY DEF Push, TypeOK
  <1> QED
    BY <1>1, <1>2, OneObject DEF TypeOK

LEMMA StopType ==
  ASSUME TypeOK, NEW o
  PROVE  Stop(o) \in [Objects -> Session]
  <1> DEFINE r == [sdk[o] EXCEPT !.running = FALSE, !.parked = FALSE, !.open = {}]
  <1>1. ASSUME o \in Objects PROVE r \in Session
    BY <1>1 DEF TypeOK, Session
  <1>2. Stop(o) = [sdk EXCEPT ![o] = r]
    BY DEF Stop, TypeOK
  <1> QED
    BY <1>1, <1>2, OneObject DEF TypeOK

\* The counters stay within their bounds.
LEMMA SpentTypes ==
  ASSUME TypeOK, Fault \/ Move \/ UNCHANGED spent
  PROVE  spent' \in [moves : 0 .. MaxMoves, faults : 0 .. MaxFaults]
  <1> DEFINE S == [moves : 0 .. MaxMoves, faults : 0 .. MaxFaults]
  <1>1. spent \in S
    BY DEF TypeOK
  <1>2. CASE Fault
    <2>1. spent.faults + 1 \in 0 .. MaxFaults
      BY <1>1, <1>2, Bounds DEF Fault
    <2> QED
      BY <1>1, <1>2, <2>1 DEF Fault
  <1>3. CASE Move
    <2>1. spent.moves + 1 \in 0 .. MaxMoves
      BY <1>1, <1>3, Bounds DEF Move
    <2> QED
      BY <1>1, <1>3, <2>1 DEF Move
  <1>4. CASE UNCHANGED spent
    BY <1>1, <1>4
  <1> QED
    BY <1>2, <1>3, <1>4

\* The steps of send.
LEMMA SendTypes ==
  ASSUME TypeOK, NEW s \in Sends,
         Send(s) \/ SendStep(s) \/ LookupFails(s) \/ StartFails(s)
  PROVE  TypeOK'
  <1> USE DEF Phases, Places
  <1>1. CASE Send(s)
    BY <1>1 DEF Send, TypeOK
  <1>2. CASE LookedUp(s)
    BY <1>2 DEF LookedUp, TypeOK
  <1>3. CASE Inject(s)
    BY <1>3 DEF Inject, TypeOK
  <1>4. CASE InjectRefused(s)
    BY <1>4 DEF InjectRefused, TypeOK
  <1>5. CASE Settled(s)
    BY <1>5 DEF Settled, TypeOK
  <1>6. CASE Checked(s)
    <2>1. sdk' \in [Objects -> Session]
      BY <1>6, PushType DEF Checked, TypeOK
    <2>2. call' \in [Sends -> Phases]
      BY <1>6 DEF Checked, TypeOK
    <2>3. using' \in [Sends -> 0 .. made']
      BY <1>6 DEF Checked, TypeOK
    <2> QED
      BY <1>6, <2>1, <2>2, <2>3 DEF Checked, TypeOK
  <1>7. CASE Located(s)
    <2>1. made' = made + 1 /\ made' \in 0 .. MaxSessions /\ made' \in Objects
      BY <1>7, Bounds DEF Located, TypeOK, Objects
    <2>2. PICK n : n = made'
      OBVIOUS
    <2> DEFINE r == [sdk[n] EXCEPT !.running = TRUE]
    <2>3. sdk[n] \in Session
      BY <2>1, <2>2 DEF TypeOK
    <2>4. sdk' \in [Objects -> Session]
      <3>1. r \in Session
        BY <2>3 DEF Session
      <3>2. sdk' = [sdk EXCEPT ![n] = r]
        BY <1>7, <2>2 DEF Located, TypeOK
      <3> QED
        BY <3>1, <3>2, OneObject DEF TypeOK
    <2>5. using' \in [Sends -> 0 .. made']
      <3>1. \A t \in Sends : using[t] \in 0 .. made'
        BY <2>1, Bounds DEF TypeOK
      <3> QED
        BY <1>7, <2>1, <3>1 DEF Located, TypeOK
    <2>6. current' \in 0 .. made'
      BY <1>7, <2>1 DEF Located
    <2> QED
      BY <1>7, <2>1, <2>4, <2>5, <2>6 DEF Located, TypeOK
  <1>8. CASE NotLocated(s)
    BY <1>8 DEF NotLocated, TypeOK
  <1>9. CASE Started(s)
    <2> DEFINE q == Push(using[s], s)
               r == [q[using[s]] EXCEPT !.stream = "live"]
    <2>1. q \in [Objects -> Session]
      BY PushType
    <2>2. using[s] \in Objects => r \in Session
      BY <2>1 DEF Session
    <2>3. sdk' = [q EXCEPT ![using[s]] = r]
      BY <1>9, <2>1 DEF Started
    <2>4. sdk' \in [Objects -> Session]
      BY <2>1, <2>2, <2>3
    <2> QED
      BY <1>9, <2>4 DEF Started, TypeOK
  <1>10. CASE LookupFails(s)
    BY <1>10, SpentTypes DEF LookupFails, TypeOK
  <1>11. CASE StartFails(s)
    BY <1>11, SpentTypes DEF StartFails, TypeOK
  <1> QED
    BY <1>1, <1>2, <1>3, <1>4, <1>5, <1>6, <1>7, <1>8, <1>9, <1>10, <1>11 DEF SendStep

\* The steps of a headless session.
LEMMA SdkTypes ==
  ASSUME TypeOK, NEW o \in Objects,
         SdkStep(o) \/ CanUseTool(o) \/ StreamBreaks(o)
  PROVE  TypeOK'
  <1>0. sdk[o] \in Session /\ sdk[o].queue \in Seq(Sends)
    BY DEF TypeOK, Session
  <1>1. CASE Park(o)
    <2>1. [sdk[o] EXCEPT !.parked = TRUE] \in Session
      BY <1>0 DEF Session
    <2>2. sdk' \in [Objects -> Session]
      BY <1>1, <2>1, OneObject DEF Park, TypeOK
    <2> QED
      BY <1>1, <2>2 DEF Park, TypeOK
  <1>2. CASE Take(o)
    <2>1. sdk[o].queue # <<>>
      BY <1>2 DEF Take
    <2>2. Tail(sdk[o].queue) \in Seq(Sends) /\ Head(sdk[o].queue) \in Sends
      BY <1>0, <2>1
    <2>3. [sdk[o] EXCEPT !.queue = Tail(@), !.turn = TRUE] \in Session
      BY <1>0, <2>2 DEF Session
    <2>4. sdk' = [sdk EXCEPT ![o] = [sdk[o] EXCEPT !.queue = Tail(@), !.turn = TRUE]]
      BY <1>2 DEF Take, TypeOK
    <2>5. sdk' \in [Objects -> Session]
      BY <2>3, <2>4, OneObject DEF TypeOK
    <2> QED
      BY <1>2, <2>2, <2>5 DEF Take, TypeOK
  <1>3. CASE CanUseTool(o)
    <2> DEFINE n == sdk[o].seq + 1
    <2>1. n \in 0 .. MaxCalls /\ n \in 1 .. MaxCalls
      BY <1>0, <1>3, Bounds DEF CanUseTool, Session
    <2>2. sdk[o].open \cup {n} \in SUBSET (1 .. MaxCalls)
      BY <1>0, <2>1 DEF Session
    <2> HIDE DEF n
    <2>3. [sdk[o] EXCEPT !.seq = n, !.open = @ \cup {n}] \in Session
      BY <1>0, <2>1, <2>2 DEF Session
    <2>4. sdk' = [sdk EXCEPT ![o] = [sdk[o] EXCEPT !.seq = n, !.open = @ \cup {n}]]
      BY <1>3 DEF CanUseTool, TypeOK, n
    <2>5. sdk' \in [Objects -> Session]
      BY <2>3, <2>4, OneObject DEF TypeOK
    <2> QED
      BY <1>3, <2>5 DEF CanUseTool, TypeOK
  <1>4. CASE TurnDone(o)
    <2>1. [sdk[o] EXCEPT !.turn = FALSE] \in Session
      BY <1>0 DEF Session
    <2>2. sdk' \in [Objects -> Session]
      BY <1>4, <2>1, OneObject DEF TurnDone, TypeOK
    <2> QED
      BY <1>4, <2>2 DEF TurnDone, TypeOK
  <1>5. CASE StreamEnds(o)
    <2>1. [sdk[o] EXCEPT !.stream = "ended"] \in Session
      BY <1>0 DEF Session
    <2>2. sdk' \in [Objects -> Session]
      BY <1>5, <2>1, OneObject DEF StreamEnds, TypeOK
    <2>3. told' \subseteq Sends
      BY <1>5 DEF StreamEnds, ToldBy, TypeOK
    <2> QED
      BY <1>5, <2>2, <2>3 DEF StreamEnds, TypeOK
  <1>6. CASE StreamBreaks(o)
    <2> DEFINE r == [sdk[o] EXCEPT !.stream = "broken", !.turn = FALSE]
    <2>1. r \in Session
      BY <1>0 DEF Session
    <2>2. sdk' = [sdk EXCEPT ![o] = r]
      BY <1>6 DEF StreamBreaks, TypeOK
    <2>3. sdk' \in [Objects -> Session]
      BY <2>1, <2>2, OneObject DEF TypeOK
    <2>4. told' \subseteq Sends
      BY <1>6 DEF StreamBreaks, ToldBy, TypeOK
    <2> QED
      BY <1>6, <2>3, <2>4, SpentTypes DEF StreamBreaks, TypeOK
  <1> QED
    BY <1>1, <1>2, <1>3, <1>4, <1>5, <1>6 DEF SdkStep

\* Answers, interrupts and the desk.
LEMMA OtherTypes ==
  ASSUME TypeOK,
         \/ Answer \/ Interrupt
         \/ \E at \in Places : DeskOpens(at)
         \/ DeskCloses \/ DeskWorks \/ DeskRests
  PROVE  TypeOK'
  <1>1. CASE Answer
    <2>1. PICK id \in 1 .. MaxCalls : Respond(id)
      BY <1>1 DEF Answer
    <2> DEFINE r == [sdk[current] EXCEPT !.open = @ \ {id}]
    <2>2. current \in Objects => r \in Session
      BY DEF TypeOK, Session
    <2>3. sdk' = [sdk EXCEPT ![current] = r]
      BY <2>1 DEF Respond, TypeOK
    <2>4. sdk' \in [Objects -> Session]
      BY <2>2, <2>3, OneObject DEF TypeOK
    <2> QED
      BY <2>1, <2>4 DEF Respond, TypeOK
  <1>2. CASE Interrupt
    <2>1. 0 \in 0 .. made
      BY DEF TypeOK
    <2> QED
      BY <1>2, <2>1, StopType DEF Interrupt, TypeOK
  <1>3. CASE \E at \in Places : DeskOpens(at)
    BY <1>3, SpentTypes DEF DeskOpens, TypeOK
  <1>4. CASE DeskCloses
    BY <1>4, SpentTypes DEF DeskCloses, TypeOK, Places
  <1>5. CASE DeskWorks
    BY <1>5, SpentTypes DEF DeskWorks, TypeOK
  <1>6. CASE DeskRests
    BY <1>6 DEF DeskRests, TypeOK
  <1> QED
    BY <1>1, <1>2, <1>3, <1>4, <1>5, <1>6

LEMMA NextTypes == TypeOK /\ [Next]_vars => TypeOK'
  <1> SUFFICES ASSUME TypeOK, [Next]_vars PROVE TypeOK'
    OBVIOUS
  <1>1. CASE UNCHANGED vars
    BY <1>1 DEF vars, TypeOK
  <1>2. CASE Next
    BY <1>2, SendTypes, SdkTypes, OtherTypes DEF Next, Progress
  <1> QED
    BY <1>1, <1>2

\* Every reachable state is well-formed, whatever overlaps.
THEOREM TypeCorrect == Spec => []TypeOK
  BY InitTypes, NextTypes, PTL DEF Spec

-----------------------------------------------------------------------------
(* One headless session                                                    *)

\* One send at a time; it found the map empty when it began to locate the
\* transcript; what was never made does not run, and what runs is in the map.
OneSend == \A s, t \in Sends : (Waiting(s) /\ Waiting(t)) => s = t
EmptyWhileLocating == \A s \in Sends : call[s] = "locating" => current = 0
ReachableInv == TypeOK /\ RunningIsReachable /\ OneSend /\ EmptyWhileLocating

LEMMA InitReachable == Init => ReachableInv
  BY InitTypes
  DEF Init, ReachableInv, RunningIsReachable, OneSend, EmptyWhileLocating,
      Waiting, Unused

\* A send begins only when no other is under way, and a step of one moves no
\* other.
LEMMA NextOneSend ==
  ASSUME Overlap = FALSE, ReachableInv, [Next]_vars
  PROVE  OneSend'
  <1> USE DEF Waiting
  <1>1. call \in [Sends -> Phases]
    BY DEF ReachableInv, TypeOK
  <1>2. ASSUME NEW s \in Sends, Send(s) PROVE OneSend'
    <2>1. \A t \in Sends : ~Waiting(t)
      BY <1>2 DEF Send
    <2>2. call' = [call EXCEPT ![s] = "looking"]
      BY <1>2 DEF Send
    <2> QED
      BY <1>1, <2>1, <2>2 DEF OneSend
  <1>3. ASSUME NEW s \in Sends,
               SendStep(s) \/ LookupFails(s) \/ StartFails(s)
        PROVE  OneSend'
    <2>1. CASE Settled(s)
      BY <2>1 DEF Settled, OneSend, ReachableInv
    <2>2. ASSUME ~Settled(s)
          PROVE  Waiting(s) /\ \E p \in Phases : call' = [call EXCEPT ![s] = p]
      BY <1>1, <1>3, <2>2
      DEF SendStep, LookedUp, LookupFails, Inject, InjectRefused, Checked,
          Located, NotLocated, Started, StartFails, Phases
    <2> QED
      BY <1>1, <2>1, <2>2 DEF OneSend, ReachableInv
  <1>4. CASE UNCHANGED call
    BY <1>4 DEF OneSend, ReachableInv
  <1> QED
    BY <1>2, <1>3, <1>4
    DEF Next, Progress, SdkStep, Answer, Park, Take, TurnDone, StreamEnds,
        Respond, CanUseTool, StreamBreaks, Interrupt, DeskOpens, DeskCloses,
        DeskWorks, DeskRests, vars

\* Only an empty map lets a send begin to locate, and the send that fills it
\* is the one that located.
LEMMA NextEmpty ==
  ASSUME Overlap = FALSE, ReachableInv, [Next]_vars
  PROVE  EmptyWhileLocating'
  <1>1. call \in [Sends -> Phases]
    BY DEF ReachableInv, TypeOK
  <1>2. ASSUME NEW s \in Sends, Located(s) PROVE EmptyWhileLocating'
    <2>1. call' = [call EXCEPT ![s] = "starting"] /\ call[s] = "locating"
      BY <1>2 DEF Located
    <2>2. \A t \in Sends : t # s => call[t] # "locating"
      BY <2>1 DEF ReachableInv, OneSend, Waiting
    <2> QED
      BY <1>1, <2>1, <2>2 DEF EmptyWhileLocating
  <1>3. ASSUME NEW s \in Sends, Checked(s) PROVE EmptyWhileLocating'
    <2>1. current' = current
      BY <1>3 DEF Checked
    <2>2. CASE current = 0
      BY <2>1, <2>2 DEF EmptyWhileLocating
    <2>3. CASE current # 0
      <3>1. \A t \in Sends : call[t] # "locating"
        BY <2>3 DEF ReachableInv, EmptyWhileLocating
      <3>2. call' = [call EXCEPT ![s] = "refused"] \/ call' = [call EXCEPT ![s] = "done"]
        BY <1>3, <2>3 DEF Checked
      <3> QED
        BY <1>1, <3>1, <3>2 DEF EmptyWhileLocating
    <2> QED
      BY <2>2, <2>3
  <1>4. ASSUME NEW s \in Sends,
               \/ Send(s) \/ LookupFails(s) \/ StartFails(s) \/ LookedUp(s)
               \/ Inject(s) \/ InjectRefused(s) \/ NotLocated(s) \/ Started(s)
        PROVE  EmptyWhileLocating'
    <2>1. PICK p \in Phases \ {"locating"} : call' = [call EXCEPT ![s] = p]
      BY <1>4
      DEF Send, LookupFails, StartFails, LookedUp, Inject, InjectRefused,
          NotLocated, Started, Phases
    <2>2. current' = current
      BY <1>4
      DEF Send, LookupFails, StartFails, LookedUp, Inject, InjectRefused,
          NotLocated, Started
    <2> QED
      BY <1>1, <2>1, <2>2 DEF EmptyWhileLocating, ReachableInv
  <1>5. CASE Interrupt
    BY <1>5 DEF Interrupt, EmptyWhileLocating
  <1>6. CASE UNCHANGED <<call, current>>
    BY <1>6 DEF EmptyWhileLocating, ReachableInv
  <1> QED
    BY <1>2, <1>3, <1>4, <1>5, <1>6
    DEF Next, Progress, SendStep, SdkStep, Settled, Answer, Park, Take,
        TurnDone, StreamEnds, Respond, CanUseTool, StreamBreaks, DeskOpens,
        DeskCloses, DeskWorks, DeskRests, vars

\* A push leaves `running` alone, and so does what the generator, the agent
\* and the stream do.
LEMMA PushKeepsRunning ==
  ASSUME ReachableInv, NEW k, NEW s \in Sends
  PROVE  \A o \in Objects : Push(k, s)[o].running = sdk[o].running
  <1>1. sdk \in [Objects -> Session]
    BY DEF ReachableInv, TypeOK
  <1>2. PICK q : q = Append(sdk[k].queue, s)
    OBVIOUS
  <1>3. Push(k, s) = [sdk EXCEPT ![k] = [sdk[k] EXCEPT !.queue = q, !.parked = FALSE]]
    BY <1>1, <1>2 DEF Push
  <1> QED
    BY <1>1, <1>3 DEF Session

LEMMA SdkKeepsRunning ==
  ASSUME ReachableInv, NEW o \in Objects,
         SdkStep(o) \/ CanUseTool(o) \/ StreamBreaks(o)
  PROVE  \A p \in Objects : sdk'[p].running = sdk[p].running
  <1>1. sdk \in [Objects -> Session]
    BY DEF ReachableInv, TypeOK
  <1>2. sdk[o] \in Session
    BY <1>1
  <1>3. CASE Park(o)
    <2>1. sdk' = [sdk EXCEPT ![o] = [sdk[o] EXCEPT !.parked = TRUE]]
      BY <1>1, <1>3 DEF Park
    <2> QED
      BY <1>1, <1>2, <2>1 DEF Session
  <1>4. CASE Take(o)
    <2>1. sdk' = [sdk EXCEPT ![o] = [sdk[o] EXCEPT !.queue = Tail(@), !.turn = TRUE]]
      BY <1>1, <1>4 DEF Take
    <2> QED
      BY <1>1, <1>2, <2>1 DEF Session
  <1>5. CASE TurnDone(o)
    <2>1. sdk' = [sdk EXCEPT ![o] = [sdk[o] EXCEPT !.turn = FALSE]]
      BY <1>1, <1>5 DEF TurnDone
    <2> QED
      BY <1>1, <1>2, <2>1 DEF Session
  <1>6. CASE StreamEnds(o)
    <2>1. sdk' = [sdk EXCEPT ![o] = [sdk[o] EXCEPT !.stream = "ended"]]
      BY <1>1, <1>6 DEF StreamEnds
    <2> QED
      BY <1>1, <1>2, <2>1 DEF Session
  <1>7. CASE CanUseTool(o)
    <2>1. PICK n, c : sdk' = [sdk EXCEPT ![o] = [sdk[o] EXCEPT !.seq = n, !.open = c]]
      BY <1>1, <1>7 DEF CanUseTool
    <2> QED
      BY <1>1, <1>2, <2>1 DEF Session
  <1>8. CASE StreamBreaks(o)
    <2>1. sdk' = [sdk EXCEPT ![o] = [sdk[o] EXCEPT !.stream = "broken", !.turn = FALSE]]
      BY <1>1, <1>8 DEF StreamBreaks
    <2> QED
      BY <1>1, <1>2, <2>1 DEF Session
  <1> QED
    BY <1>3, <1>4, <1>5, <1>6, <1>7, <1>8 DEF SdkStep

\* A step that starts no session object and keeps the map keeps the property.
LEMMA NobodyStarts ==
  ASSUME ReachableInv, current' = current,
         \A o \in Objects : sdk'[o].running => sdk[o].running
  PROVE  RunningIsReachable'
  BY DEF ReachableInv, RunningIsReachable

LEMMA NextRunning ==
  ASSUME Overlap = FALSE, ReachableInv, [Next]_vars
  PROVE  RunningIsReachable'
  <1>1. sdk \in [Objects -> Session]
    BY DEF ReachableInv, TypeOK
  <1>2. ASSUME NEW s \in Sends, Located(s) PROVE RunningIsReachable'
    <2>1. current = 0 /\ current' = made'
      BY <1>2 DEF Located, ReachableInv, EmptyWhileLocating
    <2>2. \A o \in Objects : ~sdk[o].running
      BY <2>1 DEF ReachableInv, RunningIsReachable, Objects
    <2>3. PICK n : n = made'
      OBVIOUS
    <2>4. sdk' = [sdk EXCEPT ![n] = [sdk[n] EXCEPT !.running = TRUE]]
      BY <1>2, <2>3 DEF Located
    <2>5. \A o \in Objects : o # n => sdk'[o] = sdk[o]
      BY <1>1, <2>4
    <2> QED
      BY <2>1, <2>2, <2>3, <2>5 DEF RunningIsReachable
  <1>3. CASE Interrupt
    <2>1. sdk' = [sdk EXCEPT ![current] =
                    [sdk[current] EXCEPT !.running = FALSE, !.parked = FALSE, !.open = {}]]
      BY <1>1, <1>3 DEF Interrupt, Stop
    <2>2. \A o \in Objects : o # current => ~sdk[o].running
      BY DEF ReachableInv, RunningIsReachable
    <2>3. \A o \in Objects : ~sdk'[o].running
      BY <1>1, <2>1, <2>2 DEF Session
    <2> QED
      BY <2>3 DEF RunningIsReachable
  <1>4. ASSUME NEW s \in Sends, Checked(s) PROVE RunningIsReachable'
    <2>1. current' = current /\ (sdk' = sdk \/ sdk' = Push(current, s))
      BY <1>4 DEF Checked
    <2> QED
      BY <1>1, <2>1, PushKeepsRunning, NobodyStarts
  <1>5. ASSUME NEW s \in Sends, Started(s) PROVE RunningIsReachable'
    <2> DEFINE q == Push(using[s], s)
    <2>1. q \in [Objects -> Session]
      BY PushType DEF ReachableInv
    <2>2. sdk' = [q EXCEPT ![using[s]].stream = "live"] /\ current' = current
      BY <1>5 DEF Started
    <2>3. \A o \in Objects : sdk'[o].running = q[o].running
      <3> HIDE DEF q
      <3> QED
        BY <2>1, <2>2 DEF Session
    <2> QED
      BY <2>2, <2>3, PushKeepsRunning, NobodyStarts
  <1>6. ASSUME NEW o \in Objects,
               SdkStep(o) \/ CanUseTool(o) \/ StreamBreaks(o)
        PROVE  RunningIsReachable'
    <2>1. current' = current
      BY <1>6 DEF SdkStep, Park, Take, TurnDone, StreamEnds, CanUseTool, StreamBreaks
    <2> QED
      BY <1>6, <2>1, SdkKeepsRunning, NobodyStarts
  <1>7. CASE Answer
    <2>1. PICK id \in 1 .. MaxCalls : Respond(id)
      BY <1>7 DEF Answer
    <2>2. /\ sdk' = [sdk EXCEPT ![current] = [sdk[current] EXCEPT !.open = @ \ {id}]]
          /\ current' = current
      BY <1>1, <2>1 DEF Respond
    <2>3. \A o \in Objects : sdk'[o].running = sdk[o].running
      BY <1>1, <2>2 DEF Session
    <2> QED
      BY <2>2, <2>3, NobodyStarts
  <1>8. CASE UNCHANGED <<sdk, current>>
    BY <1>8 DEF RunningIsReachable, ReachableInv
  <1> QED
    BY <1>2, <1>3, <1>4, <1>5, <1>6, <1>7, <1>8
    DEF Next, Progress, SendStep, Settled, LookedUp, Inject, InjectRefused,
        NotLocated, Send, LookupFails, StartFails, DeskOpens, DeskCloses,
        DeskWorks, DeskRests, vars

LEMMA NextReachable ==
  ASSUME Overlap = FALSE
  PROVE  ReachableInv /\ [Next]_vars => ReachableInv'
  BY NextTypes, NextOneSend, NextEmpty, NextRunning DEF ReachableInv

\* As long as one send is over before the next begins, a headless session that
\* runs is the one of the sdkSessions map (agent/claude-adapter.ts:142-185), so
\* that an interrupt ends it and an answer of the phone finds it: with any
\* number of sends, interrupts, failures and terminals opened in between.
THEOREM RunningReachable ==
  ASSUME Overlap = FALSE
  PROVE  Spec => []RunningIsReachable
  BY InitReachable, NextReachable, PTL DEF Spec, ReachableInv

-----------------------------------------------------------------------------
(* Sets of lines and the lists of them                                     *)

\* Every non-empty set of numbers has a least one.
LEMMA LeastNumber ==
  ASSUME NEW S \in SUBSET Nat, S # {}
  PROVE  \E m \in S : \A k \in S : m <= k
  <1>1. PICK m \in S : \A k \in S : <<k, m>> \notin OpToRel(<, Nat)
    BY NatLessThanWellFounded, WFMin
  <1>2. ASSUME NEW k \in S PROVE m <= k
    <2>1. ~(k < m)
      BY <1>1 DEF OpToRel
    <2> QED
      BY <2>1
  <1> QED
    BY <1>2

\* Min is what its name says.
LEMMA MinIsLeast ==
  ASSUME NEW S \in SUBSET Nat, S # {}
  PROVE  Min(S) \in S /\ \A k \in S : Min(S) <= k
  BY LeastNumber DEF Min

\* Every non-empty set of lines has a last one.
LEMMA GreatestNumber ==
  ASSUME NEW n \in Nat, NEW S \in SUBSET (0 .. n), S # {}
  PROVE  \E m \in S : \A k \in S : k <= m
  <1> DEFINE D == {n - k : k \in S}
  <1>1. \A k \in S : k \in 0 .. n /\ n - k \in Nat
    OBVIOUS
  <1>2. D \in SUBSET Nat /\ D # {}
    BY <1>1
  <1>3. PICK d \in D : \A e \in D : d <= e
    BY <1>2, LeastNumber
  <1>4. PICK m \in S : d = n - m
    OBVIOUS
  <1>5. ASSUME NEW k \in S PROVE k <= m
    <2>1. d <= n - k
      BY <1>3
    <2> QED
      BY <1>1, <1>4, <2>1
  <1> QED
    BY <1>5

\* A set of lines is finite.
LEMMA FiniteLines ==
  ASSUME NEW n \in Nat, NEW S \in SUBSET (1 .. n)
  PROVE  IsFiniteSet(S) /\ Cardinality(S) \in Nat
  <1>1. IsFiniteSet(1 .. n)
    BY FS_Interval
  <1>2. IsFiniteSet(S)
    BY <1>1, FS_Subset
  <1> QED
    BY <1>2, FS_CardinalityType

\* Each element is less than those after it.
Increasing(seq) == \A i, j \in DOMAIN seq : i < j => seq[i] < seq[j]

\* The lines of a set can be listed in order: the least n for which a set of
\* lines up to n could not leads to a smaller one.
LEMMA Enumeration ==
  ASSUME NEW n \in Nat, NEW S \in SUBSET (1 .. n)
  PROVE  \E seq \in [1 .. Cardinality(S) -> S] : Increasing(seq)
  <1> DEFINE Bad == {m \in Nat : \E T \in SUBSET (1 .. m) :
                        ~ \E seq \in [1 .. Cardinality(T) -> T] : Increasing(seq)}
  <1> SUFFICES ASSUME Bad # {} PROVE FALSE
    OBVIOUS
  <1>1. PICK m \in Bad : \A k \in Bad : m <= k
    BY LeastNumber
  <1>2. PICK T \in SUBSET (1 .. m) :
            ~ \E seq \in [1 .. Cardinality(T) -> T] : Increasing(seq)
    OBVIOUS
  <1> HIDE DEF Bad
  <1>3. m \in Nat
    BY DEF Bad
  <1>4. m # 0
    <2> SUFFICES ASSUME m = 0 PROVE FALSE
      OBVIOUS
    <2>1. T = {}
      OBVIOUS
    <2>2. Cardinality(T) = 0
      BY <2>1, FS_EmptySet
    <2>3. <<>> \in [1 .. 0 -> {}] /\ Increasing(<<>>)
      BY DEF Increasing
    <2> QED
      BY <1>2, <2>1, <2>2, <2>3
  <1>5. m - 1 \in Nat /\ m - 1 \notin Bad
    BY <1>1, <1>3, <1>4
  <1>6. \A U \in SUBSET (1 .. m - 1) :
            \E seq \in [1 .. Cardinality(U) -> U] : Increasing(seq)
    BY <1>5 DEF Bad
  <1>7. m \in T
    BY <1>2, <1>3, <1>6
  <1>8. T \ {m} \in SUBSET (1 .. m - 1)
    BY <1>3
  <1>9. PICK seq \in [1 .. Cardinality(T \ {m}) -> T \ {m}] : Increasing(seq)
    BY <1>6, <1>8
  <1>10. Cardinality(T \ {m}) \in Nat /\ Cardinality(T) = Cardinality(T \ {m}) + 1
    <2>1. IsFiniteSet(T)
      BY <1>3, FiniteLines
    <2>2. IsFiniteSet(T \ {m}) /\ Cardinality(T \ {m}) = Cardinality(T) - 1
      BY <1>7, <2>1, FS_RemoveElement
    <2>3. Cardinality(T) \in Nat /\ Cardinality(T \ {m}) \in Nat
      BY <2>1, <2>2, FS_CardinalityType
    <2> QED
      BY <2>2, <2>3
  <1> DEFINE c == Cardinality(T \ {m})
             longer == [i \in 1 .. c + 1 |-> IF i = c + 1 THEN m ELSE seq[i]]
  <1> HIDE DEF c
  <1>11. c \in Nat /\ Cardinality(T) = c + 1 /\ seq \in [1 .. c -> T \ {m}]
    BY <1>9, <1>10 DEF c
  <1>12. \A i \in 1 .. c + 1 : i # c + 1 => i \in 1 .. c
    BY <1>11
  <1>13. longer \in [1 .. Cardinality(T) -> T]
    BY <1>7, <1>11, <1>12
  <1>14. Increasing(longer)
    <2> SUFFICES ASSUME NEW i \in 1 .. c + 1, NEW j \in 1 .. c + 1, i < j
                 PROVE  longer[i] < longer[j]
      BY DEF Increasing
    <2>1. i \in 1 .. c
      BY <1>11
    <2>2. seq[i] \in T \ {m}
      BY <1>11, <2>1
    <2>3. seq[i] < m
      <3>1. seq[i] \in 1 .. m - 1
        BY <1>8, <2>2
      <3> QED
        BY <3>1, <1>3
    <2>4. CASE j = c + 1
      <3>1. longer[j] = m /\ longer[i] = seq[i]
        BY <1>11, <2>1, <2>4
      <3> QED
        BY <3>1, <2>3
    <2>5. CASE j # c + 1
      <3>1. j \in 1 .. c /\ longer[j] = seq[j] /\ longer[i] = seq[i]
        BY <1>11, <1>12, <2>1, <2>5
      <3> QED
        BY <3>1, <2>1, <1>9, <1>11 DEF Increasing
    <2> QED
      BY <2>4, <2>5
  <1> QED
    BY <1>2, <1>13, <1>14

\* InOrder lists a set of lines in order and whole.
LEMMA InOrderList ==
  ASSUME NEW n \in Nat, NEW S \in SUBSET (1 .. n)
  PROVE  /\ InOrder(S) \in Seq(S)
         /\ \A i, j \in 1 .. Len(InOrder(S)) : i < j => InOrder(S)[i] < InOrder(S)[j]
         /\ \A x \in S : \E i \in 1 .. Len(InOrder(S)) : InOrder(S)[i] = x
  <1> DEFINE seq == InOrder(S)
             c == Cardinality(S)
  <1>1. IsFiniteSet(S) /\ c \in Nat
    BY FiniteLines
  <1>2. seq \in [1 .. c -> S] /\ \A i, j \in DOMAIN seq : i < j => seq[i] < seq[j]
    <2>1. \E s \in [1 .. c -> S] : \A i, j \in DOMAIN s : i < j => s[i] < s[j]
      BY Enumeration DEF Increasing
    <2> QED
      BY <2>1 DEF InOrder
  <1> HIDE DEF seq
  <1>3. seq \in Seq(S) /\ Len(seq) = c /\ DOMAIN seq = 1 .. c
    BY <1>1, <1>2
  <1>4. seq \in Injection(1 .. c, S)
    <2>1. \A i \in 1 .. c : seq[i] \in Nat
      <3>1. \A x \in S : x \in Nat
        OBVIOUS
      <3> QED
        BY <1>2, <3>1
    <2>2. ASSUME NEW i \in 1 .. c, NEW j \in 1 .. c, seq[i] = seq[j] PROVE i = j
      <3>1. i \in Nat /\ j \in Nat /\ ~(i < j) /\ ~(j < i)
        BY <1>1, <1>2, <1>3, <2>1, <2>2
      <3> QED
        BY <3>1
    <2> QED
      BY <1>2, <2>2 DEF Injection, IsInjective
  <1>5. Cardinality(1 .. c) = c
    BY <1>1, FS_Interval
  <1>6. seq \in Surjection(1 .. c, S)
    BY <1>1, <1>4, <1>5, FS_Injection
  <1>7. \A x \in S : \E i \in 1 .. c : seq[i] = x
    BY <1>6 DEF Surjection
  <1>8. /\ seq \in Seq(S)
        /\ \A i, j \in 1 .. Len(seq) : i < j => seq[i] < seq[j]
        /\ \A x \in S : \E i \in 1 .. Len(seq) : seq[i] = x
    BY <1>2, <1>3, <1>7
  <1> QED
    BY <1>8 DEF seq

\* An ordered list of some lines of S that leaves none out before its last one
\* is a prefix of the list of them all.
LEMMA OrderedPrefix ==
  ASSUME NEW n \in Nat, NEW S \in SUBSET (1 .. n), NEW p \in Seq(S),
         \A i, j \in 1 .. Len(p) : i < j => p[i] < p[j],
         \A x \in S, i \in 1 .. Len(p) : x < p[i] => \E k \in 1 .. Len(p) : p[k] = x
  PROVE  IsPrefix(p, InOrder(S))
  <1> DEFINE e == InOrder(S)
  <1>1. /\ e \in Seq(S)
        /\ \A i, j \in 1 .. Len(e) : i < j => e[i] < e[j]
        /\ \A x \in S : \E i \in 1 .. Len(e) : e[i] = x
    BY InOrderList
  <1> HIDE DEF e
  <1>2. /\ Len(p) \in Nat /\ Len(e) \in Nat
        /\ \A i \in 1 .. Len(p) : p[i] \in S /\ p[i] \in Nat
        /\ \A i \in 1 .. Len(e) : e[i] \in S /\ e[i] \in Nat
    <2>1. \A x \in S : x \in Nat
      OBVIOUS
    <2>2. Len(p) \in Nat /\ \A i \in 1 .. Len(p) : p[i] \in S
      OBVIOUS
    <2>3. Len(e) \in Nat /\ \A i \in 1 .. Len(e) : e[i] \in S
      BY <1>1
    <2> QED
      BY <2>1, <2>2, <2>3
  <1> DEFINE Diff == {i \in 1 .. Len(p) : i > Len(e) \/ p[i] # e[i]}
  <1>3. CASE Diff = {}
    <2>1. \A i \in 1 .. Len(p) : i <= Len(e) /\ p[i] = e[i]
      BY <1>2, <1>3
    <2>2. Len(p) <= Len(e)
      BY <1>2, <2>1
    <2>3. SubSeq(p, 1, Len(p)) = SubSeq(e, 1, Len(p))
      BY <1>1, <1>2, <2>1, <2>2
    <2> QED
      BY <2>2, <2>3 DEF IsPrefix, e
  <1>4. CASE Diff # {}
    <2>1. Diff \in SUBSET Nat
      OBVIOUS
    <2>2. PICK i \in Diff : \A k \in Diff : i <= k
      BY <1>4, <2>1, LeastNumber
    <2>3. i \in 1 .. Len(p) /\ (i > Len(e) \/ p[i] # e[i])
      OBVIOUS
    <2>4. \A k \in 1 .. i - 1 : k \in 1 .. Len(p) /\ k <= Len(e) /\ p[k] = e[k]
      <3> SUFFICES ASSUME NEW k \in 1 .. i - 1
                   PROVE  k \in 1 .. Len(p) /\ k <= Len(e) /\ p[k] = e[k]
        OBVIOUS
      <3>1. k \in 1 .. Len(p) /\ k < i
        BY <1>2, <2>3
      <3>2. k \notin Diff
        BY <2>2, <2>3, <3>1, <1>2
      <3> QED
        BY <3>1, <3>2, <1>2
    <2> HIDE DEF Diff
    <2>5. PICK k \in 1 .. Len(e) : e[k] = p[i]
      BY <1>1, <1>2, <2>3
    <2>6. ~(k < i)
      <3> SUFFICES ASSUME k < i PROVE FALSE
        OBVIOUS
      <3>1. k \in 1 .. i - 1
        BY <1>2, <2>3
      <3>2. p[k] = e[k] /\ p[k] < p[i]
        BY <2>3, <2>4, <3>1
      <3> QED
        BY <1>2, <2>3, <2>5, <3>2
    <2>7. i < k /\ i \in 1 .. Len(e)
      BY <1>2, <2>3, <2>5, <2>6
    <2>8. e[i] < p[i] /\ e[i] \in S /\ e[i] \in Nat
      BY <1>1, <1>2, <2>5, <2>7
    <2>9. PICK j \in 1 .. Len(p) : p[j] = e[i]
      BY <2>3, <2>8
    <2>10. CASE j < i
      <3>1. j \in 1 .. i - 1
        BY <1>2, <2>3, <2>10
      <3>2. p[j] = e[j] /\ e[j] < e[i]
        BY <1>1, <1>2, <2>4, <2>7, <2>10, <3>1
      <3> QED
        BY <2>8, <2>9, <3>2
    <2>11. CASE ~(j < i)
      <3>1. i = j \/ p[i] < p[j]
        BY <1>2, <2>3, <2>11
      <3> QED
        BY <1>2, <2>3, <2>8, <2>9, <3>1
    <2> QED
      BY <2>10, <2>11
  <1> QED
    BY <1>3, <1>4

-----------------------------------------------------------------------------
(* The transcript a phone sees (Tail)                                      *)

\* Only the last line may be half of one.
TornIsLast == \A i \in DOMAIN file : file[i] = "torn" => i = Len(file)

\* What a read has seen is what the file began with at the time: a line of it
\* differs from that of the file only where it was the torn end.
BeginningOf(lines) ==
    /\ lines \in Seq(Kinds) /\ Len(lines) <= Len(file)
    /\ \A i \in 1 .. Len(lines) :
          lines[i] = file[i] \/ (lines[i] = "torn" /\ i = Len(lines))

\* A tail has one read at a time, and the line it started from is still the
\* last one that was sent.
ReadOfTail(r) == r.of = tail.id => tail.reading /\ r.since = tail.last
ReadsInStep ==
    /\ \A r \in reads : BeginningOf(r.lines) /\ r.of <= tail.id /\ ReadOfTail(r)
    /\ \A r, q \in reads : r.of = tail.id /\ q.of = tail.id => r = q
    /\ tail.timer => tail.id # 0

\* What was streamed: the messages up to the last line, in order.
StreamedSoFar ==
    /\ \A i, j \in 1 .. Len(got) : i < j => got[i] < got[j]
    /\ ToSet(got) = {i \in Messages(file, from) : i <= tail.last}
    /\ from <= tail.last
    /\ tail.last \in {0} \cup Messages(file, 0)

PagesOfFile == back \subseteq Messages(file, 0)

TailInv ==
    TailTypeOK /\ TornIsLast /\ ReadsInStep /\ StreamedSoFar /\ PagesOfFile /\ HistoryWhole

\* The bounds are numbers.
LEMMA TailBounds == PageSize \in Nat \ {0} /\ MaxLines \in Nat /\ MaxAttaches \in Nat
  BY TailAssumption

\* Of the kinds of lines only a turn makes a message.
LEMMA MessagesAreTurns ==
  ASSUME NEW lines \in Seq(Kinds), NEW since
  PROVE  Messages(lines, since) = {i \in 1 .. Len(lines) : lines[i] = "turn" /\ i > since}
  <1>1. \A i \in 1 .. Len(lines) :
            (ParseLine(lines[i]) /\ ToMessage(lines[i])) <=> lines[i] = "turn"
    BY DEF Kinds, ParseLine, ToMessage, IsHidden, HasBlocks
  <1>2. DOMAIN lines = 1 .. Len(lines)
    OBVIOUS
  <1> QED
    BY <1>1, <1>2 DEF Messages

\* The messages of the file are lines of it.
LEMMA FileMessages ==
  ASSUME TailTypeOK
  PROVE  /\ Len(file) \in Nat /\ Len(file) <= MaxLines
         /\ \A s : Messages(file, s) = {i \in 1 .. Len(file) : file[i] = "turn" /\ i > s}
         /\ \A s : Messages(file, s) \in SUBSET (1 .. Len(file))
         /\ \A s : Messages(file, s) \in SUBSET Lines
  <1>1. Len(file) \in Nat /\ Len(file) <= MaxLines /\ file \in Seq(Kinds)
    BY DEF TailTypeOK
  <1>2. \A s : Messages(file, s) = {i \in 1 .. Len(file) : file[i] = "turn" /\ i > s}
    BY <1>1, MessagesAreTurns
  <1>3. ASSUME NEW s PROVE Messages(file, s) \in SUBSET (1 .. Len(file))
    BY <1>2
  <1>4. 1 .. Len(file) \subseteq Lines
    BY <1>1, TailBounds DEF Lines
  <1> QED
    BY <1>1, <1>2, <1>3, <1>4

LEMMA TailInitInv == TailInit => TailInv
  <1> SUFFICES ASSUME TailInit PROVE TailInv
    OBVIOUS
  <1> USE TailBounds
  <1>1. file = <<>> /\ Len(file) = 0 /\ file \in Seq(Kinds)
    BY DEF TailInit
  <1>2. TailTypeOK
    <2>1. tail \in [id : 0 .. MaxAttaches, timer : BOOLEAN, reading : BOOLEAN,
                    last : 0 .. MaxLines]
      BY DEF TailInit
    <2>2. got \in Seq(Lines) /\ back \subseteq Lines /\ from \in 0 .. MaxLines
      BY DEF TailInit
    <2>3. Len(file) <= MaxLines
      BY <1>1
    <2>4. reads \subseteq [of : 1 .. MaxAttaches, no : {0}, since : 0 .. MaxLines,
                          lines : Seq(Kinds)]
      BY DEF TailInit
    <2> QED
      BY <1>1, <2>1, <2>2, <2>3, <2>4 DEF TailInit, TailTypeOK
  <1>3. \A s : Messages(file, s) = {}
    BY <1>1, <1>2, FileMessages
  <1>4. TornIsLast /\ ReadsInStep /\ PagesOfFile /\ HistoryWhole
    BY <1>1, <1>3 DEF TailInit, TornIsLast, ReadsInStep, PagesOfFile, HistoryWhole
  <1>5. StreamedSoFar
    <2>1. ToSet(got) = {}
      BY DEF TailInit, ToSet
    <2> QED
      BY <1>3, <2>1 DEF TailInit, StreamedSoFar
  <1> QED
    BY <1>2, <1>4, <1>5 DEF TailInv

\* Claude Code's step: the line it ends with is new or was torn, and no earlier
\* one changes.
LEMMA FileChanges ==
  ASSUME TailInv, NEW kind \in Kinds, Write(kind) \/ Complete(kind)
  PROVE  /\ file' \in Seq(Kinds) /\ Len(file') <= MaxLines
         /\ Len(file') >= 1 /\ Len(file) <= Len(file')
         /\ \A i \in 1 .. Len(file') - 1 : i \in 1 .. Len(file) /\ file'[i] = file[i]
         /\ \A i \in 1 .. Len(file') - 1 : file[i] # "torn"
         /\ Len(file) = Len(file') => file[Len(file)] = "torn"
  <1> USE TailBounds
  <1>1. file \in Seq(Kinds) /\ Len(file) \in Nat /\ Len(file) <= MaxLines /\ TornIsLast
    BY DEF TailInv, TailTypeOK
  <1>2. CASE Write(kind)
    <2>1. file' = Append(file, kind) /\ Len(file) < MaxLines /\ "torn" \notin ToSet(file)
      BY <1>2 DEF Write
    <2>2. \A i \in 1 .. Len(file) : file[i] # "torn"
      BY <1>1, <2>1 DEF ToSet
    <2>3. Len(file') = Len(file) + 1 /\ \A i \in 1 .. Len(file) : file'[i] = file[i]
      BY <1>1, <2>1
    <2> QED
      BY <1>1, <2>1, <2>2, <2>3
  <1>3. CASE Complete(kind)
    <2>1. file' = [file EXCEPT ![Len(file)] = kind] /\ "torn" \in ToSet(file)
      BY <1>3 DEF Complete
    <2>2. file # <<>> /\ Len(file) >= 1 /\ file[Len(file)] = "torn"
      BY <1>1, <2>1 DEF ToSet, TornIsLast
    <2>3. \A i \in 1 .. Len(file) - 1 : file[i] # "torn"
      BY <1>1 DEF TornIsLast
    <2>4. file' \in [1 .. Len(file) -> Kinds]
      <3>1. file \in [1 .. Len(file) -> Kinds]
        BY <1>1
      <3> QED
        BY <2>1, <3>1
    <2>5. file' \in Seq(Kinds) /\ Len(file') = Len(file)
      BY <1>1, <2>4
    <2>6. \A i \in 1 .. Len(file) - 1 : file'[i] = file[i]
      BY <1>1, <2>1
    <2> QED
      BY <1>1, <2>2, <2>3, <2>5, <2>6
  <1> QED
    BY <1>2, <1>3

\* A line is written: it comes after every message there is.
LEMMA FileInv ==
  ASSUME TailInv, NEW kind \in Kinds, Write(kind) \/ Complete(kind)
  PROVE  TailInv'
  <1> DEFINE m == Len(file')
  <1>1. UNCHANGED <<tail, reads, from, got, back, more>>
    BY DEF Write, Complete
  <1>2. /\ file' \in Seq(Kinds) /\ m <= MaxLines /\ m \in Nat
        /\ m >= 1 /\ Len(file) <= m
        /\ \A i \in 1 .. m - 1 : i \in 1 .. Len(file) /\ file'[i] = file[i]
        /\ \A i \in 1 .. m - 1 : file[i] # "torn"
        /\ Len(file) = m => file[Len(file)] = "torn"
    BY FileChanges
  <1> HIDE DEF m
  <1>3. TailTypeOK /\ TailTypeOK'
    BY <1>1, <1>2 DEF TailInv, TailTypeOK, m
  <1>4. Len(file) \in Nat /\ file \in Seq(Kinds)
    BY <1>3 DEF TailTypeOK
  <1>5. /\ \A s : Messages(file, s) = {i \in 1 .. Len(file) : file[i] = "turn" /\ i > s}
        /\ \A s : Messages(file', s) = {i \in 1 .. m : file'[i] = "turn" /\ i > s}
    BY <1>2, <1>3, <1>4, FileMessages, MessagesAreTurns DEF m
  <1>6. \A s : Messages(file, s) \subseteq 1 .. m - 1
    <2> SUFFICES ASSUME NEW s, NEW i \in Messages(file, s) PROVE i \in 1 .. m - 1
      OBVIOUS
    <2>1. i \in 1 .. Len(file) /\ file[i] = "turn"
      BY <1>5
    <2>2. CASE Len(file) = m
      <3>1. i # Len(file)
        BY <1>2, <2>1, <2>2
      <3> QED
        BY <1>2, <1>4, <2>1, <2>2, <3>1
    <2>3. CASE Len(file) # m
      BY <1>2, <1>4, <2>1, <2>3
    <2> QED
      BY <2>2, <2>3
  <1>7. \A s : \A i \in 1 .. m - 1 : i \in Messages(file', s) <=> i \in Messages(file, s)
    BY <1>2, <1>5
  <1>8. \A s : Messages(file, s) \subseteq Messages(file', s) /\ Messages(file', s) \subseteq 1 .. m
    BY <1>5, <1>6, <1>7
  <1>9. TornIsLast'
    BY <1>2 DEF TornIsLast, m
  <1>10. ReadsInStep'
    <2>1. ASSUME NEW r \in reads PROVE BeginningOf(r.lines)'
      <3>1. BeginningOf(r.lines)
        BY DEF TailInv, ReadsInStep
      <3>2. Len(r.lines) \in Nat /\ Len(r.lines) <= m
        BY <1>2, <1>4, <3>1 DEF BeginningOf
      <3>3. ASSUME NEW i \in 1 .. Len(r.lines)
            PROVE  r.lines[i] = file'[i] \/ (r.lines[i] = "torn" /\ i = Len(r.lines))
        <4>1. r.lines[i] = file[i] \/ (r.lines[i] = "torn" /\ i = Len(r.lines))
          BY <3>1 DEF BeginningOf
        <4>2. CASE i <= m - 1
          <5>1. i \in 1 .. m - 1
            BY <1>2, <3>2, <4>2
          <5> QED
            BY <1>2, <4>1, <5>1
        <4>3. CASE ~(i <= m - 1)
          <5>1. i = m /\ i = Len(r.lines) /\ Len(file) = m
            BY <1>2, <1>4, <3>1, <3>2, <4>3 DEF BeginningOf
          <5> QED
            BY <1>2, <4>1, <5>1
        <4> QED
          BY <4>2, <4>3
      <3> QED
        BY <3>1, <3>2, <3>3 DEF BeginningOf, m
    <2> QED
      BY <1>1, <2>1 DEF TailInv, ReadsInStep, ReadOfTail
  <1>11. StreamedSoFar'
    <2>1. tail.last \in Nat /\ tail.last < m
      BY <1>2, <1>3, <1>6 DEF TailInv, StreamedSoFar, TailTypeOK
    <2>2. {i \in Messages(file, from) : i <= tail.last}
              = {i \in Messages(file', from) : i <= tail.last}
      <3>1. ASSUME NEW i \in Messages(file', from), i <= tail.last PROVE i \in 1 .. m - 1
        BY <1>2, <1>8, <2>1, <3>1
      <3> QED
        BY <1>6, <1>7, <3>1
    <2> QED
      BY <1>1, <1>8, <2>2 DEF TailInv, StreamedSoFar
  <1>12. PagesOfFile'
    BY <1>1, <1>8 DEF TailInv, PagesOfFile
  <1>13. HistoryWhole'
    <2>1. back \subseteq 1 .. m - 1
      BY <1>6 DEF TailInv, PagesOfFile
    <2>2. ASSUME NEW i \in Messages(file', 0), NEW j \in back, NEW k \in back, j < i, i < k
          PROVE  i \in back
      <3>1. i \in 1 .. m - 1
        BY <1>2, <1>8, <2>1, <2>2
      <3> QED
        BY <1>7, <2>2, <3>1 DEF TailInv, HistoryWhole
    <2>3. ASSUME back # {}
          PROVE  (\E i \in Messages(file', 0) : \A j \in back : i < j)
                   <=> (\E i \in Messages(file, 0) : \A j \in back : i < j)
      <3>1. PICK k \in back : TRUE
        BY <2>3
      <3>2. ASSUME NEW i \in Messages(file', 0), \A j \in back : i < j PROVE i \in 1 .. m - 1
        <4>1. i < k /\ i \in 1 .. m /\ k \in 1 .. m - 1
          BY <1>8, <2>1, <3>2
        <4> QED
          BY <1>2, <4>1
      <3> QED
        BY <1>6, <1>7, <3>2
    <2> QED
      BY <1>1, <2>2, <2>3 DEF TailInv, HistoryWhole
  <1> QED
    BY <1>3, <1>9, <1>10, <1>11, <1>12, <1>13 DEF TailInv

\* What a page is taken from S: the last PageSize lines of it.
LastOf(S) == {i \in S : Cardinality({j \in S : j >= i}) <= PageSize}

\* The last lines of S have no gap, are some if S has any, and are not all of S
\* exactly when S has more than a page of them.
LEMMA LastLines ==
  ASSUME NEW n \in Nat, NEW S \in SUBSET (1 .. n)
  PROVE  /\ LastOf(S) \subseteq S
         /\ \A i \in S, j \in LastOf(S) : j <= i => i \in LastOf(S)
         /\ S # {} => LastOf(S) # {}
         /\ Cardinality(S) > PageSize
              <=> LastOf(S) # {} /\ \E i \in S : \A j \in LastOf(S) : i < j
  <1> USE TailBounds
  <1> DEFINE From(i) == {j \in S : j >= i}
  <1>1. \A i \in S : i \in Nat
    OBVIOUS
  <1>2. IsFiniteSet(S) /\ Cardinality(S) \in Nat
    BY FiniteLines
  <1>3. ASSUME NEW i PROVE /\ IsFiniteSet(From(i)) /\ Cardinality(From(i)) \in Nat
                           /\ Cardinality(From(i)) <= Cardinality(S)
    BY <1>2, FS_Subset, FiniteLines
  <1>4. ASSUME NEW i \in S, NEW j \in LastOf(S), j <= i PROVE i \in LastOf(S)
    <2>1. From(i) \in SUBSET From(j)
      <3>1. j \in S /\ i \in Nat /\ j \in Nat
        BY <1>1 DEF LastOf
      <3>2. ASSUME NEW k \in S, k >= i PROVE k >= j
        BY <1>1, <1>4, <3>1, <3>2
      <3> QED
        BY <3>2
    <2>2. Cardinality(From(i)) <= Cardinality(From(j))
      BY <1>3, <2>1, FS_Subset
    <2>3. Cardinality(From(j)) <= PageSize
      BY DEF LastOf
    <2>4. Cardinality(From(i)) <= PageSize
      BY <1>3, <2>2, <2>3
    <2> QED
      BY <2>4 DEF LastOf
  <1>5. ASSUME S # {} PROVE LastOf(S) # {}
    <2>1. PICK m \in S : \A k \in S : k <= m
      <3>1. S \in SUBSET (0 .. n)
        OBVIOUS
      <3> QED
        BY <1>5, <3>1, GreatestNumber
    <2>2. From(m) = {m}
      <3>1. ASSUME NEW k \in S, k >= m PROVE k = m
        BY <1>1, <2>1, <3>1
      <3>2. m >= m
        BY <1>1
      <3> QED
        BY <3>1, <3>2
    <2>3. Cardinality(From(m)) = 1
      BY <2>2, FS_Singleton
    <2>4. Cardinality(From(m)) <= PageSize
      BY <2>3
    <2> QED
      BY <2>4 DEF LastOf
  <1>6. ASSUME Cardinality(S) > PageSize
        PROVE  LastOf(S) # {} /\ \E i \in S : \A j \in LastOf(S) : i < j
    <2>1. S # {}
      BY <1>6, FS_EmptySet
    <2>2. PICK m \in S : \A k \in S : m <= k
      BY <1>1, <2>1, LeastNumber
    <2>3. From(m) = S
      BY <2>2
    <2>4. m \notin LastOf(S)
      <3>1. ~(Cardinality(From(m)) <= PageSize)
        BY <1>2, <1>6, <2>3
      <3> QED
        BY <3>1 DEF LastOf
    <2>5. ASSUME NEW j \in LastOf(S) PROVE m < j
      <3>1. j \in S /\ j # m
        BY <2>4 DEF LastOf
      <3> QED
        BY <1>1, <2>2, <3>1
    <2> QED
      BY <1>5, <2>1, <2>5
  <1>7. ASSUME NEW i \in S, \A j \in LastOf(S) : i < j PROVE Cardinality(S) > PageSize
    <2>1. i \notin LastOf(S)
      BY <1>1, <1>7
    <2>2. ~(Cardinality(From(i)) <= PageSize)
      BY <2>1 DEF LastOf
    <2> QED
      BY <1>2, <1>3, <2>2
  <1> QED
    BY <1>4, <1>5, <1>6, <1>7 DEF LastOf

\* A page in terms of the set it is taken from.
LEMMA PageOf ==
  ASSUME NEW before,
         NEW S, S = IF before \in Messages(file, 0)
                    THEN {i \in Messages(file, 0) : i < before} ELSE Messages(file, 0)
  PROVE  /\ Page(file, before).messages = LastOf(S)
         /\ Page(file, before).more = (Cardinality(S) > PageSize)
  BY DEF Page, LastOf

\* The phone attaches: the last page of the file, and a tail with no read.
LEMMA AttachInv ==
  ASSUME TailInv, NEW since \in 0 .. MaxLines, Attach(since)
  PROVE  TailInv'
  <1> USE TailBounds
  <1> DEFINE S == Messages(file, 0)
  <1>1. TailTypeOK
    BY DEF TailInv
  <1>2. S \in SUBSET (1 .. Len(file)) /\ Len(file) \in Nat /\ S \in SUBSET Lines
    BY <1>1, FileMessages
  <1>3. 0 \notin S
    BY <1>2
  <1>4. back' = LastOf(S) /\ more' = (Cardinality(S) > PageSize)
    BY <1>3, PageOf DEF Attach
  <1>5. /\ LastOf(S) \subseteq S
        /\ \A i \in S, j \in LastOf(S) : j <= i => i \in LastOf(S)
        /\ Cardinality(S) > PageSize
              <=> LastOf(S) # {} /\ \E i \in S : \A j \in LastOf(S) : i < j
    BY <1>2, LastLines
  <1>6. /\ tail' = [id |-> tail.id + 1, timer |-> TRUE, reading |-> FALSE, last |-> since]
        /\ from' = since /\ got' = <<>> /\ UNCHANGED <<file, reads>>
        /\ tail.id < MaxAttaches
        /\ since \in {0} \cup ToSet(got) \cup back
    BY DEF Attach
  <1>7. since \in {0} \cup S
    <2>1. ToSet(got) \subseteq S
      BY <1>1, FileMessages DEF TailInv, StreamedSoFar, TailTypeOK
    <2> QED
      BY <1>6, <2>1 DEF TailInv, PagesOfFile
  <1> HIDE DEF S
  <1>8. TailTypeOK'
    <2>1. tail.id \in Nat /\ tail.id + 1 \in 0 .. MaxAttaches
      BY <1>1, <1>6 DEF TailTypeOK
    <2>2. tail' \in [id : 0 .. MaxAttaches, timer : BOOLEAN, reading : BOOLEAN,
                     last : 0 .. MaxLines]
      BY <1>6, <2>1
    <2>3. back' \subseteq Lines
      BY <1>2, <1>4, <1>5
    <2>4. more' \in BOOLEAN
      BY <1>4
    <2>5. got' \in Seq(Lines) /\ from' \in 0 .. MaxLines
      BY <1>6
    <2> QED
      BY <1>1, <1>6, <2>2, <2>3, <2>4, <2>5 DEF TailTypeOK
  <1>9. TornIsLast'
    BY <1>6 DEF TailInv, TornIsLast
  <1>10. ReadsInStep'
    <2>1. tail.id \in Nat /\ \A r \in reads : r.of \in Nat
      BY <1>1 DEF TailTypeOK
    <2>2. tail'.id = tail.id + 1
      BY <1>6
    <2>3. \A r \in reads : r.of <= tail.id /\ BeginningOf(r.lines)
      BY DEF TailInv, ReadsInStep
    <2>4. \A r \in reads : r.of <= tail'.id /\ r.of # tail'.id /\ BeginningOf(r.lines)'
      BY <1>6, <2>1, <2>2, <2>3 DEF BeginningOf
    <2> QED
      BY <1>6, <2>1, <2>2, <2>4 DEF ReadsInStep, ReadOfTail
  <1>11. StreamedSoFar'
    <2>1. ToSet(got') = {}
      BY <1>6 DEF ToSet
    <2>2. {i \in Messages(file, since) : i <= since} = {}
      BY <1>1, FileMessages
    <2>3. since \in Int /\ since <= since
      OBVIOUS
    <2> QED
      BY <1>6, <1>7, <2>1, <2>2, <2>3 DEF StreamedSoFar, S
  <1>12. PagesOfFile'
    BY <1>4, <1>5, <1>6 DEF PagesOfFile, S
  <1>13. HistoryWhole'
    <2>1. \A i \in S : i \in Nat
      BY <1>2
    <2>2. ASSUME NEW i \in S, NEW j \in LastOf(S), NEW k \in LastOf(S), j < i, i < k
          PROVE  i \in LastOf(S)
      <3>1. j <= i
        BY <1>5, <2>1, <2>2
      <3> QED
        BY <1>5, <3>1
    <2>3. Messages(file, 0)' = S
      BY <1>6 DEF S
    <2> QED
      BY <1>4, <1>5, <2>2, <2>3 DEF HistoryWhole
  <1> QED
    BY <1>8, <1>9, <1>10, <1>11, <1>12, <1>13 DEF TailInv

LEMMA DetachInv == TailInv /\ Detach => TailInv'
  <1> SUFFICES ASSUME TailInv, Detach PROVE TailInv'
    OBVIOUS
  <1>1. /\ tail' = [tail EXCEPT !.timer = FALSE]
        /\ UNCHANGED <<file, reads, from, got, back, more>>
    BY DEF Detach
  <1>2. TailTypeOK /\ TailTypeOK'
    BY <1>1 DEF TailInv, TailTypeOK
  <1>3. tail'.id = tail.id /\ tail'.last = tail.last /\ tail'.reading = tail.reading
        /\ tail'.timer = FALSE
    BY <1>1, <1>2 DEF TailTypeOK
  <1>4. ReadsInStep'
    BY <1>1, <1>3 DEF TailInv, ReadsInStep, ReadOfTail, BeginningOf
  <1>5. StreamedSoFar' /\ TornIsLast' /\ PagesOfFile' /\ HistoryWhole'
    BY <1>1, <1>3 DEF TailInv, StreamedSoFar, TornIsLast, PagesOfFile, HistoryWhole
  <1> QED
    BY <1>2, <1>4, <1>5 DEF TailInv

\* A page before the first message the phone has joins what it has.
LEMMA ScrollBackInv == TailInv /\ ScrollBack => TailInv'
  <1> SUFFICES ASSUME TailInv, ScrollBack PROVE TailInv'
    OBVIOUS
  <1> DEFINE all == Messages(file, 0)
             first == Min(back)
             S == {i \in all : i < first}
  <1>1. TailTypeOK /\ PagesOfFile /\ HistoryWhole
    BY DEF TailInv
  <1>2. all \in SUBSET (1 .. Len(file)) /\ Len(file) \in Nat /\ all \in SUBSET Lines
    BY <1>1, FileMessages
  <1>3. \A i \in all : i \in Nat
    BY <1>2
  <1>4. back \subseteq all /\ back # {}
    BY <1>1 DEF ScrollBack, PagesOfFile, HistoryWhole
  <1>5. first \in back /\ \A k \in back : first <= k
    BY <1>3, <1>4, MinIsLeast
  <1>6. first \in all /\ first \in Nat
    BY <1>3, <1>4, <1>5
  <1>7. back' = back \cup LastOf(S) /\ more' = (Cardinality(S) > PageSize)
    BY <1>6, PageOf DEF ScrollBack
  <1>8. UNCHANGED <<file, tail, reads, from, got>>
    BY DEF ScrollBack
  <1> HIDE DEF all, first
  <1>9. /\ LastOf(S) \subseteq S
        /\ \A i \in S, j \in LastOf(S) : j <= i => i \in LastOf(S)
        /\ S # {} => LastOf(S) # {}
        /\ Cardinality(S) > PageSize
              <=> LastOf(S) # {} /\ \E i \in S : \A j \in LastOf(S) : i < j
    <2>1. S \in SUBSET (1 .. Len(file))
      BY <1>2
    <2> QED
      BY <1>2, <2>1, LastLines
  <1>10. S # {}
    BY <1>1, <1>5 DEF ScrollBack, HistoryWhole, all
  <1> HIDE DEF S
  <1>11. TailTypeOK'
    <2>1. back' \subseteq Lines
      BY <1>2, <1>4, <1>7, <1>9 DEF S
    <2>2. more' \in BOOLEAN
      BY <1>7
    <2> QED
      BY <1>1, <1>8, <2>1, <2>2 DEF TailTypeOK
  <1>12. PagesOfFile'
    BY <1>4, <1>7, <1>8, <1>9 DEF PagesOfFile, S, all
  <1>13. HistoryWhole'
    <2>1. all' = all
      BY <1>8 DEF all
    <2>2. ASSUME NEW i \in all, NEW j \in back', NEW k \in back', j < i, i < k
          PROVE  i \in back'
      <3>1. i \in Nat /\ j \in Nat /\ k \in Nat /\ j \in all /\ k \in all
        BY <1>3, <1>4, <1>7, <1>9, <2>2 DEF S
      <3>2. CASE i < first
        <4>1. j \notin back
          BY <1>5, <1>6, <2>2, <3>1, <3>2
        <4>2. j \in LastOf(S) /\ i \in S
          BY <1>7, <3>2, <4>1, <2>2 DEF S
        <4>3. j <= i
          BY <3>1, <2>2
        <4> QED
          BY <1>7, <1>9, <4>2, <4>3
      <3>3. CASE i = first
        BY <1>5, <1>7, <3>3
      <3>4. CASE first < i
        <4>1. k \notin S
          BY <1>6, <2>2, <3>1, <3>4 DEF S
        <4>2. k \in back
          BY <1>7, <1>9, <2>2, <4>1
        <4>3. i \in back
          BY <1>1, <1>5, <2>2, <3>4, <4>2 DEF HistoryWhole, all
        <4> QED
          BY <1>7, <4>3
      <3> QED
        BY <1>6, <3>1, <3>2, <3>3, <3>4
    <2>3. back' # {}
      BY <1>4, <1>7
    <2>4. ASSUME NEW i \in S, \A j \in LastOf(S) : i < j
          PROVE  \A j \in back' : i < j
      <3>1. i < first /\ i \in Nat
        BY <1>3 DEF S
      <3>2. ASSUME NEW j \in back PROVE i < j
        BY <1>3, <1>4, <1>5, <1>6, <3>1
      <3> QED
        BY <1>7, <2>4, <3>2
    <2>5. ASSUME NEW i \in all, \A j \in back' : i < j
          PROVE  i \in S /\ \A j \in LastOf(S) : i < j
      <3>1. i < first
        BY <1>5, <1>7, <2>5
      <3> QED
        BY <1>7, <2>5, <3>1 DEF S
    <2>6. more' <=> \E i \in all : \A j \in back' : i < j
      <3>1. S \subseteq all
        BY DEF S
      <3>2. more' <=> \E i \in S : \A j \in LastOf(S) : i < j
        BY <1>7, <1>9, <1>10
      <3> QED
        BY <2>4, <2>5, <3>1, <3>2
    <2> HIDE DEF all
    <2> QED
      BY <2>1, <2>2, <2>3, <2>6 DEF HistoryWhole, all
  <1>14. TornIsLast' /\ ReadsInStep' /\ StreamedSoFar'
    BY <1>8 DEF TailInv, TornIsLast, ReadsInStep, ReadOfTail, BeginningOf, StreamedSoFar
  <1> QED
    BY <1>11, <1>12, <1>13, <1>14 DEF TailInv

LEMMA PollStartsInv == TailInv /\ PollStarts => TailInv'
  <1> SUFFICES ASSUME TailInv, PollStarts PROVE TailInv'
    OBVIOUS
  <1> USE TailBounds
  <1> DEFINE new == [of |-> tail.id, no |-> 0, since |-> tail.last, lines |-> file]
  <1>1. /\ tail' = [tail EXCEPT !.reading = TRUE] /\ reads' = reads \cup {new}
        /\ tail.timer /\ ~tail.reading
        /\ UNCHANGED <<file, from, got, back, more>>
    BY DEF PollStarts, Read
  <1>2. TailTypeOK /\ ReadsInStep
    BY DEF TailInv
  <1>3. /\ tail.id \in 1 .. MaxAttaches /\ tail.last \in 0 .. MaxLines
        /\ file \in Seq(Kinds) /\ Len(file) \in Nat
    BY <1>1, <1>2 DEF TailTypeOK, ReadsInStep
  <1>4. TailTypeOK'
    <2>1. new \in [of : 1 .. MaxAttaches, no : {0}, since : 0 .. MaxLines, lines : Seq(Kinds)]
      BY <1>3
    <2> HIDE DEF new
    <2> QED
      BY <1>1, <1>2, <2>1 DEF TailTypeOK
  <1>5. tail'.id = tail.id /\ tail'.last = tail.last /\ tail'.reading = TRUE
        /\ tail'.timer = tail.timer
    BY <1>1, <1>2 DEF TailTypeOK
  <1>6. ReadsInStep'
    <2>1. \A r \in reads : r.of # tail.id
      BY <1>1, <1>2 DEF ReadsInStep, ReadOfTail
    <2>2. BeginningOf(file)
      BY <1>3 DEF BeginningOf
    <2>3. new.lines = file /\ new.of = tail.id /\ new.since = tail.last /\ tail.id <= tail.id
      BY <1>3
    <2> HIDE DEF new
    <2>4. \A r \in reads' : BeginningOf(r.lines) /\ r.of <= tail.id
      BY <1>1, <1>2, <2>2, <2>3 DEF ReadsInStep
    <2>5. \A r \in reads' : r.of = tail.id => r = new
      BY <1>1, <2>1
    <2> QED
      BY <1>1, <1>2, <1>5, <2>3, <2>4, <2>5 DEF ReadsInStep, ReadOfTail, BeginningOf
  <1>7. StreamedSoFar' /\ TornIsLast' /\ PagesOfFile' /\ HistoryWhole'
    BY <1>1, <1>5 DEF TailInv, StreamedSoFar, TornIsLast, PagesOfFile, HistoryWhole
  <1> QED
    BY <1>4, <1>6, <1>7 DEF TailInv

LEMMA PollEndsLateInv ==
  ASSUME TailInv, NEW r \in reads, PollEndsLate(r)
  PROVE  TailInv'
  <1>1. /\ reads' = reads \ {r}
        /\ UNCHANGED <<file, from, got, back, more>>
        /\ tail' = IF r.of = tail.id THEN [tail EXCEPT !.reading = FALSE] ELSE tail
    BY DEF PollEndsLate
  <1>2. TailTypeOK /\ ReadsInStep
    BY DEF TailInv
  <1>3. TailTypeOK'
    BY <1>1, <1>2 DEF TailTypeOK
  <1>4. /\ tail'.id = tail.id /\ tail'.last = tail.last /\ tail'.timer = tail.timer
        /\ r.of # tail.id => tail'.reading = tail.reading
    BY <1>1, <1>2 DEF TailTypeOK
  <1>5. ReadsInStep'
    <2>1. \A q \in reads' : q \in reads /\ q # r
      BY <1>1
    <2>2. \A q \in reads' : q.of = tail.id => r.of # tail.id
      BY <1>2, <2>1 DEF ReadsInStep
    <2> QED
      BY <1>1, <1>2, <1>4, <2>1, <2>2 DEF ReadsInStep, ReadOfTail, BeginningOf
  <1>6. StreamedSoFar' /\ TornIsLast' /\ PagesOfFile' /\ HistoryWhole'
    BY <1>1, <1>4 DEF TailInv, StreamedSoFar, TornIsLast, PagesOfFile, HistoryWhole
  <1> QED
    BY <1>3, <1>5, <1>6 DEF TailInv

\* What a read has found of the file, in order, and where it ends.
LEMMA FoundInOrder ==
  ASSUME TailInv, NEW r \in reads
  PROVE  /\ Found(r) \in Seq(Lines) /\ Found(r) \in Seq(Messages(file, r.since))
         /\ \A i, j \in 1 .. Len(Found(r)) : i < j => Found(r)[i] < Found(r)[j]
         /\ \A x \in Messages(r.lines, r.since) :
               \E i \in 1 .. Len(Found(r)) : Found(r)[i] = x
         /\ \A i \in 1 .. Len(Found(r)) : \A x \in Messages(file, r.since) :
               x <= Found(r)[i] => \E k \in 1 .. Len(Found(r)) : Found(r)[k] = x
  <1> DEFINE S == Messages(r.lines, r.since)
             F == Messages(file, r.since)
             n == Len(r.lines)
  <1>1. TailTypeOK /\ BeginningOf(r.lines)
    BY DEF TailInv, ReadsInStep
  <1>2. r.lines \in Seq(Kinds) /\ n \in Nat /\ n <= Len(file) /\ r.since \in Nat
    BY <1>1 DEF BeginningOf, TailTypeOK
  <1>3. S = {i \in 1 .. n : r.lines[i] = "turn" /\ i > r.since}
    BY <1>2, MessagesAreTurns
  <1>4. /\ F = {i \in 1 .. Len(file) : file[i] = "turn" /\ i > r.since}
        /\ F \in SUBSET Lines /\ Len(file) \in Nat
    BY <1>1, FileMessages
  <1>5. ASSUME NEW x \in S PROVE x \in F
    <2>1. x \in 1 .. n /\ r.lines[x] = "turn" /\ x > r.since
      BY <1>3
    <2>2. file[x] = "turn" /\ x \in 1 .. Len(file)
      BY <1>1, <1>2, <1>4, <2>1 DEF BeginningOf
    <2> QED
      BY <1>4, <2>1, <2>2
  <1>6. S \in SUBSET (1 .. n)
    BY <1>3
  <1> HIDE DEF n
  <1>7. /\ InOrder(S) \in Seq(S)
        /\ \A i, j \in 1 .. Len(InOrder(S)) : i < j => InOrder(S)[i] < InOrder(S)[j]
        /\ \A x \in S : \E i \in 1 .. Len(InOrder(S)) : InOrder(S)[i] = x
    BY <1>2, <1>6, InOrderList
  <1>8. Found(r) = InOrder(S)
    BY DEF Found
  <1>9. ASSUME NEW y \in S, NEW x \in F, x <= y PROVE x \in S
    <2>1. /\ x \in 1 .. Len(file) /\ file[x] = "turn" /\ x > r.since
          /\ y \in 1 .. n /\ r.lines[y] = "turn"
      BY <1>3, <1>4
    <2>2. x \in 1 .. n
      BY <1>2, <1>4, <1>9, <2>1
    <2>3. r.lines[x] = file[x]
      <3>1. CASE x = y
        BY <1>1, <2>1, <2>2, <3>1 DEF BeginningOf, n
      <3>2. CASE x # y
        <4>1. x # n
          BY <1>2, <1>4, <1>9, <2>1, <3>2
        <4> QED
          BY <1>1, <2>2, <4>1 DEF BeginningOf, n
      <3> QED
        BY <3>1, <3>2
    <2> QED
      BY <1>3, <2>1, <2>2, <2>3
  <1> HIDE DEF S, F
  <1>10. S \subseteq F /\ S \subseteq Lines
    BY <1>4, <1>5
  <1>11. InOrder(S) \in Seq(Lines) /\ InOrder(S) \in Seq(F)
    BY <1>7, <1>10
  <1>12. \A i \in 1 .. Len(InOrder(S)) : \A x \in F :
            x <= InOrder(S)[i] => \E k \in 1 .. Len(InOrder(S)) : InOrder(S)[k] = x
    <2> SUFFICES ASSUME NEW i \in 1 .. Len(InOrder(S)), NEW x \in F, x <= InOrder(S)[i]
                 PROVE  \E k \in 1 .. Len(InOrder(S)) : InOrder(S)[k] = x
      OBVIOUS
    <2>1. InOrder(S)[i] \in S
      BY <1>7
    <2> QED
      BY <1>7, <1>9, <2>1
  <1> QED
    BY <1>7, <1>8, <1>11, <1>12 DEF S, F

\* What a read found continues what was streamed.
LEMMA PollEndsInv ==
  ASSUME TailInv, NEW r \in reads, PollEnds(r)
  PROVE  TailInv'
  <1> USE TailBounds
  <1> DEFINE found == Found(r)
             last == IF found = <<>> THEN tail.last ELSE found[Len(found)]
  <1>1. /\ got' = got \o found /\ reads' = reads \ {r}
        /\ r.of = tail.id /\ tail.timer
        /\ UNCHANGED <<file, from, back, more>>
    BY DEF PollEnds
  <1>2. tail' = [tail EXCEPT !.reading = FALSE, !.last = last]
    BY DEF PollEnds, Drained, Last
  <1>3. TailTypeOK /\ ReadsInStep /\ StreamedSoFar
    BY DEF TailInv
  <1>4. r.since = tail.last /\ tail.reading
    BY <1>1, <1>3 DEF ReadsInStep, ReadOfTail
  <1>5. /\ found \in Seq(Lines) /\ found \in Seq(Messages(file, tail.last))
        /\ \A i, j \in 1 .. Len(found) : i < j => found[i] < found[j]
        /\ \A i \in 1 .. Len(found) : \A x \in Messages(file, tail.last) :
              x <= found[i] => \E k \in 1 .. Len(found) : found[k] = x
    BY <1>4, FoundInOrder
  <1> HIDE DEF found
  <1>6. Len(found) \in Nat /\ (found # <<>> => Len(found) \in 1 .. Len(found))
    BY <1>5
  <1>7. got \in Seq(Lines) /\ Len(got) \in Nat /\ tail.last \in Nat /\ from \in Nat
    BY <1>3 DEF TailTypeOK
  <1>8. /\ \A i \in 1 .. Len(found) : found[i] \in Messages(file, tail.last)
        /\ \A s : \A x \in Messages(file, s) : x \in Nat /\ x > s /\ x \in Messages(file, 0)
        /\ \A x \in Messages(file, 0) : \A s : x > s => x \in Messages(file, s)
    BY <1>3, <1>5, FileMessages
  <1>9. last \in Nat /\ tail.last <= last /\ last \in {0} \cup Messages(file, 0)
        /\ \A i \in 1 .. Len(found) : found[i] <= last
    <2>1. CASE found = <<>>
      BY <1>3, <1>7, <2>1 DEF StreamedSoFar
    <2>2. CASE found # <<>>
      <3>1. last = found[Len(found)] /\ Len(found) \in 1 .. Len(found)
        BY <1>6, <2>2
      <3>2. last \in Messages(file, tail.last)
        BY <1>8, <3>1
      <3>3. ASSUME NEW i \in 1 .. Len(found) PROVE found[i] <= last
        <4>1. found[i] \in Nat /\ last \in Nat
          BY <1>8, <3>2
        <4>2. CASE i = Len(found)
          BY <3>1, <4>1, <4>2
        <4>3. CASE i # Len(found)
          <5>1. i < Len(found)
            BY <1>6, <4>3
          <5> QED
            BY <1>5, <3>1, <4>1, <5>1
        <4> QED
          BY <4>2, <4>3
      <3> QED
        BY <1>7, <1>8, <3>2, <3>3
    <2> QED
      BY <2>1, <2>2
  <1>10. last \in 0 .. MaxLines
    <2>1. \A x \in Messages(file, 0) : x \in 0 .. MaxLines
      BY <1>3, FileMessages DEF Lines
    <2> QED
      BY <1>9, <2>1
  <1> HIDE DEF last
  <1>11. TailTypeOK'
    <2>1. got' \in Seq(Lines)
      BY <1>1, <1>5, <1>7
    <2>2. tail' \in [id : 0 .. MaxAttaches, timer : BOOLEAN, reading : BOOLEAN,
                     last : 0 .. MaxLines]
      BY <1>2, <1>3, <1>10 DEF TailTypeOK
    <2> QED
      BY <1>1, <1>3, <2>1, <2>2 DEF TailTypeOK
  <1>12. tail'.id = tail.id /\ tail'.last = last /\ tail'.timer = tail.timer
    BY <1>2, <1>3 DEF TailTypeOK
  <1>13. ReadsInStep'
    <2>1. \A q \in reads' : q \in reads /\ q.of # tail.id
      BY <1>1, <1>3 DEF ReadsInStep
    <2> QED
      BY <1>1, <1>3, <1>12, <2>1 DEF ReadsInStep, ReadOfTail, BeginningOf
  <1>14. StreamedSoFar'
    <2>1. /\ Len(got') = Len(got) + Len(found)
          /\ \A i \in 1 .. Len(got) : got'[i] = got[i]
          /\ \A i \in 1 .. Len(found) : got'[Len(got) + i] = found[i]
      BY <1>1, <1>5, <1>7
    <2>2. \A i \in 1 .. Len(got') : i \in 1 .. Len(got)
             \/ (i - Len(got) \in 1 .. Len(found) /\ got'[i] = found[i - Len(got)])
      BY <1>6, <1>7, <2>1
    <2>3. \A i \in 1 .. Len(got) : got[i] \in Messages(file, from) /\ got[i] <= tail.last
      BY <1>3, <1>7 DEF StreamedSoFar, ToSet
    <2>4. ASSUME NEW i \in 1 .. Len(got'), NEW j \in 1 .. Len(got'), i < j
          PROVE  got'[i] < got'[j]
      <3>1. CASE j \in 1 .. Len(got)
        <4>1. i \in 1 .. Len(got)
          BY <1>7, <2>4, <3>1
        <4> QED
          BY <1>3, <2>1, <2>4, <3>1, <4>1 DEF StreamedSoFar
      <3>2. CASE i \in 1 .. Len(got) /\ j \notin 1 .. Len(got)
        <4>1. got'[i] <= tail.last /\ got'[i] \in Nat
          BY <1>8, <2>1, <2>3, <3>2
        <4>2. got'[j] \in Nat /\ got'[j] > tail.last
          BY <1>8, <2>2, <3>2
        <4> QED
          BY <1>7, <4>1, <4>2
      <3>3. CASE i \notin 1 .. Len(got) /\ j \notin 1 .. Len(got)
        <4>1. i - Len(got) < j - Len(got)
          BY <1>7, <2>4
        <4> QED
          BY <1>5, <2>2, <3>3, <4>1
      <3> QED
        BY <3>1, <3>2, <3>3
    <2>5. from <= tail.last
      BY <1>3 DEF StreamedSoFar
    <2>6. ASSUME NEW i \in 1 .. Len(got')
          PROVE  got'[i] \in Messages(file, from) /\ got'[i] <= last
      <3>1. CASE i \in 1 .. Len(got)
        BY <1>7, <1>8, <1>9, <2>1, <2>3, <3>1
      <3>2. CASE i \notin 1 .. Len(got)
        BY <1>7, <1>8, <1>9, <2>2, <2>5, <3>2
      <3> QED
        BY <3>1, <3>2
    <2>7. ASSUME NEW x \in Messages(file, from), x <= last
          PROVE  \E i \in 1 .. Len(got') : got'[i] = x
      <3>1. CASE x <= tail.last
        <4>1. PICK i \in 1 .. Len(got) : got[i] = x
          BY <1>3, <1>7, <3>1 DEF StreamedSoFar, ToSet
        <4> QED
          BY <1>6, <1>7, <2>1, <4>1
      <3>2. CASE ~(x <= tail.last)
        <4>1. x > tail.last /\ x \in Messages(file, tail.last)
          BY <1>7, <1>8, <3>2
        <4>2. found # <<>> /\ last = found[Len(found)]
          BY <2>7, <3>2 DEF last
        <4>3. PICK k \in 1 .. Len(found) : found[k] = x
          BY <1>5, <1>6, <2>7, <4>1, <4>2
        <4>4. Len(got) + k \in 1 .. Len(got')
          BY <1>6, <1>7, <2>1
        <4> QED
          BY <2>1, <4>3, <4>4
      <3> QED
        BY <3>1, <3>2
    <2>8. ToSet(got') = {x \in Messages(file, from) : x <= last}
      <3>1. DOMAIN got' = 1 .. Len(got')
        BY <1>11 DEF TailTypeOK
      <3> QED
        BY <2>6, <2>7, <3>1 DEF ToSet
    <2>9. from <= last
      BY <1>7, <1>9, <2>5
    <2> QED
      BY <1>1, <1>9, <1>12, <2>4, <2>8, <2>9 DEF StreamedSoFar
  <1>15. TornIsLast' /\ PagesOfFile' /\ HistoryWhole'
    BY <1>1 DEF TailInv, TornIsLast, PagesOfFile, HistoryWhole
  <1> QED
    BY <1>11, <1>13, <1>14, <1>15 DEF TailInv

\* Every step keeps the invariant.
LEMMA TailStep == TailInv /\ [TailNext]_tailVars => TailInv'
  <1> SUFFICES ASSUME TailInv, [TailNext]_tailVars PROVE TailInv'
    OBVIOUS
  <1>1. CASE \E kind \in Kinds : Write(kind) \/ Complete(kind)
    BY <1>1, FileInv
  <1>2. CASE \E since \in 0 .. MaxLines : Attach(since)
    BY <1>2, AttachInv
  <1>3. CASE Detach
    BY <1>3, DetachInv
  <1>4. CASE ScrollBack
    BY <1>4, ScrollBackInv
  <1>5. CASE Poll
    BY <1>5, PollStartsInv, PollEndsInv DEF Poll
  <1>6. CASE \E r \in reads : PollEndsLate(r)
    BY <1>6, PollEndsLateInv
  <1>7. CASE UNCHANGED tailVars
    BY <1>7 DEF tailVars, TailInv, TailTypeOK, TornIsLast, ReadsInStep, ReadOfTail,
                BeginningOf, StreamedSoFar, PagesOfFile, HistoryWhole
  <1> QED
    BY <1>1, <1>2, <1>3, <1>4, <1>5, <1>6, <1>7 DEF TailNext

LEMMA TailInvariant == TailSpec => []TailInv
  BY TailInitInv, TailStep, PTL DEF TailSpec

\* Whatever the lengths of the transcript and of a page, the variables of the
\* tail keep their types.
THEOREM TailTypeCorrect == TailSpec => []TailTypeOK
  <1>1. TailInv => TailTypeOK
    BY DEF TailInv
  <1> QED
    BY <1>1, TailInvariant, PTL

\* A phone is streamed each message after the line it named once, in the order
\* of the file and without a gap, however reads, attaching and detaching
\* interleave with the writing (claude-tail.ts:32, 57-71).
THEOREM StreamedOnce == TailSpec => []TailOnce
  <1>1. ASSUME TailInv PROVE TailOnce
    <2> DEFINE S == Messages(file, from)
    <2>1. TailTypeOK /\ StreamedSoFar
      BY <1>1 DEF TailInv
    <2>2. S \in SUBSET (1 .. Len(file)) /\ Len(file) \in Nat
      BY <2>1, FileMessages
    <2>3. got \in Seq(Lines) /\ ToSet(got) = {i \in S : i <= tail.last}
      BY <2>1 DEF TailTypeOK, StreamedSoFar
    <2>4. \A i \in 1 .. Len(got) : got[i] \in S /\ got[i] <= tail.last
      BY <2>3 DEF ToSet
    <2>5. got \in Seq(S)
      BY <2>3, <2>4
    <2>6. ASSUME NEW x \in S, NEW i \in 1 .. Len(got), x < got[i]
          PROVE  \E k \in 1 .. Len(got) : got[k] = x
      <3>1. x <= tail.last
        BY <2>1, <2>2, <2>4, <2>6 DEF TailTypeOK
      <3> QED
        BY <2>3, <3>1 DEF ToSet
    <2>7. \A i, j \in 1 .. Len(got) : i < j => got[i] < got[j]
      BY <2>1 DEF StreamedSoFar
    <2>8. IsPrefix(got, InOrder(S))
      BY <2>2, <2>5, <2>6, <2>7, OrderedPrefix
    <2> QED
      BY <2>8 DEF TailOnce
  <1> QED
    BY <1>1, TailInvariant, PTL

\* The pages of history a phone has are one stretch of the transcript, and it
\* is told of earlier messages exactly when there are some, for every size of
\* a page (claude-adapter.ts:104-113).
THEOREM PagesLeaveNothingOut == TailSpec => []HistoryWhole
  <1>1. TailInv => HistoryWhole
    BY DEF TailInv
  <1> QED
    BY <1>1, TailInvariant, PTL
=============================================================================
