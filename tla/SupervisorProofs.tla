-------------------------- MODULE SupervisorProofs --------------------------
(***************************************************************************)
(* Theorems about Supervisor.  TypeOK is inductive by itself.  While the   *)
(* user waits for an exit under way before the next click, there is one    *)
(* server at a time, and that is what both safety properties rest on: the  *)
(* pid file then has one writer, and the exit that the app hears of is     *)
(* never another server's.                                                 *)
(***************************************************************************)
EXTENDS Supervisor, TLAPS

-----------------------------------------------------------------------------
(* Types                                                                   *)

ServerType == [phase : Early \cup {"none", "serving", "stopping", "gone"},
               adopted : Refs, term : BOOLEAN]
TtydType == [alive : BOOLEAN, term : BOOLEAN, wrapper : 0 .. MaxWrappers, heard : BOOLEAN]
AppType == [up : BOOLEAN, quitting : BOOLEAN, proc : Refs,
            shown : {"stopped", "starting", "running"}]

\* The bounds are numbers.
LEMMA Bounds ==
  /\ MaxServers \in Nat /\ MaxFaults \in Nat
  /\ MaxWrappers \in Nat /\ MaxWrappers >= 1
  BY SupervisorAssumption

LEMMA NoneIs == None \in Refs /\ None \notin Servers
  BY DEF None, Refs, Servers

LEMMA InitTypes == Init => TypeOK
  <1> SUFFICES ASSUME Init PROVE TypeOK
    OBVIOUS
  <1>1. 0 \in 0 .. MaxServers /\ 0 \in 0 .. MaxFaults /\ 0 \in 0 .. MaxWrappers
        /\ 1 \in 1 .. MaxWrappers
    BY Bounds
  <1>2. NoServer \in ServerType /\ NoTtyd \in TtydType
    BY <1>1, NoneIs DEF NoServer, NoTtyd, ServerType, TtydType
  <1>3. server \in [Servers -> ServerType] /\ ttyd \in [Servers -> TtydType]
    BY <1>2 DEF Init
  <1>4. app \in AppType
    BY NoneIs DEF Init, AppType
  <1> QED
    BY <1>1, <1>3, <1>4, NoneIs DEF Init, TypeOK, ServerType, TtydType, AppType

\* The same, with the types named.
LEMMA TypeParts ==
  ASSUME TypeOK
  PROVE  /\ app \in AppType
         /\ server \in [Servers -> ServerType] /\ ttyd \in [Servers -> TtydType]
         /\ wanted \in BOOLEAN /\ wish \in BOOLEAN /\ made \in 0 .. MaxServers
         /\ pidFile \in Refs /\ exits \subseteq Servers \X Hows
         /\ lines \subseteq Servers /\ wrapper \in 1 .. MaxWrappers
         /\ faults \in 0 .. MaxFaults
  BY DEF TypeOK, AppType, ServerType, TtydType

\* A server or a ttyd changes.
LEMMA ServerSet ==
  ASSUME server \in [Servers -> ServerType], NEW d \in Servers, NEW r \in ServerType,
         server' = [server EXCEPT ![d] = r]
  PROVE  /\ server' \in [Servers -> ServerType] /\ server'[d] = r
         /\ \A e \in Servers : e # d => server'[e] = server[e]
  OBVIOUS

LEMMA TtydSet ==
  ASSUME ttyd \in [Servers -> TtydType], NEW d \in Servers, NEW r \in TtydType,
         ttyd' = [ttyd EXCEPT ![d] = r]
  PROVE  /\ ttyd' \in [Servers -> TtydType] /\ ttyd'[d] = r
         /\ \A e \in Servers : e # d => ttyd'[e] = ttyd[e]
  OBVIOUS

\* A ttyd is sent SIGTERM.
LEMMA TermOne ==
  ASSUME TypeOK, NEW x \in Servers, ttyd' = [ttyd EXCEPT ![x].term = TRUE]
  PROVE  /\ \A t \in Servers : /\ ttyd'[t].alive = ttyd[t].alive
                               /\ ttyd'[t].wrapper = ttyd[t].wrapper
                               /\ ttyd[t].term => ttyd'[t].term
         /\ ttyd'[x].term
  <1> DEFINE r == [ttyd[x] EXCEPT !.term = TRUE]
  <1>1. ttyd' = [ttyd EXCEPT ![x] = r] /\ ttyd[x] \in TtydType
    BY TypeParts
  <1>2. r \in TtydType /\ r.alive = ttyd[x].alive /\ r.wrapper = ttyd[x].wrapper /\ r.term
    BY <1>1 DEF TtydType
  <1> HIDE DEF r
  <1> QED
    BY <1>1, <1>2, TypeParts, TtydSet

\* A ttyd is gone, or its end is heard of.
LEMMA EndOne ==
  ASSUME TypeOK, NEW x \in Servers,
         \/ ttyd' = [ttyd EXCEPT ![x].alive = FALSE]
         \/ ttyd' = [ttyd EXCEPT ![x].heard = TRUE]
  PROVE  \A t \in Servers : /\ ttyd'[t].alive => ttyd[t].alive
                            /\ ttyd'[t].wrapper = ttyd[t].wrapper
                            /\ ttyd'[t].term = ttyd[t].term
  <1>1. PICK r \in TtydType :
          /\ ttyd' = [ttyd EXCEPT ![x] = r]
          /\ r.alive => ttyd[x].alive
          /\ r.wrapper = ttyd[x].wrapper /\ r.term = ttyd[x].term
    <2>1. ttyd[x] \in TtydType
      BY TypeParts
    <2>2. CASE ttyd' = [ttyd EXCEPT ![x].alive = FALSE]
      <3>1. ttyd' = [ttyd EXCEPT ![x] = [ttyd[x] EXCEPT !.alive = FALSE]]
        BY <2>2, TypeParts
      <3>2. [ttyd[x] EXCEPT !.alive = FALSE] \in TtydType
        BY <2>1 DEF TtydType
      <3> QED
        BY <2>1, <3>1, <3>2 DEF TtydType
    <2>3. CASE ttyd' = [ttyd EXCEPT ![x].heard = TRUE]
      <3>1. ttyd' = [ttyd EXCEPT ![x] = [ttyd[x] EXCEPT !.heard = TRUE]]
        BY <2>3, TypeParts
      <3>2. [ttyd[x] EXCEPT !.heard = TRUE] \in TtydType
        BY <2>1 DEF TtydType
      <3> QED
        BY <2>1, <3>1, <3>2 DEF TtydType
    <2> QED
      BY <2>2, <2>3
  <1> QED
    BY <1>1, TypeParts, TtydSet

\* A server begins: one that has not been there before.
LEMMA SpawnIs ==
  ASSUME TypeOK, NEW saved \in AppType, NEW keep \in BOOLEAN, Spawn(saved, keep)
  PROVE  /\ made' \in 0 .. MaxServers /\ made' = made + 1
         /\ made' \in Servers
         /\ server' \in [Servers -> ServerType]
         /\ server'[made'] = [server[made'] EXCEPT !.phase = "starting"]
         /\ \A e \in Servers : e # made' => server'[e] = server[e]
         /\ app' \in AppType /\ app'.proc = made' /\ app'.shown = "starting"
         /\ app'.up = saved.up /\ app'.quitting = saved.quitting
         /\ wanted' = (wanted \/ keep)
  <1>1. made' = made + 1 /\ made' \in 0 .. MaxServers /\ made' \in Servers
    BY TypeParts, Bounds DEF Spawn, Servers
  <1>2. PICK n : n = made'
    OBVIOUS
  <1>3. server' = [server EXCEPT ![n] = [server[n] EXCEPT !.phase = "starting"]]
    BY <1>1, <1>2, TypeParts DEF Spawn
  <1>4. [server[n] EXCEPT !.phase = "starting"] \in ServerType
    BY <1>1, <1>2, TypeParts DEF ServerType, Early
  <1>5. /\ server' \in [Servers -> ServerType]
        /\ server'[n] = [server[n] EXCEPT !.phase = "starting"]
        /\ \A e \in Servers : e # n => server'[e] = server[e]
    BY <1>1, <1>2, <1>3, <1>4, TypeParts, ServerSet
  <1>6. app' = [saved EXCEPT !.proc = n, !.shown = "starting"] /\ n \in Refs
    BY <1>1, <1>2 DEF Spawn, Refs
  <1>7. /\ app' \in AppType /\ app'.proc = n /\ app'.shown = "starting"
        /\ app'.up = saved.up /\ app'.quitting = saved.quitting
    BY <1>6 DEF AppType
  <1> QED
    BY <1>1, <1>2, <1>5, <1>7 DEF Spawn

\* A server that exits is gone, and the app will be told how.
LEMMA ExitIs ==
  ASSUME TypeOK, NEW d \in Servers, NEW how \in Hows, Exit(d, how)
  PROVE  /\ server' \in [Servers -> ServerType]
         /\ server'[d].phase = "gone" /\ server'[d].adopted = None /\ ~server'[d].term
         /\ \A e \in Servers : e # d => server'[e] = server[e]
         /\ exits' = exits \cup {<<d, how>>}
         /\ exits' \subseteq Servers \X Hows
  <1> DEFINE r == [server[d] EXCEPT !.phase = "gone", !.term = FALSE, !.adopted = None]
  <1>1. server[d] \in ServerType
    BY TypeParts
  <1>2. server' = [server EXCEPT ![d] = r]
    BY TypeParts DEF Exit
  <1>3. r \in ServerType /\ r.phase = "gone" /\ r.adopted = None /\ ~r.term
    BY <1>1, NoneIs DEF ServerType, Early
  <1> HIDE DEF r
  <1>5. /\ server' \in [Servers -> ServerType] /\ server'[d] = r
        /\ \A e \in Servers : e # d => server'[e] = server[e]
    BY <1>2, <1>3, TypeParts, ServerSet
  <1>6. exits' = exits \cup {<<d, how>>} /\ exits' \subseteq Servers \X Hows
    BY TypeParts DEF Exit
  <1> QED
    BY <1>3, <1>5, <1>6

\* The server that the app holds is told to stop.
LEMMA StopIs ==
  ASSUME TypeOK, NEW keep \in BOOLEAN, StopServer(keep)
  PROVE  /\ server' \in [Servers -> ServerType]
         /\ \A d \in Servers : server'[d] =
               IF d = app.proc /\ Up(d) THEN [server[d] EXCEPT !.term = TRUE] ELSE server[d]
         /\ app' \in AppType /\ app'.proc = None /\ app'.shown = "stopped"
         /\ app'.up = app.up /\ app'.quitting = (app.quitting \/ keep)
         /\ wanted' = (keep /\ wanted)
  <1>1. \A d \in Servers : server'[d] =
               IF d = app.proc /\ Up(d) THEN [server[d] EXCEPT !.term = TRUE] ELSE server[d]
    BY DEF StopServer, Signalled
  <1>2. ASSUME NEW d \in Servers PROVE server'[d] \in ServerType
    <2>1. server[d] \in ServerType
      BY TypeParts
    <2>2. CASE d = app.proc /\ Up(d)
      BY <1>1, <2>1, <2>2 DEF ServerType
    <2>3. CASE ~(d = app.proc /\ Up(d))
      BY <1>1, <2>1, <2>3
    <2> QED
      BY <2>2, <2>3
  <1>3. server' = [d \in Servers |-> server'[d]]
    BY DEF StopServer, Signalled
  <1>4. server' \in [Servers -> ServerType]
    BY <1>2, <1>3
  <1>5. app' = [app EXCEPT !.proc = None, !.shown = "stopped",
                           !.quitting = (app.quitting \/ keep)]
        /\ wanted' = (keep /\ wanted)
    BY TypeParts DEF StopServer, AppType
  <1>6. PICK q \in BOOLEAN : q = (app.quitting \/ keep)
    OBVIOUS
  <1>7. /\ app' \in AppType /\ app'.proc = None /\ app'.shown = "stopped"
        /\ app'.up = app.up /\ app'.quitting = q
    BY <1>5, <1>6, TypeParts, NoneIs DEF AppType
  <1> QED
    BY <1>1, <1>4, <1>5, <1>6, <1>7

\* The exit handler: another server, or none.
LEMMA ExitedIs ==
  ASSUME TypeOK, NEW d \in Servers, NEW how \in Hows, ServerExited(d, how)
  PROVE  /\ app.up /\ <<d, how>> \in exits
         /\ exits' = exits \ {<<d, how>>}
         /\ UNCHANGED <<ttyd, pidFile, lines, wrapper, faults, wish>>
         /\ \E saved \in AppType :
              /\ saved.up = app.up /\ saved.quitting = app.quitting
              /\ \/ Spawn(saved, TRUE)
                    /\ (how = "failed" \/ (how = "clean" /\ app.shown = "starting"))
                 \/ saved.proc = None /\ saved.shown = "stopped" /\ app' = saved
                    /\ UNCHANGED <<made, server, wanted>>
  <1> DEFINE saved == [app EXCEPT !.proc = None, !.shown = "stopped"]
  <1>1. /\ saved \in AppType /\ saved.up = app.up /\ saved.quitting = app.quitting
        /\ saved.proc = None /\ saved.shown = "stopped"
    BY TypeParts, NoneIs DEF AppType
  <1>2. \/ Spawn(saved, TRUE) /\ (how = "failed" \/ (how = "clean" /\ app.shown = "starting"))
        \/ app' = saved /\ UNCHANGED <<made, server, wanted>>
    BY DEF ServerExited
  <1> HIDE DEF saved
  <1>3. /\ app.up /\ <<d, how>> \in exits
        /\ exits' = exits \ {<<d, how>>}
        /\ UNCHANGED <<ttyd, pidFile, lines, wrapper, faults, wish>>
    BY DEF ServerExited
  <1> QED
    BY <1>1, <1>2, <1>3

LEMMA AppTypes ==
  ASSUME TypeOK,
         \/ Click \/ Upgrade
         \/ \E d \in Servers : \/ ReadLine(d) \/ SpawnFails(d)
                               \/ \E how \in Hows : ServerExited(d, how)
  PROVE  TypeOK'
  <1> USE DEF TypeOK, AppType, ServerType, TtydType
  <1>1. CASE OpenApp
    <2> DEFINE opened == [app EXCEPT !.up = TRUE, !.quitting = FALSE]
    <2>1. opened \in AppType
      BY TypeParts
    <2>2. CASE Spawn(opened, FALSE)
      <3> HIDE DEF TypeOK, AppType, ServerType, TtydType, opened
      <3>1. app' \in AppType /\ server' \in [Servers -> ServerType]
            /\ made' \in 0 .. MaxServers /\ wanted' \in BOOLEAN
        BY <2>1, <2>2, SpawnIs
      <3>2. UNCHANGED <<ttyd, pidFile, exits, lines, wrapper, faults, wish>>
        BY <1>1 DEF OpenApp
      <3> QED
        BY <3>1, <3>2 DEF TypeOK, AppType, ServerType, TtydType
    <2>3. CASE app' = opened /\ UNCHANGED <<made, server, wanted>>
      BY <1>1, <2>1, <2>3 DEF OpenApp
    <2> QED
      BY <1>1, <2>2, <2>3 DEF OpenApp
  <1>2. CASE ClickStart
    <2> HIDE DEF TypeOK, AppType, ServerType, TtydType
    <2>1. Spawn(app, TRUE) /\ wish' = TRUE
          /\ UNCHANGED <<ttyd, pidFile, exits, lines, wrapper, faults>>
      BY <1>2 DEF ClickStart
    <2>2. app' \in AppType /\ server' \in [Servers -> ServerType]
          /\ made' \in 0 .. MaxServers /\ wanted' \in BOOLEAN
      BY <2>1, SpawnIs, TypeParts
    <2> QED
      BY <2>1, <2>2 DEF TypeOK, AppType, ServerType, TtydType
  <1>3. CASE ClickStop \/ Quit
    <2> HIDE DEF TypeOK, AppType, ServerType, TtydType
    <2>1. PICK keep \in BOOLEAN : StopServer(keep)
      BY <1>3 DEF ClickStop, Quit
    <2>2. app' \in AppType /\ server' \in [Servers -> ServerType] /\ wanted' \in BOOLEAN
      BY <2>1, StopIs
    <2>3. wish' \in BOOLEAN
          /\ UNCHANGED <<made, ttyd, pidFile, exits, lines, wrapper, faults>>
      BY <1>3, TypeParts DEF ClickStop, Quit
    <2> QED
      BY <2>2, <2>3 DEF TypeOK, AppType, ServerType, TtydType
  <1>4. CASE QuitDone
    BY <1>4 DEF QuitDone
  <1>5. CASE Upgrade
    <2>1. wrapper' \in 1 .. MaxWrappers
      BY <1>5, Bounds DEF Upgrade
    <2> QED
      BY <1>5, <2>1 DEF Upgrade
  <1>6. ASSUME NEW d \in Servers, ReadLine(d) PROVE TypeOK'
    BY <1>6 DEF ReadLine
  <1>7. ASSUME NEW d \in Servers, SpawnFails(d) PROVE TypeOK'
    <2>1. faults' \in 0 .. MaxFaults
      BY <1>7, Bounds DEF SpawnFails
    <2>2. [server[d] EXCEPT !.phase = "gone"] \in ServerType
      OBVIOUS
    <2>3. server' = [server EXCEPT ![d] = [server[d] EXCEPT !.phase = "gone"]]
      BY <1>7 DEF SpawnFails
    <2>4. server' \in [Servers -> ServerType]
      BY <2>2, <2>3
    <2>5. app' \in AppType
      BY <1>7, NoneIs DEF SpawnFails
    <2>6. UNCHANGED <<wanted, made, ttyd, pidFile, exits, lines, wrapper, wish>>
      BY <1>7 DEF SpawnFails
    <2> HIDE DEF AppType, ServerType, TtydType
    <2> QED
      BY <2>1, <2>4, <2>5, <2>6, TypeParts DEF TypeOK, AppType, ServerType, TtydType
  <1>8. ASSUME NEW d \in Servers, NEW how \in Hows, ServerExited(d, how) PROVE TypeOK'
    <2> HIDE DEF TypeOK, AppType, ServerType, TtydType
    <2>1. app' \in AppType /\ server' \in [Servers -> ServerType]
          /\ made' \in 0 .. MaxServers /\ wanted' \in BOOLEAN
      <3>1. PICK saved \in AppType :
              /\ saved.up = app.up /\ saved.quitting = app.quitting
              /\ \/ Spawn(saved, TRUE)
                    /\ (how = "failed" \/ (how = "clean" /\ app.shown = "starting"))
                 \/ saved.proc = None /\ saved.shown = "stopped" /\ app' = saved
                    /\ UNCHANGED <<made, server, wanted>>
        BY <1>8, ExitedIs
      <3>2. CASE Spawn(saved, TRUE)
        BY <3>2, SpawnIs
      <3>3. CASE app' = saved /\ UNCHANGED <<made, server, wanted>>
        BY <3>3, TypeParts
      <3> QED
        BY <3>1, <3>2, <3>3
    <2>2. exits' \subseteq Servers \X Hows
          /\ UNCHANGED <<ttyd, pidFile, lines, wrapper, faults, wish>>
      BY <1>8, ExitedIs, TypeParts
    <2> QED
      BY <2>1, <2>2 DEF TypeOK, AppType, ServerType, TtydType
  <1> QED
    BY <1>1, <1>2, <1>3, <1>4, <1>5, <1>6, <1>7, <1>8 DEF Click

\* The steps of a server's start and of its shutdown.
LEMMA ServerTypes ==
  ASSUME TypeOK, NEW d \in Servers,
         \/ Adopt(d) \/ Outdate(d) \/ ClearPidFile(d) \/ SpawnTtyd(d)
         \/ BootDone(d) \/ Shutdown(d)
  PROVE  TypeOK'
  <1>1. server[d] \in ServerType /\ \A t \in Servers : ttyd[t] \in TtydType
    BY TypeParts
  <1>2. server' \in [Servers -> ServerType]
    <2>1. PICK r \in ServerType : server' = [server EXCEPT ![d] = r]
      <3>1. CASE Adopt(d)
        <4> DEFINE r == [server[d] EXCEPT !.phase = "booting", !.adopted = pidFile]
        <4>1. r \in ServerType
          BY <1>1, TypeParts DEF ServerType, Early
        <4>2. server' = [server EXCEPT ![d] = r]
          BY <3>1, TypeParts DEF Adopt
        <4> QED
          BY <4>1, <4>2
      <3>2. CASE Shutdown(d)
        <4> DEFINE r == [server[d] EXCEPT !.phase = "stopping", !.term = FALSE]
        <4>1. r \in ServerType
          BY <1>1 DEF ServerType
        <4>2. server' = [server EXCEPT ![d] = r]
          BY <3>2, TypeParts DEF Shutdown
        <4> QED
          BY <4>1, <4>2
      <3>3. CASE Outdate(d) \/ ClearPidFile(d) \/ SpawnTtyd(d) \/ BootDone(d)
        <4>1. PICK p \in {"clearing", "choosing", "booting", "serving"} :
                 server' = [server EXCEPT ![d] = [server[d] EXCEPT !.phase = p]]
          BY <3>3, TypeParts DEF Outdate, ClearPidFile, SpawnTtyd, BootDone
        <4>2. [server[d] EXCEPT !.phase = p] \in ServerType
          BY <1>1 DEF ServerType, Early
        <4> QED
          BY <4>1, <4>2
      <3> QED
        BY <3>1, <3>2, <3>3
    <2> QED
      BY <2>1, TypeParts
  <1>3. ttyd' \in [Servers -> TtydType]
    <2>1. CASE Outdate(d) \/ Shutdown(d)
      <3>1. PICK x : ttyd' = [ttyd EXCEPT ![x] = [ttyd[x] EXCEPT !.term = TRUE]]
        BY <2>1, TypeParts DEF Outdate, Shutdown
      <3>2. x \in Servers => [ttyd[x] EXCEPT !.term = TRUE] \in TtydType
        BY <1>1 DEF TtydType
      <3> QED
        BY <3>1, <3>2, TypeParts
    <2>2. CASE SpawnTtyd(d)
      <3>1. [NoTtyd EXCEPT !.alive = TRUE, !.wrapper = wrapper] \in TtydType
        <4>1. wrapper \in 0 .. MaxWrappers
          BY TypeParts, Bounds
        <4> QED
          BY <4>1 DEF NoTtyd, TtydType
      <3> QED
        BY <2>2, <3>1, TypeParts DEF SpawnTtyd
    <2>3. CASE UNCHANGED ttyd
      BY <2>3, TypeParts
    <2> QED
      BY <2>1, <2>2, <2>3 DEF Adopt, ClearPidFile, BootDone
  <1>4. pidFile' \in Refs /\ lines' \subseteq Servers
    BY TypeParts, NoneIs
    DEF Adopt, Outdate, ClearPidFile, SpawnTtyd, BootDone, Shutdown, Refs
  <1>5. UNCHANGED <<app, wanted, made, exits, wrapper, faults, wish>>
    BY DEF Adopt, Outdate, ClearPidFile, SpawnTtyd, BootDone, Shutdown
  <1> QED
    BY <1>2, <1>3, <1>4, <1>5, TypeParts DEF TypeOK, AppType, ServerType, TtydType

\* One ttyd ends, is killed, or its end is heard of.
LEMMA TtydTypes ==
  ASSUME TypeOK, NEW x \in Servers
  PROVE  /\ [ttyd EXCEPT ![x].alive = FALSE] \in [Servers -> TtydType]
         /\ [ttyd EXCEPT ![x].heard = TRUE] \in [Servers -> TtydType]
  <1>1. ttyd[x] \in TtydType /\ ttyd \in [Servers -> TtydType]
    BY TypeParts
  <1>2. [ttyd[x] EXCEPT !.alive = FALSE] \in TtydType
        /\ [ttyd[x] EXCEPT !.heard = TRUE] \in TtydType
    BY <1>1 DEF TtydType
  <1> QED
    BY <1>1, <1>2

LEMMA EndTypes ==
  ASSUME TypeOK, NEW d \in Servers,
         \/ TtydExited(d) \/ TermEarly(d) \/ ShutdownAtOnce(d) \/ OrphanStopped(d)
         \/ TtydEnds(d) \/ TtydDies(d) \/ BootFails(d) \/ ServerKilled(d)
  PROVE  TypeOK'
  <1>1. CASE TtydEnds(d) \/ TtydDies(d)
    <2>1. ttyd' \in [Servers -> TtydType]
      BY <1>1, TtydTypes DEF TtydEnds, TtydDies
    <2>2. faults' \in 0 .. MaxFaults
      BY <1>1, TypeParts, Bounds DEF TtydEnds, TtydDies, Fault
    <2>3. UNCHANGED <<app, wanted, made, server, pidFile, exits, lines, wrapper, wish>>
      BY <1>1 DEF TtydEnds, TtydDies
    <2> QED
      BY <2>1, <2>2, <2>3, TypeParts DEF TypeOK, AppType, ServerType, TtydType
  <1>2. CASE \/ TtydExited(d) \/ TermEarly(d) \/ ShutdownAtOnce(d) \/ OrphanStopped(d)
             \/ BootFails(d) \/ ServerKilled(d)
    <2>1. PICK how \in Hows : Exit(d, how)
      BY <1>2
      DEF TtydExited, TermEarly, ShutdownAtOnce, OrphanStopped, BootFails, ServerKilled, Hows
    <2>2. server' \in [Servers -> ServerType] /\ exits' \subseteq Servers \X Hows
      BY <2>1, ExitIs
    <2>3. faults' \in 0 .. MaxFaults
      BY <1>2, TypeParts, Bounds
      DEF TtydExited, TermEarly, ShutdownAtOnce, OrphanStopped, BootFails, ServerKilled,
          Fault
    <2>4. pidFile' \in Refs
      BY <1>2, TypeParts, NoneIs
      DEF TtydExited, TtydHeard, TermEarly, ShutdownAtOnce, OrphanStopped, BootFails,
          ServerKilled
    <2>5. ttyd' \in [Servers -> TtydType]
      <3>1. CASE OrphanStopped(d)
        <4>1. server[d].adopted \in Servers
          BY <3>1, TypeParts DEF OrphanStopped, ServerType, Refs
        <4> QED
          BY <3>1, <4>1, TtydTypes DEF OrphanStopped
      <3>2. CASE TtydExited(d)
        BY <3>2, TtydTypes DEF TtydExited, TtydHeard
      <3>3. CASE UNCHANGED ttyd
        BY <3>3, TypeParts
      <3> QED
        BY <1>2, <3>1, <3>2, <3>3 DEF TermEarly, ShutdownAtOnce, BootFails, ServerKilled
    <2>6. UNCHANGED <<app, wanted, made, lines, wrapper, wish>>
      BY <1>2
      DEF TtydExited, TermEarly, ShutdownAtOnce, OrphanStopped, BootFails, ServerKilled
    <2> QED
      BY <2>2, <2>3, <2>4, <2>5, <2>6, TypeParts DEF TypeOK, AppType, ServerType, TtydType
  <1> QED
    BY <1>1, <1>2

LEMMA NextTypes == TypeOK /\ [Next]_vars => TypeOK'
  <1> SUFFICES ASSUME TypeOK, [Next]_vars PROVE TypeOK'
    OBVIOUS
  <1>1. CASE UNCHANGED vars
    BY <1>1 DEF vars, TypeOK
  <1>2. CASE Next
    BY <1>2, AppTypes, ServerTypes, EndTypes DEF Next, Step, Break
  <1> QED
    BY <1>1, <1>2

\* Every reachable state is well-formed, whatever the user clicks and whenever.
THEOREM TypeCorrect == Spec => []TypeOK
  BY InitTypes, NextTypes, PTL DEF Spec

-----------------------------------------------------------------------------
(* The invariant                                                           *)

\* Servers are spawned in order; one not spawned yet is as at the beginning.
Fresh == \A d \in Servers :
    /\ server[d].phase = "none" <=> d > made
    /\ ~Spawned(d) => ~ttyd[d].alive
    /\ Spawned(d) => server[d].phase \in {"booting", "serving", "stopping", "gone"}
    /\ server[d].adopted # None =>
          server[d].phase \in {"booting", "serving", "stopping"} /\ ~Spawned(d)

\* One server is there, or one exit to be told, or none.
OneServer ==
    /\ \A d, e \in Servers : Up(d) /\ Up(e) => d = e
    /\ \A x, y \in exits : x = y
    /\ exits # {} => \A d \in Servers : ~Up(d)

\* The app is gone only after its server, and it does not start one on its way.
AppHolds ==
    /\ ~app.up => exits = {} /\ \A d \in Servers : ~Up(d)
    /\ app.quitting => \A d \in Servers : Up(d) => Told(d)
    /\ app.shown = "starting" => wish /\ ~app.quitting
    /\ \A x \in exits : x[2] = "failed" => wish /\ ~app.quitting
    /\ wanted => wish

\* The pid file names the ttyd that is not being terminated.
Filed == \A t \in Servers : ttyd[t].alive /\ ~ttyd[t].term => pidFile = t

\* What each server knows of it.
FileHeld == \A d \in Servers :
    /\ server[d].phase = "choosing" => pidFile = None
    /\ server[d].phase = "clearing" => \A t \in Servers : ttyd[t].alive => ttyd[t].term
    /\ Up(d) /\ Spawned(d) => pidFile \in {None, d}
    /\ server[d].phase \in {"booting", "serving"} /\ server[d].adopted # None =>
          pidFile = server[d].adopted

AppInv == TypeOK /\ Fresh /\ OneServer /\ NoStrayServer /\ AppHolds
SupInv == AppInv /\ Filed /\ FileHeld

LEMMA InitSup == Init => SupInv
  <1> SUFFICES ASSUME Init PROVE SupInv
    OBVIOUS
  <1>1. \A d \in Servers : ~Up(d) /\ ~Spawned(d) /\ d > made
    BY Bounds DEF Init, Up, Spawned, NoServer, NoTtyd, Servers
  <1>2. Fresh
    BY <1>1 DEF Init, Fresh, Spawned, NoServer, NoTtyd
  <1>3. OneServer /\ NoStrayServer /\ AppHolds
    BY <1>1 DEF Init, OneServer, NoStrayServer, AppHolds
  <1>4. Filed /\ FileHeld
    BY <1>1 DEF Init, Filed, FileHeld, NoServer, NoTtyd
  <1> QED
    BY <1>2, <1>3, <1>4, InitTypes DEF SupInv, AppInv

\* With nothing there, a server may begin.
LEMMA SpawnKeeps ==
  ASSUME SupInv, TypeOK', NEW saved \in AppType, NEW keep \in BOOLEAN,
         Spawn(saved, keep), \A d \in Servers : ~Up(d),
         exits' = {}, wish' = TRUE, saved.up, ~saved.quitting,
         UNCHANGED <<ttyd, pidFile>>
  PROVE  SupInv'
  <1>0. TypeOK
    BY DEF SupInv, AppInv
  <1>n. PICK n : n = made'
    OBVIOUS
  <1>1. /\ n = made + 1 /\ n \in Servers
        /\ server'[n] = [server[n] EXCEPT !.phase = "starting"]
        /\ \A e \in Servers : e # n => server'[e] = server[e]
        /\ app'.proc = n /\ app'.up = saved.up /\ app'.quitting = saved.quitting
    BY <1>0, <1>n, SpawnIs
  <1>m. made \in Nat
    BY <1>0, TypeParts, Bounds
  <1>2. server[n] \in ServerType
    BY <1>0, <1>1, TypeParts
  <1>3. server[n].phase = "none" /\ server[n].adopted = None /\ ~Spawned(n)
    <2>1. n > made
      BY <1>1, <1>m
    <2> QED
      BY <1>1, <2>1 DEF SupInv, AppInv, Fresh
  <1>4. server'[n].phase = "starting" /\ server'[n].adopted = None
    BY <1>1, <1>2, <1>3 DEF ServerType
  <1>5. \A e \in Servers : Up(e)' <=> e = n
    BY <1>1, <1>4 DEF Up
  <1>6. Fresh'
    <2>1. \A e \in Servers : e # n => (e > n <=> e > made)
      BY <1>1, <1>m DEF Servers
    <2>2. ~(n > n)
      BY <1>1, <1>m
    <2>3. \A e \in Servers : e # n => (server'[e].phase = "none" <=> e > n)
      BY <1>1, <2>1 DEF SupInv, AppInv, Fresh
    <2>4. \A e \in Servers : Spawned(e)' = Spawned(e)
      BY DEF Spawned
    <2>5. ASSUME NEW e \in Servers
          PROVE  /\ server'[e].phase = "none" <=> e > n
                 /\ ~Spawned(e)' => ~ttyd'[e].alive
                 /\ Spawned(e)' => server'[e].phase \in {"booting", "serving", "stopping", "gone"}
                 /\ server'[e].adopted # None =>
                       server'[e].phase \in {"booting", "serving", "stopping"} /\ ~Spawned(e)'
      <3>1. CASE e = n
        BY <1>3, <1>4, <2>2, <2>4, <3>1 DEF SupInv, AppInv, Fresh
      <3>2. CASE e # n
        BY <1>1, <2>3, <2>4, <3>2 DEF SupInv, AppInv, Fresh
      <3> QED
        BY <3>1, <3>2
    <2> QED
      BY <1>n, <2>5 DEF Fresh
  <1>7. OneServer'
    BY <1>5 DEF OneServer
  <1>8. NoStrayServer'
    BY <1>1, <1>5 DEF NoStrayServer
  <1>9. AppHolds'
    BY <1>1 DEF AppHolds
  <1>10. Filed'
    BY DEF SupInv, Filed
  <1>11. FileHeld'
    BY <1>1, <1>3, <1>4, <1>5 DEF SupInv, FileHeld, Up, Spawned
  <1> QED
    BY <1>6, <1>7, <1>8, <1>9, <1>10, <1>11 DEF SupInv, AppInv

\* The server exits, and leaves the ttyds on file.
LEMMA ExitKeeps ==
  ASSUME SupInv, TypeOK', NEW d \in Servers, NEW how \in Hows,
         Exit(d, how), Up(d), how = "failed" => wish /\ ~app.quitting,
         UNCHANGED <<app, wanted, made, wish>>, Filed',
         \A t \in Servers : Spawned(t)' = Spawned(t) /\ (ttyd'[t].alive => ttyd[t].alive)
  PROVE  SupInv'
  <1>0. TypeOK
    BY DEF SupInv, AppInv
  <1>1. /\ server'[d].phase = "gone" /\ server'[d].adopted = None
        /\ \A e \in Servers : e # d => server'[e] = server[e]
        /\ exits' = exits \cup {<<d, how>>}
    BY <1>0, ExitIs
  <1>2. exits = {} /\ app.up
    BY DEF SupInv, AppInv, OneServer, AppHolds
  <1>3. \A e \in Servers : e # d => ~Up(e)
    BY DEF SupInv, AppInv, OneServer
  <1>4. \A e \in Servers : ~Up(e)' /\ server'[e].phase \in {"none", "gone"}
    BY <1>1, <1>3 DEF Up
  <1>5. Fresh'
    <2>1. server'[d].phase # "none" /\ ~(d > made)
      BY <1>1 DEF SupInv, AppInv, Fresh, Up
    <2> QED
      BY <1>1, <2>1 DEF SupInv, AppInv, Fresh
  <1>6. OneServer'
    BY <1>1, <1>2, <1>4 DEF OneServer
  <1>7. NoStrayServer'
    BY <1>4 DEF NoStrayServer
  <1>8. AppHolds'
    BY <1>1, <1>2, <1>4 DEF SupInv, AppInv, AppHolds
  <1>9. FileHeld'
    BY <1>4 DEF FileHeld
  <1> QED
    BY <1>5, <1>6, <1>7, <1>8, <1>9 DEF SupInv, AppInv

\* The server goes on: what the app may rely on stays.
LEMMA GoesOn ==
  ASSUME AppInv, TypeOK', Fresh', NEW d \in Servers, Up(d), Up(d)',
         \A e \in Servers : e # d => server'[e] = server[e],
         Told(d) => Told(d)',
         UNCHANGED <<app, wanted, exits, wish>>
  PROVE  AppInv'
  <1>1. \A e \in Servers : Up(e)' => Up(e)
    BY DEF Up
  <1>2. \A e \in Servers : Told(e) => Told(e)'
    BY DEF Told
  <1>3. OneServer'
    BY <1>1 DEF AppInv, OneServer
  <1>4. NoStrayServer'
    BY <1>1, <1>2 DEF AppInv, NoStrayServer
  <1>5. AppHolds'
    BY <1>1, <1>2 DEF AppInv, AppHolds
  <1> QED
    BY <1>3, <1>4, <1>5 DEF AppInv

\* A step that leaves the processes and the file.
LEMMA ProcessesStay ==
  ASSUME SupInv, UNCHANGED <<server, ttyd, pidFile, made>>
  PROVE  Fresh' /\ Filed' /\ FileHeld' /\ \A d \in Servers : Up(d)' = Up(d) /\ Told(d)' = Told(d)
  BY DEF SupInv, AppInv, Fresh, Filed, FileHeld, Up, Told, Spawned

-----------------------------------------------------------------------------
(* The app                                                                 *)

LEMMA AppKeeps ==
  ASSUME Overlap = FALSE, SupInv, TypeOK', Click \/ Upgrade
  PROVE  SupInv'
  <1>0. TypeOK
    BY DEF SupInv, AppInv
  <1>1. CASE OpenApp
    <2>1. \A d \in Servers : ~Up(d)
      BY <1>1 DEF OpenApp, SupInv, AppInv, AppHolds
    <2>2. exits = {} /\ UNCHANGED <<ttyd, pidFile, exits, wish>>
      BY <1>1 DEF OpenApp, SupInv, AppInv, AppHolds
    <2> DEFINE opened == [app EXCEPT !.up = TRUE, !.quitting = FALSE]
    <2>3. opened \in AppType /\ opened.up /\ ~opened.quitting /\ opened.shown = app.shown
      BY <1>0, TypeParts DEF AppType
    <2>4. \/ wanted /\ Spawn(opened, FALSE)
          \/ app' = opened /\ UNCHANGED <<made, server, wanted>>
      BY <1>1 DEF OpenApp
    <2> HIDE DEF opened
    <2>5. CASE wanted /\ Spawn(opened, FALSE)
      <3>1. wish' = TRUE
        BY <1>0, <2>2, <2>5, TypeParts DEF SupInv, AppInv, AppHolds
      <3> QED
        BY <2>1, <2>2, <2>3, <2>5, <3>1, SpawnKeeps
    <2>6. CASE app' = opened /\ UNCHANGED <<made, server, wanted>>
      <3>1. /\ Fresh' /\ Filed' /\ FileHeld'
            /\ \A d \in Servers : Up(d)' = Up(d) /\ Told(d)' = Told(d)
        BY <2>2, <2>6, ProcessesStay
      <3>2. OneServer' /\ NoStrayServer'
        BY <2>1, <2>2, <3>1 DEF OneServer, NoStrayServer
      <3>3. AppHolds'
        BY <2>1, <2>2, <2>3, <2>6, <3>1 DEF AppHolds, SupInv, AppInv
      <3> QED
        BY <3>1, <3>2, <3>3 DEF SupInv, AppInv
    <2> QED
      BY <2>4, <2>5, <2>6
  <1>2. CASE ClickStart
    <2>1. /\ Spawn(app, TRUE) /\ wish' = TRUE /\ app.up /\ ~app.quitting
          /\ exits = {} /\ exits' = exits /\ UNCHANGED <<ttyd, pidFile>>
          /\ app.proc = None /\ \A d \in Servers : ~Dying(d)
      BY <1>2 DEF ClickStart, Quiet
    <2>2. \A d \in Servers : ~Up(d)
      BY <2>1, NoneIs DEF SupInv, AppInv, NoStrayServer, Dying
    <2>3. app \in AppType
      BY <1>0, TypeParts
    <2> QED
      BY <2>1, <2>2, <2>3, SpawnKeeps
  <1>3. CASE ClickStop \/ Quit
    <2>1. PICK keep \in BOOLEAN :
             /\ StopServer(keep) /\ exits = {}
             /\ keep => wish' = wish
      BY <1>3 DEF ClickStop, Quit, Quiet
    <2>2. UNCHANGED <<made, ttyd, pidFile, exits>> /\ app.up
      BY <1>3 DEF ClickStop, Quit
    <2>3. /\ \A d \in Servers : server'[d] =
               IF d = app.proc /\ Up(d) THEN [server[d] EXCEPT !.term = TRUE] ELSE server[d]
          /\ app'.shown = "stopped" /\ app'.up = app.up /\ app'.proc = None
          /\ wanted' = (keep /\ wanted)
      BY <1>0, <2>1, StopIs
    <2>4. \A d \in Servers : /\ server'[d].phase = server[d].phase
                             /\ server'[d].adopted = server[d].adopted
                             /\ Up(d) => Told(d)'
      <3> SUFFICES ASSUME NEW d \in Servers
                   PROVE  /\ server'[d].phase = server[d].phase
                          /\ server'[d].adopted = server[d].adopted
                          /\ Up(d) => Told(d)'
        OBVIOUS
      <3>1. server[d] \in ServerType
        BY <1>0, TypeParts
      <3>2. CASE d = app.proc /\ Up(d)
        BY <2>3, <3>1, <3>2 DEF ServerType, Told
      <3>3. CASE ~(d = app.proc /\ Up(d))
        <4>1. server'[d] = server[d]
          BY <2>3, <3>3
        <4>2. Up(d) => Told(d)
          BY <3>3 DEF SupInv, AppInv, NoStrayServer
        <4> QED
          BY <4>1, <4>2 DEF Told
      <3> QED
        BY <3>2, <3>3
    <2>5. \A d \in Servers : Up(d)' = Up(d) /\ Spawned(d)' = Spawned(d)
      BY <2>2, <2>4 DEF Up, Spawned
    <2>6. Fresh'
      BY <2>2, <2>4, <2>5 DEF SupInv, AppInv, Fresh
    <2>7. OneServer' /\ NoStrayServer'
      BY <2>1, <2>2, <2>4, <2>5 DEF SupInv, AppInv, OneServer, NoStrayServer
    <2>8. wanted' => wish'
      <3> SUFFICES ASSUME wanted' PROVE wish'
        OBVIOUS
      <3>1. keep /\ wanted
        BY <2>3
      <3>2. wish
        BY <3>1 DEF SupInv, AppInv, AppHolds
      <3> QED
        BY <2>1, <3>1, <3>2
    <2>9. AppHolds'
      BY <2>1, <2>2, <2>3, <2>4, <2>5, <2>8 DEF AppHolds
    <2>10. Filed' /\ FileHeld'
      BY <2>2, <2>4, <2>5 DEF SupInv, Filed, FileHeld
    <2> QED
      BY <2>6, <2>7, <2>9, <2>10 DEF SupInv, AppInv
  <1>4. CASE QuitDone
    <2>1. UNCHANGED <<server, ttyd, pidFile, made, wanted, exits, wish>> /\ exits = {}
          /\ app' = [app EXCEPT !.up = FALSE] /\ app.quitting
          /\ \A d \in Servers : ~(Up(d) /\ Told(d))
      BY <1>4 DEF QuitDone
    <2>2. app'.proc = app.proc /\ app'.quitting = app.quitting /\ app'.shown = app.shown
      BY <1>0, <2>1, TypeParts DEF AppType
    <2>3. \A d \in Servers : ~Up(d)
      BY <2>1 DEF SupInv, AppInv, AppHolds
    <2>4. /\ Fresh' /\ Filed' /\ FileHeld'
          /\ \A d \in Servers : Up(d)' = Up(d) /\ Told(d)' = Told(d)
      BY <2>1, ProcessesStay
    <2>5. OneServer' /\ NoStrayServer'
      BY <2>1, <2>3, <2>4 DEF OneServer, NoStrayServer
    <2>6. AppHolds'
      BY <2>1, <2>2, <2>3, <2>4 DEF AppHolds, SupInv, AppInv
    <2> QED
      BY <2>4, <2>5, <2>6 DEF SupInv, AppInv
  <1>5. CASE Upgrade
    BY <1>5
    DEF Upgrade, SupInv, AppInv, Fresh, OneServer, NoStrayServer, AppHolds, Filed,
        FileHeld, Up, Told, Spawned
  <1> QED
    BY <1>1, <1>2, <1>3, <1>4, <1>5 DEF Click

\* What the app is told: a line, an error, an exit.
LEMMA HearKeeps ==
  ASSUME SupInv, TypeOK', NEW d \in Servers,
         ReadLine(d) \/ SpawnFails(d) \/ \E how \in Hows : ServerExited(d, how)
  PROVE  SupInv'
  <1>0. TypeOK
    BY DEF SupInv, AppInv
  <1>1. CASE ReadLine(d)
    <2>1. UNCHANGED <<server, ttyd, pidFile, made, wanted, exits, wish>>
          /\ app' = [app EXCEPT !.shown = "running"] /\ app.up
      BY <1>1 DEF ReadLine
    <2>2. /\ app'.proc = app.proc /\ app'.quitting = app.quitting
          /\ app'.shown = "running" /\ app'.up = app.up
      BY <1>0, <2>1, TypeParts DEF AppType
    <2>3. /\ Fresh' /\ Filed' /\ FileHeld'
          /\ \A e \in Servers : Up(e)' = Up(e) /\ Told(e)' = Told(e)
      BY <2>1, ProcessesStay
    <2>4. OneServer' /\ NoStrayServer' /\ AppHolds'
      BY <2>1, <2>2, <2>3 DEF SupInv, AppInv, OneServer, NoStrayServer, AppHolds
    <2> QED
      BY <2>3, <2>4 DEF SupInv, AppInv
  <1>2. CASE SpawnFails(d)
    <2>1. /\ server' = [server EXCEPT ![d] = [server[d] EXCEPT !.phase = "gone"]]
          /\ app' = [app EXCEPT !.proc = None, !.shown = "stopped"]
          /\ server[d].phase = "starting" /\ app.up
          /\ UNCHANGED <<wanted, made, ttyd, pidFile, exits, wish>>
      BY <1>0, <1>2, TypeParts DEF SpawnFails
    <2>2. server[d] \in ServerType
      BY <1>0, TypeParts
    <2>3. /\ server'[d].phase = "gone" /\ server'[d].adopted = server[d].adopted
          /\ \A e \in Servers : e # d => server'[e] = server[e]
      BY <1>0, <2>1, <2>2, TypeParts DEF ServerType
    <2>4. \A e \in Servers : e # d => ~Up(e)
      BY <2>1 DEF SupInv, AppInv, OneServer, Up
    <2>5. \A e \in Servers : ~Up(e)' /\ server'[e].phase \in {"none", "gone"}
      BY <2>3, <2>4 DEF Up
    <2>6. app'.up = app.up /\ app'.shown = "stopped" /\ app'.quitting = app.quitting
      BY <1>0, <2>1, TypeParts DEF AppType
    <2>7. \A e \in Servers : Spawned(e)' = Spawned(e)
      BY <2>1 DEF Spawned
    <2>8. Fresh'
      <3>1. server[d].phase # "none" /\ server[d].adopted = None /\ ~(d > made)
        BY <2>1 DEF SupInv, AppInv, Fresh
      <3> QED
        BY <2>1, <2>3, <2>7, <3>1 DEF SupInv, AppInv, Fresh
    <2>9. OneServer' /\ NoStrayServer'
      BY <2>1, <2>5 DEF SupInv, AppInv, OneServer, NoStrayServer
    <2>10. AppHolds'
      BY <2>1, <2>5, <2>6 DEF SupInv, AppInv, AppHolds
    <2>11. Filed' /\ FileHeld'
      BY <2>1, <2>5 DEF SupInv, Filed, FileHeld
    <2> QED
      BY <2>8, <2>9, <2>10, <2>11 DEF SupInv, AppInv
  <1>3. ASSUME NEW how \in Hows, ServerExited(d, how) PROVE SupInv'
    <2>1. PICK saved \in AppType :
              /\ saved.up = app.up /\ saved.quitting = app.quitting
              /\ \/ Spawn(saved, TRUE)
                    /\ (how = "failed" \/ (how = "clean" /\ app.shown = "starting"))
                 \/ saved.proc = None /\ saved.shown = "stopped" /\ app' = saved
                    /\ UNCHANGED <<made, server, wanted>>
      BY <1>0, <1>3, ExitedIs
    <2>2. /\ app.up /\ <<d, how>> \in exits
          /\ exits' = exits \ {<<d, how>>}
          /\ UNCHANGED <<ttyd, pidFile, wish>>
      BY <1>0, <1>3, ExitedIs
    <2>3. exits' = {} /\ \A e \in Servers : ~Up(e)
      BY <2>2 DEF SupInv, AppInv, OneServer
    <2>4. CASE Spawn(saved, TRUE)
               /\ (how = "failed" \/ (how = "clean" /\ app.shown = "starting"))
      <3>1. wish /\ ~app.quitting
        BY <2>2, <2>4 DEF SupInv, AppInv, AppHolds
      <3>2. wish' = TRUE
        BY <1>0, <2>2, <3>1, TypeParts
      <3> QED
        BY <2>1, <2>2, <2>3, <2>4, <3>1, <3>2, SpawnKeeps
    <2>5. CASE saved.shown = "stopped" /\ app' = saved /\ UNCHANGED <<made, server, wanted>>
      <3>1. /\ Fresh' /\ Filed' /\ FileHeld'
            /\ \A e \in Servers : Up(e)' = Up(e) /\ Told(e)' = Told(e)
        BY <2>2, <2>5, ProcessesStay
      <3>2. OneServer' /\ NoStrayServer'
        BY <2>3, <3>1 DEF OneServer, NoStrayServer
      <3>3. AppHolds'
        BY <2>1, <2>2, <2>3, <2>5, <3>1 DEF AppHolds, SupInv, AppInv
      <3> QED
        BY <3>1, <3>2, <3>3 DEF SupInv, AppInv
    <2> QED
      BY <2>1, <2>4, <2>5
  <1> QED
    BY <1>1, <1>2, <1>3

-----------------------------------------------------------------------------
(* The server                                                              *)


\* A server that goes on, as its start, its service or its shutdown has it.
LEMMA PhaseSet ==
  ASSUME SupInv, NEW d \in Servers, NEW r \in ServerType,
         server' = [server EXCEPT ![d] = r],
         r.phase \in {"clearing", "choosing", "booting", "serving", "stopping"},
         server[d].phase \notin {"none", "gone"},
         Told(d) => (r.term \/ r.phase = "stopping"),
         UNCHANGED <<app, wanted, made, exits, wish>>,
         TypeOK', Fresh'
  PROVE  /\ AppInv'
         /\ server'[d] = r /\ \A e \in Servers : e # d => server'[e] = server[e]
         /\ \A e \in Servers : e # d => server'[e].phase \in {"none", "gone"}
  <1>1. server'[d] = r /\ \A e \in Servers : e # d => server'[e] = server[e]
    BY ServerSet, TypeParts DEF SupInv, AppInv
  <1>2. Up(d) /\ Up(d)' /\ (Told(d) => Told(d)')
    BY <1>1 DEF Up, Told
  <1>3. AppInv'
    BY <1>1, <1>2, GoesOn DEF SupInv
  <1>4. \A e \in Servers : e # d => ~Up(e)
    BY <1>2 DEF SupInv, AppInv, OneServer
  <1> QED
    BY <1>1, <1>3, <1>4 DEF Up

\* Fresh, when one server that is up changes and the ttyds keep their owners.
LEMMA FreshKept ==
  ASSUME SupInv, NEW d \in Servers, NEW r \in ServerType,
         server' = [server EXCEPT ![d] = r], UNCHANGED made,
         server[d].phase # "none", r.phase # "none",
         \A t \in Servers : Spawned(t)' = Spawned(t) /\ (ttyd'[t].alive => ttyd[t].alive),
         Spawned(d) => r.phase \in {"booting", "serving", "stopping"},
         r.adopted # None => r.phase \in {"booting", "serving", "stopping"} /\ ~Spawned(d)
  PROVE  Fresh'
  <1>1. server'[d] = r /\ \A e \in Servers : e # d => server'[e] = server[e]
    BY ServerSet, TypeParts DEF SupInv, AppInv
  <1>2. ~(d > made)
    BY DEF SupInv, AppInv, Fresh
  <1> QED
    BY <1>1, <1>2 DEF SupInv, AppInv, Fresh

LEMMA AdoptKeeps == ASSUME SupInv, TypeOK', NEW d \in Servers, Adopt(d) PROVE SupInv'
  <1>0. TypeOK /\ server[d] \in ServerType /\ pidFile \in Refs
    BY TypeParts DEF SupInv, AppInv
  <1> DEFINE r == [server[d] EXCEPT !.phase = "booting", !.adopted = pidFile]
  <1>1. r \in ServerType /\ r.phase = "booting" /\ r.adopted = pidFile /\ r.term = server[d].term
    BY <1>0 DEF ServerType, Early
  <1>2. server' = [server EXCEPT ![d] = r]
    BY <1>0, TypeParts DEF Adopt
  <1> HIDE DEF r
  <1>3. /\ UNCHANGED <<app, wanted, made, ttyd, pidFile, exits, wish>>
        /\ server[d].phase = "starting"
    BY DEF Adopt
  <1>4. ~Spawned(d)
    BY <1>3 DEF SupInv, AppInv, Fresh
  <1>5. Fresh'
    BY <1>1, <1>2, <1>3, <1>4, FreshKept DEF Spawned
  <1>6. /\ AppInv' /\ server'[d] = r
        /\ \A e \in Servers : e # d => server'[e].phase \in {"none", "gone"}
    BY <1>1, <1>2, <1>3, <1>5, PhaseSet DEF Told
  <1>7. Filed'
    BY <1>3 DEF SupInv, Filed
  <1>8. FileHeld'
    BY <1>1, <1>3, <1>4, <1>6 DEF FileHeld, Up, Spawned
  <1> QED
    BY <1>6, <1>7, <1>8 DEF SupInv

LEMMA OutdateKeeps == ASSUME SupInv, TypeOK', NEW d \in Servers, Outdate(d) PROVE SupInv'
  <1>0. TypeOK /\ server[d] \in ServerType
    BY TypeParts DEF SupInv, AppInv
  <1> DEFINE r == [server[d] EXCEPT !.phase = "clearing"]
  <1>1. /\ r \in ServerType /\ r.phase = "clearing" /\ r.adopted = server[d].adopted
        /\ r.term = server[d].term
    BY <1>0 DEF ServerType, Early
  <1>2. server' = [server EXCEPT ![d] = r]
    BY <1>0, TypeParts DEF Outdate
  <1> HIDE DEF r
  <1>3. /\ UNCHANGED <<app, wanted, made, pidFile, exits, wish>>
        /\ server[d].phase = "starting" /\ pidFile # None
        /\ ttyd' = [ttyd EXCEPT ![pidFile].term = TRUE]
    BY DEF Outdate, Saved
  <1>4. ~Spawned(d) /\ server[d].adopted = None
    BY <1>3 DEF SupInv, AppInv, Fresh
  <1>5. pidFile \in Servers
    BY <1>0, <1>3, TypeParts DEF Refs
  <1>6. /\ \A t \in Servers : /\ ttyd'[t].alive = ttyd[t].alive
                              /\ ttyd'[t].wrapper = ttyd[t].wrapper
                              /\ ttyd[t].term => ttyd'[t].term
        /\ ttyd'[pidFile].term
    BY <1>0, <1>3, <1>5, TermOne
  <1>7. Fresh'
    BY <1>1, <1>2, <1>3, <1>4, <1>6, FreshKept DEF Spawned
  <1>8. /\ AppInv' /\ server'[d] = r
        /\ \A e \in Servers : e # d => server'[e].phase \in {"none", "gone"}
    BY <1>1, <1>2, <1>3, <1>7, PhaseSet DEF Told
  <1>9. Filed' /\ \A t \in Servers : ttyd'[t].alive => ttyd'[t].term
    BY <1>3, <1>6 DEF SupInv, Filed
  <1>10. FileHeld'
    BY <1>1, <1>4, <1>6, <1>8, <1>9 DEF FileHeld, Up, Spawned
  <1> QED
    BY <1>8, <1>9, <1>10 DEF SupInv

LEMMA ClearKeeps == ASSUME SupInv, TypeOK', NEW d \in Servers, ClearPidFile(d) PROVE SupInv'
  <1>0. TypeOK /\ server[d] \in ServerType
    BY TypeParts DEF SupInv, AppInv
  <1> DEFINE r == [server[d] EXCEPT !.phase = "choosing"]
  <1>1. /\ r \in ServerType /\ r.phase = "choosing" /\ r.adopted = server[d].adopted
        /\ r.term = server[d].term
    BY <1>0 DEF ServerType, Early
  <1>2. server' = [server EXCEPT ![d] = r]
    BY <1>0, TypeParts DEF ClearPidFile
  <1> HIDE DEF r
  <1>3. /\ UNCHANGED <<app, wanted, made, ttyd, exits, wish>> /\ pidFile' = None
        /\ server[d].phase \in {"starting", "clearing"}
    BY DEF ClearPidFile
  <1>4. ~Spawned(d) /\ server[d].adopted = None
    BY <1>3 DEF SupInv, AppInv, Fresh
  <1>5. Fresh'
    BY <1>1, <1>2, <1>3, <1>4, FreshKept DEF Spawned
  <1>6. /\ AppInv' /\ server'[d] = r
        /\ \A e \in Servers : e # d => server'[e].phase \in {"none", "gone"}
    BY <1>1, <1>2, <1>3, <1>5, PhaseSet DEF Told
  <1>7. \A t \in Servers : ~(ttyd[t].alive /\ ~ttyd[t].term)
    <2>1. CASE server[d].phase = "clearing"
      BY <2>1 DEF SupInv, FileHeld
    <2>2. CASE server[d].phase = "starting" /\ ~Saved
      BY <2>2, NoneIs DEF SupInv, Filed, Saved
    <2> QED
      BY <2>1, <2>2 DEF ClearPidFile
  <1>8. Filed'
    BY <1>3, <1>7 DEF Filed
  <1>9. FileHeld'
    BY <1>1, <1>3, <1>4, <1>6 DEF FileHeld, Up, Spawned
  <1> QED
    BY <1>6, <1>8, <1>9 DEF SupInv

LEMMA SpawnTtydKeeps == ASSUME SupInv, TypeOK', NEW d \in Servers, SpawnTtyd(d) PROVE SupInv'
  <1>0. TypeOK /\ server[d] \in ServerType /\ wrapper \in 1 .. MaxWrappers
    BY TypeParts DEF SupInv, AppInv
  <1> DEFINE r == [server[d] EXCEPT !.phase = "booting"]
  <1>1. /\ r \in ServerType /\ r.phase = "booting" /\ r.adopted = server[d].adopted
        /\ r.term = server[d].term
    BY <1>0 DEF ServerType, Early
  <1>2. server' = [server EXCEPT ![d] = r]
    BY <1>0, TypeParts DEF SpawnTtyd
  <1> HIDE DEF r
  <1>3. /\ UNCHANGED <<app, wanted, made, exits, wish>> /\ pidFile' = d
        /\ server[d].phase = "choosing"
    BY DEF SpawnTtyd
  <1>4. pidFile = None /\ server[d].adopted = None /\ ~(d > made)
    BY <1>3 DEF SupInv, AppInv, FileHeld, Fresh
  <1>5. /\ \A t \in Servers : t # d => ttyd'[t] = ttyd[t]
        /\ ttyd'[d].wrapper # 0
    BY <1>0, TypeParts, Bounds DEF SpawnTtyd, NoTtyd
  <1>6. server'[d] = r /\ \A e \in Servers : e # d => server'[e] = server[e]
    BY <1>0, <1>1, <1>2, TypeParts, ServerSet
  <1>7. Fresh'
    <2>1. \A e \in Servers : e # d => Spawned(e)' = Spawned(e)
      BY <1>5 DEF Spawned
    <2>2. Spawned(d)'
      BY <1>5 DEF Spawned
    <2>3. ASSUME NEW e \in Servers
          PROVE  /\ server'[e].phase = "none" <=> e > made'
                 /\ ~Spawned(e)' => ~ttyd'[e].alive
                 /\ Spawned(e)' => server'[e].phase \in {"booting", "serving", "stopping", "gone"}
                 /\ server'[e].adopted # None =>
                       server'[e].phase \in {"booting", "serving", "stopping"} /\ ~Spawned(e)'
      <3>1. CASE e = d
        BY <1>1, <1>3, <1>4, <1>6, <2>2, <3>1
      <3>2. CASE e # d
        BY <1>3, <1>5, <1>6, <2>1, <3>2 DEF SupInv, AppInv, Fresh
      <3> QED
        BY <3>1, <3>2
    <2> QED
      BY <2>3 DEF Fresh
  <1>8. /\ AppInv'
        /\ \A e \in Servers : e # d => server'[e].phase \in {"none", "gone"}
    BY <1>1, <1>2, <1>3, <1>7, PhaseSet DEF Told
  <1>9. Filed'
    <2>1. \A t \in Servers : t # d => ~(ttyd[t].alive /\ ~ttyd[t].term)
      BY <1>4, NoneIs DEF SupInv, Filed
    <2> QED
      BY <1>3, <1>5, <2>1 DEF Filed
  <1>10. FileHeld'
    BY <1>1, <1>3, <1>4, <1>6, <1>8 DEF FileHeld, Up
  <1> QED
    BY <1>8, <1>9, <1>10 DEF SupInv

LEMMA BootKeeps == ASSUME SupInv, TypeOK', NEW d \in Servers, BootDone(d) PROVE SupInv'
  <1>0. TypeOK /\ server[d] \in ServerType
    BY TypeParts DEF SupInv, AppInv
  <1> DEFINE r == [server[d] EXCEPT !.phase = "serving"]
  <1>1. /\ r \in ServerType /\ r.phase = "serving" /\ r.adopted = server[d].adopted
        /\ r.term = server[d].term
    BY <1>0 DEF ServerType, Early
  <1>2. server' = [server EXCEPT ![d] = r]
    BY <1>0, TypeParts DEF BootDone
  <1> HIDE DEF r
  <1>3. /\ UNCHANGED <<app, wanted, made, ttyd, pidFile, exits, wish>>
        /\ server[d].phase = "booting"
    BY DEF BootDone
  <1>4. server[d].adopted # None => ~Spawned(d)
    BY DEF SupInv, AppInv, Fresh
  <1>5. Fresh'
    BY <1>1, <1>2, <1>3, <1>4, FreshKept DEF Spawned
  <1>6. /\ AppInv' /\ server'[d] = r
        /\ \A e \in Servers : e # d => server'[e].phase \in {"none", "gone"}
    BY <1>1, <1>2, <1>3, <1>5, PhaseSet DEF Told
  <1>7. Filed'
    BY <1>3 DEF SupInv, Filed
  <1>8. Up(d)
    BY <1>3 DEF Up
  <1>9. FileHeld'
    BY <1>1, <1>3, <1>6, <1>8 DEF SupInv, FileHeld, Up, Spawned
  <1> QED
    BY <1>6, <1>7, <1>9 DEF SupInv

\* A shutdown that waits for its ttyd; an adopted one is taken off the file.
LEMMA ShutdownKeeps == ASSUME SupInv, TypeOK', NEW d \in Servers, Shutdown(d) PROVE SupInv'
  <1>0. TypeOK /\ server[d] \in ServerType
    BY TypeParts DEF SupInv, AppInv
  <1> DEFINE r == [server[d] EXCEPT !.phase = "stopping", !.term = FALSE]
  <1>1. r \in ServerType /\ r.phase = "stopping" /\ r.adopted = server[d].adopted
    BY <1>0 DEF ServerType
  <1>2. server' = [server EXCEPT ![d] = r]
    BY <1>0, TypeParts DEF Shutdown
  <1> HIDE DEF r
  <1>3. /\ UNCHANGED <<app, wanted, made, exits, wish>>
        /\ server[d].phase = "serving"
    BY DEF Shutdown
  <1>4. PICK x \in Servers :
          /\ ttyd' = [ttyd EXCEPT ![x].term = TRUE]
          /\ \/ x = d /\ server[d].adopted = None /\ pidFile' = pidFile
             \/ x = server[d].adopted /\ pidFile' = None
    BY <1>0 DEF Shutdown, ServerType, Refs
  <1>5. /\ \A t \in Servers : /\ ttyd'[t].alive = ttyd[t].alive
                              /\ ttyd'[t].wrapper = ttyd[t].wrapper
                              /\ ttyd[t].term => ttyd'[t].term
        /\ ttyd'[x].term
    BY <1>0, <1>4, TermOne
  <1>6. \A t \in Servers : Spawned(t)' = Spawned(t)
    BY <1>5 DEF Spawned
  <1>7. server[d].adopted # None => ~Spawned(d)
    BY DEF SupInv, AppInv, Fresh
  <1>8. Fresh'
    BY <1>1, <1>2, <1>3, <1>5, <1>6, <1>7, FreshKept
  <1>9. /\ AppInv' /\ server'[d] = r
        /\ \A e \in Servers : e # d => server'[e].phase \in {"none", "gone"}
    BY <1>1, <1>2, <1>3, <1>8, PhaseSet
  <1>10. Filed'
    <2>1. \A t \in Servers : ttyd'[t].alive /\ ~ttyd'[t].term => t # x /\ pidFile = t
      BY <1>5 DEF SupInv, Filed
    <2>2. x = server[d].adopted => pidFile = x
      BY <1>3, NoneIs DEF SupInv, FileHeld
    <2> QED
      BY <1>4, <2>1, <2>2 DEF Filed
  <1>11. Up(d)
    BY <1>3 DEF Up
  <1>12. FileHeld'
    BY <1>1, <1>4, <1>6, <1>9, <1>11 DEF SupInv, FileHeld, Up
  <1> QED
    BY <1>9, <1>10, <1>12 DEF SupInv

\* The server exits: told, failed, killed, or because its ttyd is gone.
LEMMA EndKeeps ==
  ASSUME Overlap = FALSE, SupInv, TypeOK', NEW d \in Servers,
         \/ TtydExited(d) \/ TermEarly(d) \/ ShutdownAtOnce(d) \/ OrphanStopped(d)
         \/ BootFails(d) \/ ServerKilled(d)
  PROVE  SupInv'
  <1>0. TypeOK
    BY DEF SupInv, AppInv
  <1>1. UNCHANGED <<app, wanted, made, wish>>
    BY DEF TtydExited, TermEarly, ShutdownAtOnce, OrphanStopped, BootFails, ServerKilled
  <1>2. Up(d)
    BY DEF TtydExited, TtydHeard, TermEarly, ShutdownAtOnce, OrphanStopped, BootFails,
           ServerKilled, Up, Early
  <1>3. PICK how \in Hows : Exit(d, how) /\ (how = "failed" => ~Told(d))
    <2>1. CASE TtydExited(d)
      <3>1. ~server[d].term
        BY <2>1 DEF TtydExited, TtydHeard
      <3>2. CASE Recovers(d)
        BY <2>1, <3>1, <3>2 DEF TtydExited, Recovers, Told, Hows
      <3>3. CASE ~Recovers(d)
        BY <2>1, <3>3 DEF TtydExited, Hows
      <3> QED
        BY <3>2, <3>3
    <2>2. CASE BootFails(d)
      BY <2>2 DEF BootFails, Told, Hows
    <2>3. CASE TermEarly(d) \/ ShutdownAtOnce(d) \/ OrphanStopped(d) \/ ServerKilled(d)
      BY <2>3 DEF TermEarly, ShutdownAtOnce, OrphanStopped, ServerKilled, Hows
    <2> QED
      BY <2>1, <2>2, <2>3
  <1>4. how = "failed" => wish /\ ~app.quitting
    BY <1>2, <1>3 DEF SupInv, AppInv, NoStrayServer, AppHolds
  <1>5. \A t \in Servers : /\ ttyd'[t].alive => ttyd[t].alive
                           /\ ttyd'[t].wrapper = ttyd[t].wrapper
                           /\ ttyd'[t].term = ttyd[t].term
    <2>1. CASE TtydExited(d)
      BY <1>0, <2>1, EndOne DEF TtydExited, TtydHeard
    <2>2. CASE OrphanStopped(d)
      <3>1. server[d].adopted \in Servers
        BY <1>0, <2>2, TypeParts DEF OrphanStopped, ServerType, Refs
      <3> QED
        BY <1>0, <2>2, <3>1, EndOne DEF OrphanStopped
    <2>3. CASE UNCHANGED ttyd
      BY <2>3
    <2> QED
      BY <2>1, <2>2, <2>3 DEF TermEarly, ShutdownAtOnce, BootFails, ServerKilled
  <1>6. Filed'
    <2>1. \A t \in Servers : ttyd'[t].alive /\ ~ttyd'[t].term => pidFile = t
      BY <1>5 DEF SupInv, Filed
    <2>2. CASE TtydExited(d)
      <3>1. Spawned(d) /\ ~ttyd[d].alive
        BY <2>2 DEF TtydExited, TtydHeard
      <3>2. pidFile \in {None, d}
        BY <1>2, <3>1 DEF SupInv, FileHeld
      <3> QED
        BY <1>5, <2>1, <3>1, <3>2, NoneIs DEF Filed
    <2>3. CASE UNCHANGED pidFile
      BY <2>1, <2>3 DEF Filed
    <2> QED
      BY <2>2, <2>3 DEF TermEarly, ShutdownAtOnce, OrphanStopped, BootFails, ServerKilled
  <1>7. \A t \in Servers : Spawned(t)' = Spawned(t) /\ (ttyd'[t].alive => ttyd[t].alive)
    BY <1>5 DEF Spawned
  <1> QED
    BY <1>1, <1>2, <1>3, <1>4, <1>6, <1>7, ExitKeeps

\* A ttyd that ends by itself or as it was told.
LEMMA TtydKeeps ==
  ASSUME SupInv, TypeOK', NEW x \in Servers, TtydEnds(x) \/ TtydDies(x)
  PROVE  SupInv'
  <1>0. TypeOK
    BY DEF SupInv, AppInv
  <1>1. UNCHANGED <<app, wanted, made, server, pidFile, exits, wish>>
        /\ ttyd' = [ttyd EXCEPT ![x].alive = FALSE]
    BY DEF TtydEnds, TtydDies
  <1>2. \A t \in Servers : /\ ttyd'[t].alive => ttyd[t].alive
                           /\ ttyd'[t].wrapper = ttyd[t].wrapper
                           /\ ttyd'[t].term = ttyd[t].term
    BY <1>0, <1>1, EndOne
  <1>3. \A t \in Servers : Spawned(t)' = Spawned(t) /\ Up(t)' = Up(t) /\ Told(t)' = Told(t)
    BY <1>1, <1>2 DEF Spawned, Up, Told
  <1>4. Fresh'
    BY <1>1, <1>2, <1>3 DEF SupInv, AppInv, Fresh
  <1>5. OneServer' /\ NoStrayServer' /\ AppHolds'
    BY <1>1, <1>3 DEF SupInv, AppInv, OneServer, NoStrayServer, AppHolds
  <1>6. Filed' /\ FileHeld'
    BY <1>1, <1>2, <1>3 DEF SupInv, Filed, FileHeld
  <1> QED
    BY <1>4, <1>5, <1>6 DEF SupInv, AppInv

-----------------------------------------------------------------------------
(* Theorems                                                                *)

LEMMA NextSup ==
  ASSUME Overlap = FALSE
  PROVE  SupInv /\ [Next]_vars => SupInv'
  <1> SUFFICES ASSUME SupInv, [Next]_vars PROVE SupInv'
    OBVIOUS
  <1>1. TypeOK'
    BY NextTypes DEF SupInv, AppInv
  <1>2. CASE UNCHANGED vars
    BY <1>1, <1>2
    DEF vars, SupInv, AppInv, Fresh, OneServer, NoStrayServer, AppHolds, Filed,
        FileHeld, Up, Told, Spawned
  <1>3. CASE Click \/ Upgrade
    BY <1>1, <1>3, AppKeeps
  <1>4. ASSUME NEW d \in Servers,
               ReadLine(d) \/ SpawnFails(d) \/ \E how \in Hows : ServerExited(d, how)
        PROVE  SupInv'
    BY <1>1, <1>4, HearKeeps
  <1>5. ASSUME NEW d \in Servers,
               \/ Adopt(d) \/ Outdate(d) \/ ClearPidFile(d) \/ SpawnTtyd(d)
               \/ BootDone(d) \/ Shutdown(d)
        PROVE  SupInv'
    BY <1>1, <1>5, AdoptKeeps, OutdateKeeps, ClearKeeps, SpawnTtydKeeps, BootKeeps,
       ShutdownKeeps
  <1>6. ASSUME NEW d \in Servers,
               \/ TtydExited(d) \/ TermEarly(d) \/ ShutdownAtOnce(d) \/ OrphanStopped(d)
               \/ TtydEnds(d) \/ TtydDies(d) \/ BootFails(d) \/ ServerKilled(d)
        PROVE  SupInv'
    BY <1>1, <1>6, EndKeeps, TtydKeeps
  <1> QED
    BY <1>2, <1>3, <1>4, <1>5, <1>6 DEF Next, Step, Break

LEMMA SupInvariant == ASSUME Overlap = FALSE PROVE Spec => []SupInv
  BY InitSup, NextSup, PTL DEF Spec

\* A ttyd that outlives its server is named by ~/.termcast/termcastd.pid,
\* where the next server finds it, or is being terminated
\* (ttyd-manager.ts:257-274, 335-353): over any number of servers, crashes,
\* kills and upgrades, while the user waits for each exit to be reported.
THEOREM NoTtydLost == ASSUME Overlap = FALSE PROVE Spec => []OrphansFound
  <1>1. SupInv => OrphansFound
    BY DEF SupInv, Filed, OrphansFound
  <1> QED
    BY <1>1, SupInvariant, PTL

\* A server that was not told to stop is the one that the desktop app holds,
\* and the user wants it to run (main.ts:628, 816-867, 880-925).
THEOREM ServerHeld == ASSUME Overlap = FALSE PROVE Spec => []NoStrayServer
  <1>1. SupInv => NoStrayServer
    BY DEF SupInv, AppInv
  <1> QED
    BY <1>1, SupInvariant, PTL

=============================================================================
