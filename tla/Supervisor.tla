------------------------------ MODULE Supervisor ------------------------------
(***************************************************************************)
(* Who keeps the terminal backend alive: the desktop app that runs the     *)
(* server as a child process (relay-desktop/src/main.ts), the server's own *)
(* start and shutdown (index.ts), and TtydManager, which spawns termcastd  *)
(* (ttyd) or adopts one that an earlier server left behind                 *)
(* (ttyd-manager.ts, ttyd-restart-policy.ts).                              *)
(*                                                                         *)
(* Servers are numbered in the order they are spawned, and the ttyd a      *)
(* server spawns has its number: a server spawns one at most.              *)
(***************************************************************************)
EXTENDS Naturals, FiniteSets

CONSTANTS
    Overlap,    \* whether the user clicks while an exit is not yet reported
    MaxServers, \* bound: servers spawned
    MaxFaults,  \* bound: crashes, failed starts and ttyds that die
    MaxWrappers \* bound: wrapper scripts, one more with every upgrade

ASSUME SupervisorAssumption ==
    /\ Overlap \in BOOLEAN
    /\ MaxServers \in Nat /\ MaxFaults \in Nat /\ MaxWrappers \in Nat \ {0}

VARIABLES
    app,     \* the desktop app: the server it holds and what its menu shows
    wanted,  \* serverWasRunning in settings.json
    made,    \* servers spawned so far
    server,  \* their processes
    ttyd,    \* the ttyd of each of them
    pidFile, \* ~/.termcast/termcastd.pid: a ttyd, or None
    exits,   \* exits of servers that the app has not been told of
    lines,   \* servers whose "Web UI:" line the app has not read
    wrapper, \* the wrapper script that a start would use now
    faults,  \* faults so far
    wish     \* what the user asked for last: the server up or down

vars == <<app, wanted, made, server, ttyd, pidFile, exits, lines, wrapper,
          faults, wish>>

None == 0
Servers == 1 .. MaxServers
Refs == {None} \cup Servers

NoServer == [phase |-> "none", adopted |-> None, term |-> FALSE]
NoTtyd == [alive |-> FALSE, term |-> FALSE, wrapper |-> 0, heard |-> FALSE]

Early == {"starting", "clearing", "choosing", "booting"}
Spawned(d) == ttyd[d].wrapper # 0
Up(d) == server[d].phase \notin {"none", "gone"}
Told(d) == server[d].term \/ server[d].phase = "stopping"

Init ==
    /\ app = [up |-> FALSE, quitting |-> FALSE, proc |-> None, shown |-> "stopped"]
    /\ wanted = TRUE
    /\ made = 0
    /\ server = [d \in Servers |-> NoServer]
    /\ ttyd = [d \in Servers |-> NoTtyd]
    /\ pidFile = None
    /\ exits = {}
    /\ lines = {}
    /\ wrapper = 1
    /\ faults = 0
    /\ wish = TRUE

-----------------------------------------------------------------------------
(* The desktop app                                                         *)

Dying(d) == Up(d) /\ (Told(d) \/ (Spawned(d) /\ ~ttyd[d].alive))

\* The user waits for an exit under way to be reported before the next click.
Quiet == Overlap \/ (exits = {} /\ \A d \in Servers : ~Dying(d))

\* startServer: spawn and show it as starting; `saved` is the app after
\* whatever led here, `keep` whether the wish to run is saved.
Spawn(saved, keep) ==
    /\ made < MaxServers
    /\ made' = made + 1
    /\ server' = [server EXCEPT ![made + 1].phase = "starting"]
    /\ app' = [saved EXCEPT !.proc = made + 1, !.shown = "starting"]
    /\ wanted' = (wanted \/ keep)

\* The app is opened, and starts the server if it was running.
OpenApp ==
    /\ ~app.up
    /\ LET opened == [app EXCEPT !.up = TRUE, !.quitting = FALSE] IN
         \/ wanted /\ Spawn(opened, FALSE)
         \/ ~wanted /\ app' = opened /\ UNCHANGED <<made, server, wanted>>
    /\ UNCHANGED <<ttyd, pidFile, exits, lines, wrapper, faults, wish>>

ClickStart ==
    /\ app.up /\ ~app.quitting /\ Quiet
    /\ app.shown = "stopped"
    /\ app.proc = None
    /\ Spawn(app, TRUE)
    /\ wish' = TRUE
    /\ UNCHANGED <<ttyd, pidFile, exits, lines, wrapper, faults>>

\* stopServer: the process is let go of at once and sent SIGTERM.
Signalled == [d \in Servers |->
                IF d = app.proc /\ Up(d) THEN [server[d] EXCEPT !.term = TRUE] ELSE server[d]]

\* Mutant of StopServer: a server still starting is only forgotten.
StopForgets(keep) ==
    /\ app' = [app EXCEPT !.proc = None, !.shown = "stopped",
                          !.quitting = @ \/ keep]
    /\ server' = IF app.shown = "running" THEN Signalled ELSE server
    /\ wanted' = (keep /\ wanted)

StopServer(keep) ==
    /\ app' = [app EXCEPT !.proc = None, !.shown = "stopped",
                          !.quitting = @ \/ keep]
    /\ server' = Signalled
    /\ wanted' = (keep /\ wanted)

ClickStop ==
    /\ app.up /\ ~app.quitting /\ Quiet
    /\ app.shown # "stopped"
    /\ StopServer(FALSE)
    /\ wish' = FALSE
    /\ UNCHANGED <<made, ttyd, pidFile, exits, lines, wrapper, faults>>

\* Quit keeps serverWasRunning, for the next time the app is opened.
Quit ==
    /\ app.up /\ ~app.quitting /\ Quiet
    /\ StopServer(TRUE)
    /\ UNCHANGED <<made, ttyd, pidFile, exits, lines, wrapper, faults, wish>>

QuitDone ==
    /\ app.up /\ app.quitting
    /\ exits = {} /\ \A d \in Servers : ~(Up(d) /\ Told(d))
    /\ app' = [app EXCEPT !.up = FALSE]
    /\ UNCHANGED <<wanted, made, server, ttyd, pidFile, exits, lines, wrapper,
                   faults, wish>>

\* The "Web UI:" line of any server makes the app show one as running.
ReadLine(d) ==
    /\ app.up /\ d \in lines
    /\ lines' = lines \ {d}
    /\ app' = [app EXCEPT !.shown = "running"]
    /\ UNCHANGED <<wanted, made, server, ttyd, pidFile, exits, wrapper, faults,
                   wish>>

\* The process cannot be spawned: the "error" event, and no exit.
SpawnFails(d) ==
    /\ app.up
    /\ faults < MaxFaults /\ faults' = faults + 1
    /\ server[d].phase = "starting"
    /\ server' = [server EXCEPT ![d].phase = "gone"]
    /\ app' = [app EXCEPT !.proc = None, !.shown = "stopped"]
    /\ UNCHANGED <<wanted, made, ttyd, pidFile, exits, lines, wrapper, wish>>

\* The exit handler; a server's output is read before its exit is.  It clears
\* the app's state for whatever server exits, reports an error in a modal
\* dialog, and after a failure starts another.
ServerExited(d, how) ==
    /\ app.up /\ <<d, how>> \in exits /\ d \notin lines
    /\ exits' = exits \ {<<d, how>>}
    /\ LET cleared == [app EXCEPT !.proc = None, !.shown = "stopped"]
           again == \/ how = "failed"
                    \/ how = "clean" /\ app.shown = "starting"
       IN  \/ again /\ Spawn(cleared, TRUE)
           \/ /\ ~again \/ made = MaxServers
              /\ app' = cleared
              /\ UNCHANGED <<made, server, wanted>>
    /\ UNCHANGED <<ttyd, pidFile, lines, wrapper, faults, wish>>

-----------------------------------------------------------------------------
(* The server and its TtydManager                                          *)

Exit(d, how) ==
    /\ server' = [server EXCEPT ![d].phase = "gone", ![d].term = FALSE,
                                ![d].adopted = None]
    /\ exits' = exits \cup {<<d, how>>}

Saved == pidFile # None /\ ttyd[pidFile].alive

\* start: the ttyd of the pid file is adopted if it is alive and was spawned
\* with the wrapper script that this start would use.
Adopt(d) ==
    /\ server[d].phase = "starting" /\ ~server[d].term
    /\ Saved /\ ttyd[pidFile].wrapper = wrapper
    /\ server' = [server EXCEPT ![d].phase = "booting", ![d].adopted = pidFile]
    /\ UNCHANGED <<app, wanted, made, ttyd, pidFile, exits, lines, wrapper,
                   faults, wish>>

\* One from an older build is terminated, and given time to let its port go.
Outdate(d) ==
    /\ server[d].phase = "starting" /\ ~server[d].term
    /\ Saved /\ ttyd[pidFile].wrapper # wrapper
    /\ server' = [server EXCEPT ![d].phase = "clearing"]
    /\ ttyd' = [ttyd EXCEPT ![pidFile].term = TRUE]
    /\ UNCHANGED <<app, wanted, made, pidFile, exits, lines, wrapper, faults,
                   wish>>

ClearPidFile(d) ==
    /\ ~server[d].term
    /\ \/ server[d].phase = "clearing"
       \/ server[d].phase = "starting" /\ ~Saved
    /\ server' = [server EXCEPT ![d].phase = "choosing"]
    /\ pidFile' = None
    /\ UNCHANGED <<app, wanted, made, ttyd, exits, lines, wrapper, faults, wish>>

\* Mutant of SpawnTtyd: the pid file is left to the server that stops.
SpawnUnsaved(d) ==
    /\ server[d].phase = "choosing" /\ ~server[d].term
    /\ server' = [server EXCEPT ![d].phase = "booting"]
    /\ ttyd' = [ttyd EXCEPT ![d] = [NoTtyd EXCEPT !.alive = TRUE, !.wrapper = wrapper]]
    /\ UNCHANGED <<app, wanted, made, pidFile, exits, lines, wrapper, faults, wish>>

SpawnTtyd(d) ==
    /\ server[d].phase = "choosing" /\ ~server[d].term
    /\ server' = [server EXCEPT ![d].phase = "booting"]
    /\ ttyd' = [ttyd EXCEPT ![d] = [NoTtyd EXCEPT !.alive = TRUE, !.wrapper = wrapper]]
    /\ pidFile' = d
    /\ UNCHANGED <<app, wanted, made, exits, lines, wrapper, faults, wish>>

\* The relay knows the server, the Web UI listens, signals are handled.
BootDone(d) ==
    /\ server[d].phase = "booting" /\ ~server[d].term
    /\ server' = [server EXCEPT ![d].phase = "serving"]
    /\ lines' = lines \cup {d}
    /\ UNCHANGED <<app, wanted, made, ttyd, pidFile, exits, wrapper, faults, wish>>

\* A server hears of its ttyd's end and of SIGTERM in the order they came.
TtydHeard(d) ==
    /\ server[d].phase \in {"booting", "serving", "stopping"}
    /\ ~server[d].term \/ Overlap
    /\ Spawned(d) /\ ~ttyd[d].alive /\ ~ttyd[d].heard
    /\ ttyd' = [ttyd EXCEPT ![d].heard = TRUE]
    /\ pidFile' = None

\* shouldRecoverFromTtydExit: unless it was stopped, whatever it died of.
Recovers(d) == server[d].phase # "stopping"

\* Mutant of TtydExited: a ttyd that exits by itself is not recovered from.
TtydExitIgnored(d) ==
    /\ TtydHeard(d)
    /\ IF Recovers(d) THEN UNCHANGED <<server, exits>> ELSE Exit(d, "clean")
    /\ UNCHANGED <<app, wanted, made, lines, wrapper, faults, wish>>

\* ttyd's exit event: the pid file is removed, and the server exits too - with
\* an error when it was serving, so that whoever runs it starts another.
TtydExited(d) ==
    /\ TtydHeard(d)
    /\ Exit(d, IF Recovers(d) THEN "failed" ELSE "clean")
    /\ UNCHANGED <<app, wanted, made, lines, wrapper, faults, wish>>

\* SIGTERM before the handlers are there: the server is gone, ttyd stays.
TermEarly(d) ==
    /\ server[d].phase \in Early /\ server[d].term
    /\ Exit(d, "signal")
    /\ UNCHANGED <<app, wanted, made, ttyd, pidFile, lines, wrapper, faults, wish>>

\* isRunning: an adopted ttyd is looked up, a spawned one is asked its exit.
IsRunning(d) ==
    IF server[d].adopted # None THEN ttyd[server[d].adopted].alive
    ELSE Spawned(d) /\ ~ttyd[d].heard

\* shutdown with a ttyd running: it is stopped and the server waits for it.
\* The pid file of an adopted one is removed here, as no exit event will come.
Shutdown(d) ==
    LET own == server[d].adopted = None
        target == IF own THEN d ELSE server[d].adopted
    IN  /\ server[d].phase = "serving" /\ server[d].term
        /\ IsRunning(d)
        /\ server' = [server EXCEPT ![d].phase = "stopping", ![d].term = FALSE]
        /\ ttyd' = [ttyd EXCEPT ![target].term = TRUE]
        /\ pidFile' = IF own THEN pidFile ELSE None
        /\ UNCHANGED <<app, wanted, made, exits, lines, wrapper, faults, wish>>

ShutdownAtOnce(d) ==
    /\ server[d].phase = "serving" /\ server[d].term
    /\ ~IsRunning(d)
    /\ Exit(d, "clean")
    /\ UNCHANGED <<app, wanted, made, ttyd, pidFile, lines, wrapper, faults, wish>>

\* An adopted ttyd is given five seconds before SIGKILL, and the server exits
\* after six.
OrphanStopped(d) ==
    /\ server[d].phase = "stopping" /\ server[d].adopted # None
    /\ ttyd' = [ttyd EXCEPT ![server[d].adopted].alive = FALSE]
    /\ Exit(d, "clean")
    /\ UNCHANGED <<app, wanted, made, pidFile, lines, wrapper, faults, wish>>

-----------------------------------------------------------------------------
(* The processes                                                           *)

\* A ttyd obeys SIGTERM, in less time than anyone waits for it.
TtydEnds(t) ==
    /\ ttyd[t].alive /\ ttyd[t].term
    /\ ttyd' = [ttyd EXCEPT ![t].alive = FALSE]
    /\ UNCHANGED <<app, wanted, made, server, pidFile, exits, lines, wrapper,
                   faults, wish>>

Fault == faults < MaxFaults /\ faults' = faults + 1

TtydDies(t) ==
    /\ Fault
    /\ ttyd[t].alive
    /\ ttyd' = [ttyd EXCEPT ![t].alive = FALSE]
    /\ UNCHANGED <<app, wanted, made, server, pidFile, exits, lines, wrapper, wish>>

\* The relay refuses the server, or another step of its start fails.
BootFails(d) ==
    /\ Fault
    /\ server[d].phase \in {"starting", "choosing", "booting"} /\ ~server[d].term
    /\ Exit(d, "failed")
    /\ UNCHANGED <<app, wanted, made, ttyd, pidFile, lines, wrapper, wish>>

\* A server is killed: by the system, or by the app eight seconds after Stop.
ServerKilled(d) ==
    /\ Fault
    /\ Up(d)
    /\ Exit(d, "signal")
    /\ UNCHANGED <<app, wanted, made, ttyd, pidFile, lines, wrapper, wish>>

\* A new version, or a multiplexer is installed: another wrapper script.
Upgrade ==
    /\ wrapper < MaxWrappers
    /\ wrapper' = wrapper + 1
    /\ UNCHANGED <<app, wanted, made, server, ttyd, pidFile, exits, lines,
                   faults, wish>>

-----------------------------------------------------------------------------
Click == OpenApp \/ ClickStart \/ ClickStop \/ Quit \/ QuitDone

Hows == {"failed", "signal", "clean"}

Step ==
    \E d \in Servers :
      \/ ReadLine(d) \/ \E how \in Hows : ServerExited(d, how)
      \/ Adopt(d) \/ Outdate(d) \/ ClearPidFile(d) \/ SpawnTtyd(d)
      \/ BootDone(d) \/ TtydExited(d) \/ TermEarly(d) \/ Shutdown(d)
      \/ ShutdownAtOnce(d) \/ OrphanStopped(d) \/ TtydEnds(d)

Break ==
    \/ Upgrade
    \/ \E d \in Servers : SpawnFails(d) \/ TtydDies(d) \/ BootFails(d) \/ ServerKilled(d)

Next == Click \/ Step \/ Break

Spec == Init /\ [][Next]_vars

\* Processes run, signals arrive and the event loops turn.
FairSpec == Spec /\ WF_vars(Step)

-----------------------------------------------------------------------------
(* Properties                                                              *)

TypeOK ==
    /\ app \in [up : BOOLEAN, quitting : BOOLEAN, proc : Refs,
                shown : {"stopped", "starting", "running"}]
    /\ wanted \in BOOLEAN /\ wish \in BOOLEAN
    /\ made \in 0 .. MaxServers
    /\ server \in [Servers -> [phase : Early \cup {"none", "serving", "stopping", "gone"},
                               adopted : Refs, term : BOOLEAN]]
    /\ ttyd \in [Servers -> [alive : BOOLEAN, term : BOOLEAN,
                             wrapper : 0 .. MaxWrappers, heard : BOOLEAN]]
    /\ pidFile \in Refs
    /\ exits \subseteq Servers \X Hows
    /\ lines \subseteq Servers
    /\ wrapper \in 1 .. MaxWrappers
    /\ faults \in 0 .. MaxFaults

\* No ttyd is lost: one whose server is gone without stopping it is named by
\* the pid file, where the next server finds it, or is being terminated
\* (ttyd-manager.ts:257-274, 335-353).
OrphansFound ==
    \A t \in Servers :
        ttyd[t].alive /\ ~Up(t) => pidFile = t \/ ttyd[t].term

\* There is never a server that the app neither holds nor has told to stop,
\* never two that it has not told, and none after a Stop
\* (main.ts:628, 816-867, 880-925).
NoStrayServer ==
    \A d \in Servers : Up(d) /\ ~Told(d) => app.proc = d /\ wish

TerminalUp ==
    \E d \in Servers :
        /\ app.proc = d /\ server[d].phase = "serving"
        /\ IF server[d].adopted # None THEN ttyd[server[d].adopted].alive ELSE ttyd[d].alive

Back == TerminalUp \/ app.shown = "stopped" \/ made = MaxServers

\* A ttyd that dies under the server that spawned it is replaced, whatever it
\* died of, or the user is shown that the server is down: the app does not go
\* on showing a server that can open no terminal (ttyd-restart-policy.ts:5-19).
SpawnedRecovered ==
    \A d \in Servers :
        (app.proc = d /\ server[d].phase = "serving" /\ Spawned(d) /\ ~ttyd[d].alive)
          ~> Back

\* The same of any ttyd a server serves, adopted ones included.  It does not
\* hold: nothing watches an adopted ttyd (ttyd-manager.ts:262, index.ts:247).
TtydRecovered ==
    \A d \in Servers :
        (app.proc = d /\ server[d].phase = "serving" /\ ~TerminalUp) ~> Back
=============================================================================
