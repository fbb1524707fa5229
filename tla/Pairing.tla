------------------------------- MODULE Pairing -------------------------------
(***************************************************************************)
(* The QR code a phone pairs with, and the places that show one: the tray  *)
(* popup of the desktop app (relay-desktop/src/main.ts), `termcast qr` and *)
(* the log of a start (index.ts), and the dashboard (web-ui.ts).  Asking   *)
(* for a QR mints a one-time token and registers its grant with the relay; *)
(* the relay holds one grant per machine and reports when it is claimed.   *)
(*                                                                         *)
(* Tokens are numbered in the order they are minted, and the request that  *)
(* mints one has its number; 1 is the token of the start.                  *)
(***************************************************************************)
EXTENDS Naturals, FiniteSetsExt

CONSTANTS
    Overlap,   \* whether a QR is asked for while another request or a claim is under way
    MaxTokens, \* bound: tokens minted
    MaxFaults, \* bound: refused grants, lost frames and failed requests
    Countdown  \* ticks of the popup (60, of a second each)

ASSUME PairingAssumption ==
    /\ Overlap \in BOOLEAN
    /\ MaxTokens \in Nat \ {0} /\ MaxFaults \in Nat /\ Countdown \in Nat \ {0}

VARIABLES
    pairing,  \* the token of the pairing that the Web UI holds
    minted,   \* tokens minted
    req,      \* the requests for a QR, and where their answers are shown
    tray,     \* the popup state of the desktop app
    windows,  \* its QR windows: open, or told to close
    timers,   \* its countdown intervals that run
    page,     \* the token the dashboard shows, or None
    grant,    \* the token whose grant the relay holds, or None
    claimed,  \* tokens claimed by a phone
    dead,     \* tokens that expired, and those whose grant was refused
    consumed, \* "pairing consumed" frames on their way to the server
    lines,    \* "[pairing] consumed" lines on their way to the app
    faults    \* faults so far

vars == <<pairing, minted, req, tray, windows, timers, page, grant, claimed,
          dead, consumed, lines, faults>>

server == <<pairing, minted, page, grant, claimed, dead>>
frames == <<consumed, lines>>

None == 0
Tokens == 1 .. MaxTokens

Pending(i) == req[i].at \in {"registering", "drawing"}

Init ==
    /\ pairing = 1
    /\ minted = 1
    /\ req = [i \in Tokens |-> IF i = 1 THEN [by |-> "start", at |-> "shown", qr |-> 1]
                               ELSE [by |-> "nobody", at |-> "none", qr |-> None]]
    /\ tray = [disabled |-> FALSE, count |-> 0, window |-> None, timer |-> None]
    /\ windows = [open |-> {}, closing |-> {}]
    /\ timers = {}
    /\ page = None
    /\ grant = 1
    /\ claimed = {}
    /\ dead = {}
    /\ consumed = 0
    /\ lines = 0
    /\ faults = 0

Fault == faults < MaxFaults /\ faults' = faults + 1

-----------------------------------------------------------------------------
(* Asking for a QR                                                         *)

\* People wait for the QR they asked for, and for a claim to be reported.
Settled == Overlap \/ ( /\ \A i \in Tokens : ~Pending(i)
                        /\ windows.closing = {} /\ consumed = 0 /\ lines = 0 )

\* GET /api/pairing?new=1: a token is minted before anything is awaited.
Mint(who) ==
    /\ minted < MaxTokens
    /\ minted' = minted + 1
    /\ pairing' = minted + 1
    /\ req' = [req EXCEPT ![minted + 1] = [by |-> who, at |-> "registering", qr |-> None]]

\* "Show QR" in the tray menu.
ShowQRPopup ==
    /\ Settled
    /\ ~tray.disabled
    /\ Mint("tray")
    /\ tray' = [tray EXCEPT !.disabled = TRUE, !.count = Countdown]
    /\ UNCHANGED <<windows, timers, page, grant, claimed, dead, frames, faults>>

\* `termcast qr`.
QrCommand ==
    /\ Settled
    /\ Mint("cli")
    /\ UNCHANGED <<tray, windows, timers, page, grant, claimed, dead, frames, faults>>

\* Mutant of DashboardPolls: the page asks for a QR of its own.
DashboardMints ==
    /\ Mint("page")
    /\ page' = minted + 1
    /\ UNCHANGED <<tray, windows, timers, grant, claimed, dead, frames, faults>>

\* GET /api/pairing from the dashboard shows the pairing there is.
DashboardPolls ==
    /\ page' = pairing
    /\ UNCHANGED <<pairing, minted, req, tray, windows, timers, grant, claimed,
                   dead, frames, faults>>

\* The image is drawn of the pairing the Web UI holds by then.
Drawing(i) == [req EXCEPT ![i].at = "drawing", ![i].qr = pairing]

\* The relay takes the grant in place of the one before.
Registered(i) ==
    /\ req[i].at = "registering"
    /\ grant' = i
    /\ req' = Drawing(i)
    /\ UNCHANGED <<pairing, minted, tray, windows, timers, page, claimed, dead,
                   frames, faults>>

\* It refuses, or cannot be reached: the QR is served all the same.
Refused(i) ==
    /\ Fault
    /\ req[i].at = "registering"
    /\ dead' = dead \cup {i}
    /\ req' = Drawing(i)
    /\ UNCHANGED <<pairing, minted, tray, windows, timers, page, grant, claimed, frames>>

-----------------------------------------------------------------------------
(* The popup                                                               *)

\* The answer opens a window and starts the countdown.
PopupOpens(i) ==
    /\ req[i].by = "tray" /\ req[i].at = "drawing"
    /\ req' = [req EXCEPT ![i].at = "shown"]
    /\ windows' = [windows EXCEPT !.open = @ \cup {i}]
    /\ timers' = timers \cup {i}
    /\ tray' = [tray EXCEPT !.window = i, !.timer = i]
    /\ UNCHANGED <<server, frames, faults>>

\* Mutant of Enabled: a failed request leaves the menu item as it was.
StillDisabled == [tray EXCEPT !.count = 0]

Enabled == [tray EXCEPT !.disabled = FALSE, !.count = 0]

\* The Web UI cannot be reached, or its answer has no image.
PopupFails(i) ==
    /\ Fault
    /\ req[i].by = "tray" /\ Pending(i)
    /\ req' = [req EXCEPT ![i].at = "left"]
    /\ tray' = Enabled
    /\ UNCHANGED <<server, windows, timers, frames>>

Closing(w) == [open |-> windows.open \ {w},
               closing |-> IF w \in windows.open THEN windows.closing \cup {w}
                           ELSE windows.closing]

\* The countdown closes the window the app knows, once it has run down.
Tick(t) ==
    LET left == IF tray.count = 0 THEN 0 ELSE tray.count - 1
    IN  /\ t \in timers
        /\ tray' = [tray EXCEPT !.count = left]
        /\ windows' = IF left = 0 THEN Closing(tray.window) ELSE windows
        /\ UNCHANGED <<server, req, timers, frames, faults>>

UserCloses(w) ==
    /\ w \in windows.open
    /\ windows' = Closing(w)
    /\ UNCHANGED <<server, req, tray, timers, frames, faults>>

\* Mutant of Closed: the countdown of the window is not cleared.
ClosedKeepsTimer(w) ==
    /\ w \in windows.closing
    /\ windows' = [windows EXCEPT !.closing = @ \ {w}]
    /\ tray' = [Enabled EXCEPT !.window = None, !.timer = None]
    /\ req' = [req EXCEPT ![w].at = "left"]
    /\ UNCHANGED <<server, timers, frames, faults>>

\* A window's "closed" event comes after it was told to close.
Closed(w) ==
    /\ w \in windows.closing
    /\ windows' = [windows EXCEPT !.closing = @ \ {w}]
    /\ timers' = timers \ {tray.timer}
    /\ tray' = [Enabled EXCEPT !.window = None, !.timer = None]
    /\ req' = [req EXCEPT ![w].at = "left"]
    /\ UNCHANGED <<server, frames, faults>>

\* closeQRWindow, when the server's log says that the QR was claimed.
CloseQRWindow ==
    /\ lines > 0 /\ lines' = lines - 1
    /\ windows' = Closing(tray.window)
    /\ timers' = timers \ {tray.timer}
    /\ tray' = [Enabled EXCEPT !.timer = None]
    /\ UNCHANGED <<server, req, consumed, faults>>

-----------------------------------------------------------------------------
(* `termcast qr`                                                           *)

\* The text is drawn after the image, and printed when the answer is there.
Printed(i) ==
    /\ req[i].by = "cli" /\ req[i].at = "drawing"
    /\ req' = [req EXCEPT ![i].at = "printed", ![i].qr = pairing]
    /\ UNCHANGED <<server, tray, windows, timers, frames, faults>>

\* The long poll for the claim: a waiter and a timer of six minutes.
PollStarts(i) ==
    /\ req[i].at = "printed"
    /\ req' = [req EXCEPT ![i].at = "polling"]
    /\ UNCHANGED <<server, tray, windows, timers, frames, faults>>

\* The timer ends it, or Ctrl-C does.
PollEnds(i) ==
    /\ req[i].at = "polling"
    /\ req' = [req EXCEPT ![i].at = "left"]
    /\ UNCHANGED <<server, tray, windows, timers, frames, faults>>

-----------------------------------------------------------------------------
(* The phone and the relay                                                 *)

Seen == {page} \cup {req[i].qr : i \in {j \in Tokens : req[j].at \notin {"none", "registering"}}}

\* A phone scans a QR that is, or was, shown, and the relay lets it in once.
Claim ==
    /\ Overlap \/ \A i \in Tokens : ~Pending(i)
    /\ grant # None /\ grant \in Seen
    /\ claimed' = claimed \cup {grant}
    /\ grant' = None
    /\ consumed' = consumed + 1
    /\ UNCHANGED <<pairing, minted, req, tray, windows, timers, page, dead, lines, faults>>

\* Five minutes pass.
Expire ==
    /\ grant # None
    /\ dead' = dead \cup {grant}
    /\ grant' = None
    /\ UNCHANGED <<pairing, minted, req, tray, windows, timers, page, claimed, frames, faults>>

FrameLost ==
    /\ Fault
    /\ consumed > 0 /\ consumed' = consumed - 1
    /\ UNCHANGED <<server, req, tray, windows, timers, lines>>

\* The frame says that the QR was claimed, and not which one: every long poll
\* there is gets its answer.
ClaimHeard ==
    /\ consumed > 0 /\ consumed' = consumed - 1
    /\ lines' = lines + 1
    /\ req' = [i \in Tokens |-> IF req[i].at = "polling"
                              THEN [req[i] EXCEPT !.at = "paired"] ELSE req[i]]
    /\ UNCHANGED <<server, tray, windows, timers, faults>>

-----------------------------------------------------------------------------
Progress ==
    \/ ClaimHeard \/ CloseQRWindow
    \/ \E i \in Tokens :
         \/ Registered(i) \/ PopupOpens(i) \/ Closed(i)
         \/ Printed(i) \/ PollStarts(i) \/ PollEnds(i)
         \/ (tray.count > 0 \/ tray.window \in windows.open) /\ Tick(i)

Next ==
    \/ ShowQRPopup \/ QrCommand \/ DashboardPolls
    \/ Progress
    \/ Claim \/ Expire \/ FrameLost
    \/ \E i \in Tokens : Refused(i) \/ PopupFails(i) \/ UserCloses(i) \/ Tick(i)

Spec == Init /\ [][Next]_vars

\* Requests are answered, log lines are read and intervals fire.
FairSpec == Spec /\ WF_vars(Progress)

-----------------------------------------------------------------------------
(* Properties                                                              *)

TypeOK ==
    /\ pairing \in Tokens /\ minted \in Tokens
    /\ req \in [Tokens -> [by : {"nobody", "start", "tray", "cli"},
                           at : {"none", "registering", "drawing", "shown", "printed",
                                 "polling", "paired", "left"},
                           qr : {None} \cup Tokens]]
    /\ tray \in [disabled : BOOLEAN, count : 0 .. Countdown,
                 window : {None} \cup Tokens, timer : {None} \cup Tokens]
    /\ windows \in [open : SUBSET Tokens, closing : SUBSET Tokens]
    /\ timers \subseteq Tokens
    /\ page \in {None} \cup Tokens /\ grant \in {None} \cup Tokens
    /\ claimed \subseteq Tokens /\ dead \subseteq Tokens
    /\ consumed \in 0 .. MaxTokens /\ lines \in 0 .. MaxTokens
    /\ faults \in 0 .. MaxFaults

Asked == {i \in Tokens : req[i].by \in {"start", "tray", "cli"}}

\* The QR somebody asked for last is the one that the relay lets in, until a
\* phone claims it or it expires: no other surface makes it worthless
\* (web-ui.ts:130-158).
ShownQrWorks ==
    LET last == Max(Asked)
    IN  req[last].at \in {"shown", "printed", "polling"} =>
            req[last].qr = last /\ last \in {grant} \cup claimed \cup dead

\* There is one popup at most, the app knows it, and one countdown runs for
\* it: closing the popup leaves nothing behind that would close the next one
\* early, or never (main.ts:183-194, 259-279).
NoOrphanWindow ==
    /\ windows.open \subseteq {tray.window}
    /\ timers \subseteq {tray.timer}
    /\ windows.open \subseteq timers

\* `termcast qr` says "Paired" only when a phone claimed its QR or a newer one,
\* or the relay had refused its grant (index.ts:990-994).
PairedIsTrue ==
    \A i \in Tokens :
        req[i].at = "paired" => i \in dead \/ \E j \in claimed : j >= i

\* The menu item "Show QR" comes back, however the request and the popup end
\* (main.ts:197-199, 216-219, 275-287).
ButtonReturns == tray.disabled ~> ~tray.disabled
=============================================================================
