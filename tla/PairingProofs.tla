---------------------------- MODULE PairingProofs ----------------------------
(***************************************************************************)
(* Theorems about Pairing, when one QR is asked for after the other is     *)
(* answered and no claim is being reported: then the request that is       *)
(* pending is the one that minted last, and the popup it may open finds    *)
(* neither a window nor a countdown.  Its types do not need that: a token  *)
(* is granted once and claimed once, so there is one report for each claim *)
(* (GrantedOnce, ReportsCounted).                                          *)
(***************************************************************************)
EXTENDS Pairing, FiniteSetTheorems, TLAPS

\* FiniteSetsExt!Max, where it has a value.
LEMMA MaxIs ==
  ASSUME NEW S, NEW m \in S, S \subseteq Nat, \A x \in S : x <= m
  PROVE  Max(S) = m
  <1>1. \A y \in S : m >= y
    OBVIOUS
  <1>2. Max(S) \in S /\ \A y \in S : Max(S) >= y
    BY <1>1 DEF Max
  <1>3. PICK x : x = Max(S)
    OBVIOUS
  <1>4. x \in Nat /\ m \in Nat /\ x >= m /\ m >= x
    BY <1>1, <1>2, <1>3
  <1>5. x = m
    BY <1>4
  <1> QED
    BY <1>3, <1>5

LEMMA Bounds == /\ MaxTokens \in Nat /\ MaxTokens >= 1
                /\ Countdown \in Nat /\ Countdown >= 1
                /\ MaxFaults \in Nat
  BY PairingAssumption

-----------------------------------------------------------------------------
(* The invariant                                                           *)

Requests == [by : {"nobody", "start", "tray", "cli"},
             at : {"none", "registering", "drawing", "shown", "printed",
                   "polling", "paired", "left"},
             qr : {None} \cup Tokens]

TrayType == [disabled : BOOLEAN, count : 0 .. Countdown,
             window : {None} \cup Tokens, timer : {None} \cup Tokens]

Types ==
    /\ pairing \in Tokens /\ minted \in Tokens
    /\ req \in [Tokens -> Requests]
    /\ tray \in TrayType
    /\ windows \in [open : SUBSET Tokens, closing : SUBSET Tokens]
    /\ timers \subseteq Tokens
    /\ consumed \in Nat /\ lines \in Nat

\* Requests come one after the other, and the Web UI holds what the last minted.
Minted ==
    /\ pairing = minted
    /\ \A i \in Tokens : (i <= minted) <=> (req[i].by # "nobody")
    /\ \A i \in Tokens : Pending(i) => i = minted

\* The QR of the last one is of its own token, which the relay knew.
LastWorks ==
    req[minted].at \in {"drawing", "shown", "printed", "polling"} =>
        req[minted].qr = minted /\ minted \in {grant} \cup claimed \cup dead

\* No claim is being reported while a request is pending.
ClaimsApart == (\E i \in Tokens : Pending(i)) => consumed = 0 /\ lines = 0

\* One popup, which has the countdown while it is open; none while one is
\* being asked for.
OnePopup ==
    /\ windows.open \cup windows.closing \subseteq {tray.window}
    /\ windows.open \cap windows.closing = {}
    /\ timers \subseteq {tray.timer}
    /\ windows.open \subseteq timers
    /\ timers # {} => windows.open \cup windows.closing # {}
    /\ windows.open # {} => tray.disabled
    /\ \A i \in Tokens : (req[i].by = "tray" /\ Pending(i)) =>
          tray.disabled /\ windows.open = {} /\ windows.closing = {}

PairInv == Types /\ Minted /\ LastWorks /\ ClaimsApart /\ OnePopup

LEMMA InitPair == Init => PairInv
  <1> SUFFICES ASSUME Init PROVE PairInv
    OBVIOUS
  <1>1. 1 \in Tokens /\ 0 \in 0 .. Countdown
    BY Bounds DEF Tokens
  <1>2. Types
    BY <1>1 DEF Init, Types, Requests, TrayType, None
  <1>3. Minted
    BY <1>1 DEF Init, Minted, Pending, Tokens
  <1>4. LastWorks
    BY <1>1 DEF Init, LastWorks
  <1>5. ClaimsApart /\ OnePopup
    BY <1>1 DEF Init, ClaimsApart, OnePopup, Pending
  <1> QED
    BY <1>2, <1>3, <1>4, <1>5 DEF PairInv

-----------------------------------------------------------------------------
(* Asking                                                                  *)

\* A new request is the only one that is pending.
LEMMA MintKeeps ==
  ASSUME PairInv, NEW who \in {"tray", "cli"}, Mint(who),
         \A i \in Tokens : ~Pending(i)
  PROVE  /\ pairing' \in Tokens /\ minted' \in Tokens
         /\ req' \in [Tokens -> Requests]
         /\ Minted' /\ LastWorks'
         /\ \A i \in Tokens : Pending(i)' => req'[i].by = who
  <1> DEFINE n == minted + 1
  <1> DEFINE r == [by |-> who, at |-> "registering", qr |-> None]
  <1>1. n \in Tokens /\ n # minted /\ minted \in Tokens
    BY Bounds DEF Mint, PairInv, Types, Tokens
  <1>2. /\ pairing' = n /\ minted' = n
        /\ req' = [req EXCEPT ![n] = r]
        /\ req \in [Tokens -> Requests]
    BY DEF Mint, PairInv, Types
  <1>3. \A i \in Tokens : i <= n <=> (i <= minted \/ i = n)
    BY <1>1 DEF Tokens
  <1> HIDE DEF n
  <1>4. r \in Requests /\ r.by = who /\ r.at = "registering" /\ who # "nobody"
    BY DEF Requests
  <1> HIDE DEF r
  <1>5. req'[n] = r /\ (\A i \in Tokens : i # n => req'[i] = req[i])
    BY <1>1, <1>2
  <1>6. req' \in [Tokens -> Requests]
    BY <1>2, <1>4
  <1>7. \A i \in Tokens : Pending(i)' => i = n
    BY <1>5 DEF Pending
  <1>8. \A i \in Tokens : (i <= n) <=> (req'[i].by # "nobody")
    BY <1>3, <1>4, <1>5 DEF PairInv, Minted
  <1>9. Minted'
    BY <1>2, <1>7, <1>8 DEF Minted
  <1>10. LastWorks'
    BY <1>2, <1>4, <1>5 DEF LastWorks
  <1> QED
    BY <1>1, <1>2, <1>4, <1>5, <1>6, <1>7, <1>9, <1>10

\* A step of request i that mints nothing and shows nobody else's token.
LEMMA StepMinted ==
  ASSUME PairInv, NEW i \in Tokens, NEW r \in Requests,
         req' = [req EXCEPT ![i] = r], UNCHANGED <<pairing, minted>>,
         r.by = req[i].by, r.at # "registering",
         r.at = "drawing" => Pending(i)
  PROVE  /\ req' \in [Tokens -> Requests]
         /\ Minted'
         /\ \A j \in Tokens : Pending(j)' => Pending(j) /\ req'[j].by = req[j].by
  <1>1. req \in [Tokens -> Requests]
    BY DEF PairInv, Types
  <1>2. req' \in [Tokens -> Requests]
    BY <1>1
  <1>3. req'[i] = r /\ (\A j \in Tokens : j # i => req'[j] = req[j])
    BY <1>1
  <1>4. \A j \in Tokens : req'[j].by = req[j].by
    BY <1>3
  <1>5. \A j \in Tokens : Pending(j)' => Pending(j)
    BY <1>3 DEF Pending
  <1>6. Minted'
    BY <1>4, <1>5 DEF PairInv, Minted
  <1> QED
    BY <1>2, <1>4, <1>5, <1>6

\* The popup is left alone, or there is none and none comes.
LEMMA SamePopup ==
  ASSUME PairInv, UNCHANGED <<windows, timers>>,
         tray'.window = tray.window, tray'.timer = tray.timer,
         windows.open # {} => tray'.disabled,
         \A j \in Tokens : (Pending(j)' /\ req'[j].by = "tray") =>
             tray'.disabled /\ windows.open = {} /\ windows.closing = {}
  PROVE  OnePopup'
  BY DEF PairInv, OnePopup

LEMMA AskKeeps ==
  ASSUME Overlap = FALSE, PairInv, ShowQRPopup \/ QrCommand \/ DashboardPolls
  PROVE  PairInv'
  <1>1. CASE ShowQRPopup
    <2>1. /\ \A i \in Tokens : ~Pending(i)
          /\ windows.closing = {} /\ consumed = 0 /\ lines = 0
          /\ Mint("tray") /\ ~tray.disabled
      BY <1>1 DEF ShowQRPopup, Settled
    <2>2. tray' = [tray EXCEPT !.disabled = TRUE, !.count = Countdown]
          /\ UNCHANGED <<windows, timers, grant, claimed, dead, consumed, lines>>
      BY <1>1 DEF ShowQRPopup, frames
    <2>3. /\ tray'.window = tray.window /\ tray'.timer = tray.timer /\ tray'.disabled
          /\ tray' \in TrayType
      <3>1. tray \in TrayType
        BY DEF PairInv, Types
      <3>2. Countdown \in 0 .. Countdown
        BY Bounds
      <3> QED
        BY <2>2, <3>1, <3>2 DEF TrayType
    <2>4. windows.open = {}
      BY <2>1 DEF PairInv, OnePopup
    <2>5. Types' /\ Minted' /\ LastWorks'
      BY <2>1, <2>2, <2>3, MintKeeps DEF PairInv, Types
    <2>6. ClaimsApart'
      BY <2>1, <2>2 DEF ClaimsApart
    <2>7. OnePopup'
      BY <2>1, <2>2, <2>3, <2>4, SamePopup
    <2> QED
      BY <2>5, <2>6, <2>7 DEF PairInv
  <1>2. CASE QrCommand
    <2>1. /\ \A i \in Tokens : ~Pending(i)
          /\ consumed = 0 /\ lines = 0 /\ Mint("cli")
      BY <1>2 DEF QrCommand, Settled
    <2>2. UNCHANGED <<tray, windows, timers, grant, claimed, dead, consumed, lines>>
      BY <1>2 DEF QrCommand, frames
    <2>3. /\ Minted' /\ LastWorks' /\ Types'
          /\ \A i \in Tokens : Pending(i)' => req'[i].by = "cli"
      BY <2>1, <2>2, MintKeeps DEF PairInv, Types
    <2>4. ClaimsApart'
      BY <2>1, <2>2 DEF ClaimsApart
    <2>5. OnePopup'
      BY <2>2, <2>3, SamePopup DEF PairInv, OnePopup
    <2> QED
      BY <2>3, <2>4, <2>5 DEF PairInv
  <1>3. CASE DashboardPolls
    BY <1>3
    DEF DashboardPolls, frames, PairInv, Types, Minted, LastWorks, ClaimsApart,
        OnePopup, Pending
  <1> QED
    BY <1>1, <1>2, <1>3

LEMMA AnswerKeeps ==
  ASSUME PairInv, NEW i \in Tokens, Registered(i) \/ Refused(i)
  PROVE  PairInv'
  <1>1. /\ Pending(i) /\ i = minted /\ pairing = minted
        /\ req[i] \in Requests /\ req \in [Tokens -> Requests]
    BY DEF Registered, Refused, Pending, PairInv, Types, Minted
  <1> DEFINE r == [req[i] EXCEPT !.at = "drawing", !.qr = pairing]
  <1>2. req' = [req EXCEPT ![i] = r]
    BY <1>1 DEF Registered, Refused, Drawing
  <1>3. r \in Requests /\ r.at = "drawing" /\ r.by = req[i].by /\ r.qr = minted
    BY <1>1 DEF Requests, PairInv, Types
  <1> HIDE DEF r
  <1>4. UNCHANGED <<pairing, minted, tray, windows, timers, claimed, consumed, lines>>
    BY DEF Registered, Refused, frames
  <1>5. minted \in {grant'} \cup dead'
    BY <1>1 DEF Registered, Refused
  <1>6. /\ req' \in [Tokens -> Requests] /\ Minted'
        /\ \A j \in Tokens : Pending(j)' => Pending(j) /\ req'[j].by = req[j].by
    BY <1>1, <1>2, <1>3, <1>4, StepMinted
  <1>7. Types'
    BY <1>4, <1>6 DEF PairInv, Types
  <1>8. req'[minted'] = r
    BY <1>1, <1>2, <1>4
  <1>9. LastWorks'
    BY <1>3, <1>4, <1>5, <1>8 DEF LastWorks
  <1>10. ClaimsApart'
    BY <1>4, <1>6 DEF PairInv, ClaimsApart
  <1>11. OnePopup'
    BY <1>4, <1>6, SamePopup DEF PairInv, OnePopup
  <1> QED
    BY <1>6, <1>7, <1>9, <1>10, <1>11 DEF PairInv

-----------------------------------------------------------------------------
(* The popup and the command                                               *)

\* A step of request i that does not end at a QR that is asked for.
LEMMA RequestStep ==
  ASSUME PairInv, NEW i \in Tokens, NEW r \in Requests,
         req' = [req EXCEPT ![i] = r],
         UNCHANGED <<pairing, minted, grant, claimed, dead, consumed, lines>>,
         r.by = req[i].by, r.at \notin {"none", "registering", "drawing"},
         \/ r.at \in {"left", "paired"}
         \/ r.at \in {"shown", "printed", "polling"} /\ r.qr = req[i].qr
              /\ req[i].at \in {"drawing", "shown", "printed", "polling"}
         \/ Pending(i) /\ req[i].at = "drawing" /\ r.qr = pairing
  PROVE  /\ req' \in [Tokens -> Requests]
         /\ Minted' /\ LastWorks' /\ ClaimsApart'
         /\ \A j \in Tokens : Pending(j)' => Pending(j) /\ req'[j].by = req[j].by
         /\ ~Pending(i)'
  <1>1. /\ req' \in [Tokens -> Requests]
        /\ Minted'
        /\ \A j \in Tokens : Pending(j)' => Pending(j) /\ req'[j].by = req[j].by
    BY StepMinted
  <1>2. ClaimsApart'
    BY <1>1 DEF PairInv, ClaimsApart
  <1>3. req'[i] = r /\ (\A j \in Tokens : j # i => req'[j] = req[j])
    BY DEF PairInv, Types
  <1>4. ~Pending(i)'
    BY <1>3 DEF Pending
  <1>5. LastWorks'
    <2>1. CASE i = minted
      BY <1>3, <2>1 DEF PairInv, LastWorks, Minted
    <2>2. CASE i # minted
      BY <1>3, <2>2 DEF PairInv, Types, LastWorks
    <2> QED
      BY <2>1, <2>2
  <1> QED
    BY <1>1, <1>2, <1>4, <1>5

LEMMA PopupOpensKeeps ==
  ASSUME PairInv, NEW i \in Tokens, PopupOpens(i)
  PROVE  PairInv'
  <1>1. req[i] \in Requests /\ req \in [Tokens -> Requests]
    BY DEF PairInv, Types
  <1> DEFINE r == [req[i] EXCEPT !.at = "shown"]
  <1>2. req' = [req EXCEPT ![i] = r]
    BY <1>1 DEF PopupOpens
  <1>3. r \in Requests /\ r.at = "shown" /\ r.by = req[i].by /\ r.qr = req[i].qr
    BY <1>1 DEF Requests
  <1> HIDE DEF r
  <1>4. UNCHANGED <<pairing, minted, grant, claimed, dead, consumed, lines>>
        /\ req[i].at = "drawing" /\ Pending(i) /\ req[i].by = "tray"
    BY DEF PopupOpens, server, frames, Pending
  <1>5. /\ req' \in [Tokens -> Requests]
        /\ Minted' /\ LastWorks' /\ ClaimsApart'
        /\ \A j \in Tokens : Pending(j)' => Pending(j) /\ req'[j].by = req[j].by
        /\ ~Pending(i)'
    BY <1>2, <1>3, <1>4, RequestStep
  <1>6. \A j \in Tokens : ~Pending(j)'
    BY <1>4, <1>5 DEF PairInv, Minted
  <1>7. tray.disabled /\ windows.open = {} /\ windows.closing = {} /\ timers = {}
    BY <1>4 DEF PairInv, OnePopup
  <1>8. windows' \in [open : SUBSET Tokens, closing : SUBSET Tokens]
        /\ windows'.open = {i} /\ windows'.closing = {}
    BY <1>7 DEF PopupOpens, PairInv, Types
  <1>9. tray' \in TrayType /\ tray'.window = i /\ tray'.timer = i /\ tray'.disabled
    BY <1>7 DEF PopupOpens, PairInv, Types, TrayType
  <1>10. timers' = {i}
    BY <1>7 DEF PopupOpens
  <1>11. Types'
    BY <1>4, <1>5, <1>8, <1>9, <1>10 DEF PairInv, Types
  <1>12. OnePopup'
    BY <1>6, <1>8, <1>9, <1>10 DEF OnePopup
  <1> QED
    BY <1>5, <1>11, <1>12 DEF PairInv

\* A request that fails, is printed, polls, or stops polling.
LEMMA PlainStep ==
  ASSUME PairInv, NEW i \in Tokens, Printed(i) \/ PollStarts(i) \/ PollEnds(i)
  PROVE  PairInv'
  <1>1. req[i] \in Requests /\ req \in [Tokens -> Requests]
    BY DEF PairInv, Types
  <1>2. PICK p \in {"printed", "polling", "left"}, q \in {req[i].qr, pairing} :
          /\ req' = [req EXCEPT ![i] = [req[i] EXCEPT !.at = p, !.qr = q]]
          /\ \/ p = "left"
             \/ p = "polling" /\ q = req[i].qr /\ req[i].at = "printed"
             \/ p = "printed" /\ q = pairing /\ req[i].at = "drawing"
    <2>1. CASE Printed(i)
      BY <1>1, <2>1 DEF Printed
    <2>2. CASE PollStarts(i)
      <3>1. req' = [req EXCEPT ![i] = [req[i] EXCEPT !.at = "polling"]]
        BY <1>1, <2>2 DEF PollStarts
      <3>2. [req[i] EXCEPT !.at = "polling"] = [req[i] EXCEPT !.at = "polling", !.qr = req[i].qr]
        BY <1>1 DEF Requests
      <3> QED
        BY <2>2, <3>1, <3>2 DEF PollStarts
    <2>3. CASE PollEnds(i)
      <3>1. req' = [req EXCEPT ![i] = [req[i] EXCEPT !.at = "left"]]
        BY <1>1, <2>3 DEF PollEnds
      <3>2. [req[i] EXCEPT !.at = "left"] = [req[i] EXCEPT !.at = "left", !.qr = req[i].qr]
        BY <1>1 DEF Requests
      <3> QED
        BY <2>3, <3>1, <3>2 DEF PollEnds
    <2> QED
      BY <2>1, <2>2, <2>3
  <1> DEFINE r == [req[i] EXCEPT !.at = p, !.qr = q]
  <1>3. r \in Requests /\ r.at = p /\ r.by = req[i].by /\ r.qr = q
    BY <1>1 DEF Requests, PairInv, Types
  <1>4. req' = [req EXCEPT ![i] = r]
    BY <1>2
  <1> HIDE DEF r
  <1>5. UNCHANGED <<pairing, minted, grant, claimed, dead, consumed, lines>>
        /\ UNCHANGED <<tray, windows, timers>>
    BY DEF Printed, PollStarts, PollEnds, server, frames
  <1>6. /\ req' \in [Tokens -> Requests]
        /\ Minted' /\ LastWorks' /\ ClaimsApart'
        /\ \A j \in Tokens : Pending(j)' => Pending(j) /\ req'[j].by = req[j].by
    BY <1>2, <1>3, <1>4, <1>5, RequestStep DEF Pending
  <1>7. Types'
    BY <1>5, <1>6 DEF PairInv, Types
  <1>8. OnePopup'
    BY <1>5, <1>6, SamePopup DEF PairInv, OnePopup
  <1> QED
    BY <1>6, <1>7, <1>8 DEF PairInv

LEMMA PopupFailsKeeps ==
  ASSUME PairInv, NEW i \in Tokens, PopupFails(i)
  PROVE  PairInv'
  <1>1. req[i] \in Requests /\ req \in [Tokens -> Requests]
    BY DEF PairInv, Types
  <1> DEFINE r == [req[i] EXCEPT !.at = "left"]
  <1>2. req' = [req EXCEPT ![i] = r]
    BY <1>1 DEF PopupFails
  <1>3. r \in Requests /\ r.at = "left" /\ r.by = req[i].by
    BY <1>1 DEF Requests
  <1> HIDE DEF r
  <1>4. UNCHANGED <<pairing, minted, grant, claimed, dead, consumed, lines>>
        /\ UNCHANGED <<windows, timers>> /\ Pending(i) /\ req[i].by = "tray"
    BY DEF PopupFails, server, frames
  <1>5. /\ req' \in [Tokens -> Requests]
        /\ Minted' /\ LastWorks' /\ ClaimsApart'
        /\ \A j \in Tokens : Pending(j)' => Pending(j) /\ req'[j].by = req[j].by
        /\ ~Pending(i)'
    BY <1>2, <1>3, <1>4, RequestStep
  <1>6. \A j \in Tokens : ~Pending(j)'
    BY <1>4, <1>5 DEF PairInv, Minted
  <1>7. tray' \in TrayType /\ tray'.window = tray.window /\ tray'.timer = tray.timer
    <2>1. 0 \in 0 .. Countdown
      BY Bounds
    <2> QED
      BY <2>1 DEF PopupFails, Enabled, PairInv, Types, TrayType
  <1>8. windows.open = {}
    BY <1>4 DEF PairInv, OnePopup
  <1>9. Types'
    BY <1>4, <1>5, <1>7 DEF PairInv, Types
  <1>10. OnePopup'
    BY <1>4, <1>6, <1>7, <1>8, SamePopup
  <1> QED
    BY <1>5, <1>9, <1>10 DEF PairInv

\* What no step of the popup touches.
Asking == <<pairing, minted, grant, claimed, dead>>

\* A window that is open is told to close.
LEMMA ClosingIs ==
  ASSUME PairInv, NEW w
  PROVE  /\ Closing(w) \in [open : SUBSET Tokens, closing : SUBSET Tokens]
         /\ Closing(w).open = windows.open \ {w}
         /\ w \in windows.open =>
               Closing(w).closing = windows.closing \cup {w}
         /\ w \notin windows.open => Closing(w).closing = windows.closing
  BY DEF PairInv, Types, Closing

LEMMA CloseKeeps ==
  ASSUME PairInv,
         UNCHANGED <<Asking, req, timers, consumed, lines>>,
         windows' = windows \/ \E w : windows' = Closing(w),
         tray' \in TrayType,
         tray'.window = tray.window, tray'.timer = tray.timer,
         tray'.disabled = tray.disabled
  PROVE  PairInv'
  <1>1. /\ windows' \in [open : SUBSET Tokens, closing : SUBSET Tokens]
        /\ windows'.open \subseteq windows.open
        /\ windows'.open \cup windows'.closing = windows.open \cup windows.closing
        /\ windows'.open \cap windows'.closing = {}
    <2>1. CASE windows' = windows
      BY <2>1 DEF PairInv, Types, OnePopup
    <2>2. ASSUME NEW w, windows' = Closing(w)
          PROVE  /\ windows' \in [open : SUBSET Tokens, closing : SUBSET Tokens]
                 /\ windows'.open \subseteq windows.open
                 /\ windows'.open \cup windows'.closing = windows.open \cup windows.closing
                 /\ windows'.open \cap windows'.closing = {}
      <3>1. windows.open \cap windows.closing = {}
        BY DEF PairInv, OnePopup
      <3>2. CASE w \in windows.open
        BY <2>2, <3>1, <3>2, ClosingIs
      <3>3. CASE w \notin windows.open
        BY <2>2, <3>1, <3>3, ClosingIs
      <3> QED
        BY <3>2, <3>3
    <2> QED
      BY <2>1, <2>2
  <1>2. UNCHANGED <<pairing, minted, grant, claimed, dead, req, timers, consumed, lines>>
    BY DEF Asking
  <1>3. Types'
    BY <1>1, <1>2 DEF PairInv, Types
  <1>4. Minted' /\ LastWorks' /\ ClaimsApart'
    BY <1>2 DEF PairInv, Minted, LastWorks, ClaimsApart, Pending
  <1>5. OnePopup'
    BY <1>1, <1>2 DEF PairInv, OnePopup, Pending
  <1> QED
    BY <1>3, <1>4, <1>5 DEF PairInv

LEMMA TickKeeps == ASSUME PairInv, NEW t \in Tokens, Tick(t) \/ UserCloses(t) PROVE PairInv'
  <1>1. tray \in TrayType
    BY DEF PairInv, Types
  <1>2. UNCHANGED <<Asking, req, timers, consumed, lines>>
    BY DEF Tick, UserCloses, server, frames, Asking
  <1>3. CASE Tick(t)
    <2>1. PICK n : n = IF tray.count = 0 THEN 0 ELSE tray.count - 1
      OBVIOUS
    <2>2. tray' = [tray EXCEPT !.count = n]
      BY <1>3, <2>1 DEF Tick
    <2>3. n \in 0 .. Countdown
      BY <1>1, <2>1, Bounds DEF TrayType
    <2>4. /\ tray' \in TrayType /\ tray'.window = tray.window
          /\ tray'.timer = tray.timer /\ tray'.disabled = tray.disabled
      BY <1>1, <2>2, <2>3 DEF TrayType
    <2>5. windows' = windows \/ windows' = Closing(tray.window)
      BY <1>3 DEF Tick
    <2> QED
      BY <1>2, <2>4, <2>5, CloseKeeps
  <1>4. CASE UserCloses(t)
    BY <1>1, <1>2, <1>4, CloseKeeps DEF UserCloses
  <1> QED
    BY <1>3, <1>4

\* The popup is gone, and so is its countdown.
LEMMA ClosedKeeps == ASSUME PairInv, NEW w \in Tokens, Closed(w) PROVE PairInv'
  <1>1. req[w] \in Requests /\ req \in [Tokens -> Requests]
    BY DEF PairInv, Types
  <1> DEFINE r == [req[w] EXCEPT !.at = "left"]
  <1>2. req' = [req EXCEPT ![w] = r]
    BY <1>1 DEF Closed
  <1>3. r \in Requests /\ r.at = "left" /\ r.by = req[w].by
    BY <1>1 DEF Requests
  <1> HIDE DEF r
  <1>4. UNCHANGED <<pairing, minted, grant, claimed, dead, consumed, lines>>
    BY DEF Closed, server, frames
  <1>5. /\ req' \in [Tokens -> Requests]
        /\ Minted' /\ LastWorks' /\ ClaimsApart'
        /\ \A j \in Tokens : Pending(j)' => Pending(j) /\ req'[j].by = req[j].by
    BY <1>2, <1>3, <1>4, RequestStep
  <1>6. w = tray.window /\ windows.open = {} /\ windows.closing = {w}
    BY DEF Closed, PairInv, OnePopup
  <1>7. /\ windows' \in [open : SUBSET Tokens, closing : SUBSET Tokens]
        /\ windows'.open = {} /\ windows'.closing = {}
    BY <1>6 DEF Closed, PairInv, Types
  <1>8. timers' = {}
    BY DEF Closed, PairInv, OnePopup
  <1>9. tray' \in TrayType
    <2>1. 0 \in 0 .. Countdown
      BY Bounds
    <2> QED
      BY <2>1 DEF Closed, Enabled, PairInv, Types, TrayType
  <1>10. \A j \in Tokens : (Pending(j)' /\ req'[j].by = "tray") => FALSE
    BY <1>5, <1>6 DEF PairInv, OnePopup
  <1>11. Types'
    BY <1>4, <1>5, <1>7, <1>8, <1>9 DEF PairInv, Types
  <1>12. OnePopup'
    BY <1>7, <1>8, <1>10 DEF OnePopup
  <1> QED
    BY <1>5, <1>11, <1>12 DEF PairInv

\* The log line of a claim: no request is pending when it comes.
LEMMA CloseLineKeeps == ASSUME PairInv, CloseQRWindow PROVE PairInv'
  <1>1. UNCHANGED <<pairing, minted, grant, claimed, dead, req, consumed>>
        /\ lines > 0 /\ lines' = lines - 1
    BY DEF CloseQRWindow, server
  <1>2. \A j \in Tokens : ~Pending(j)
    BY <1>1 DEF PairInv, ClaimsApart
  <1>3. windows' = Closing(tray.window) /\ timers' = timers \ {tray.timer}
    BY DEF CloseQRWindow
  <1>4. timers' = {}
    BY <1>3 DEF PairInv, OnePopup
  <1>5. /\ windows' \in [open : SUBSET Tokens, closing : SUBSET Tokens]
        /\ windows'.open = {} /\ windows'.closing \subseteq {tray.window}
    <2>1. CASE tray.window \in windows.open
      BY <1>3, <2>1, ClosingIs DEF PairInv, OnePopup
    <2>2. CASE tray.window \notin windows.open
      BY <1>3, <2>2, ClosingIs DEF PairInv, OnePopup
    <2> QED
      BY <2>1, <2>2
  <1>6. tray' \in TrayType /\ tray'.window = tray.window
    <2>1. 0 \in 0 .. Countdown
      BY Bounds
    <2> QED
      BY <2>1 DEF CloseQRWindow, Enabled, PairInv, Types, TrayType
  <1>7. lines' \in Nat
    BY <1>1 DEF PairInv, Types
  <1>8. Types'
    BY <1>1, <1>4, <1>5, <1>6, <1>7 DEF PairInv, Types
  <1>9. Minted' /\ LastWorks' /\ ClaimsApart'
    BY <1>1, <1>2 DEF PairInv, Minted, LastWorks, ClaimsApart, Pending
  <1>10. OnePopup'
    BY <1>1, <1>2, <1>4, <1>5, <1>6 DEF OnePopup, Pending
  <1> QED
    BY <1>8, <1>9, <1>10 DEF PairInv

\* The relay and its frames.
LEMMA RelayKeeps ==
  ASSUME Overlap = FALSE, PairInv, Claim \/ Expire \/ FrameLost \/ ClaimHeard
  PROVE  PairInv'
  <1>1. UNCHANGED <<pairing, minted, tray, windows, timers>>
    BY DEF Claim, Expire, FrameLost, ClaimHeard, server
  <1>2. consumed' \in Nat /\ lines' \in Nat
    BY DEF Claim, Expire, FrameLost, ClaimHeard, frames, PairInv, Types
  <1>3. \A i \in Tokens : Pending(i) => (consumed' = 0 /\ lines' = 0)
    BY DEF Claim, Expire, FrameLost, ClaimHeard, frames, PairInv, Types, ClaimsApart
  <1>4. {grant} \cup claimed \cup dead \subseteq {grant'} \cup claimed' \cup dead'
    BY DEF Claim, Expire, FrameLost, ClaimHeard, server
  <1>5. /\ req' \in [Tokens -> Requests]
        /\ \A j \in Tokens : /\ req'[j].by = req[j].by /\ req'[j].qr = req[j].qr
                             /\ req'[j].at = req[j].at \/ req'[j].at = "paired"
    <2>1. CASE UNCHANGED req
      BY <2>1 DEF PairInv, Types
    <2>2. CASE ClaimHeard
      <3> SUFFICES ASSUME NEW j \in Tokens
                   PROVE  /\ req'[j] \in Requests
                          /\ req'[j].by = req[j].by /\ req'[j].qr = req[j].qr
                          /\ req'[j].at = req[j].at \/ req'[j].at = "paired"
        BY <2>2 DEF ClaimHeard
      <3>1. req[j] \in Requests
        BY DEF PairInv, Types
      <3>2. CASE req[j].at = "polling"
        BY <2>2, <3>1, <3>2 DEF ClaimHeard, Requests
      <3>3. CASE req[j].at # "polling"
        BY <2>2, <3>1, <3>3 DEF ClaimHeard
      <3> QED
        BY <3>2, <3>3
    <2> QED
      BY <2>1, <2>2 DEF Claim, Expire, FrameLost
  <1>6. \A j \in Tokens : Pending(j)' => Pending(j)
    BY <1>5 DEF Pending
  <1>7. Types'
    BY <1>1, <1>2, <1>5 DEF PairInv, Types
  <1>8. Minted'
    BY <1>1, <1>5, <1>6 DEF PairInv, Minted
  <1>9. LastWorks'
    BY <1>1, <1>4, <1>5 DEF PairInv, Types, LastWorks
  <1>10. ClaimsApart'
    BY <1>3, <1>6 DEF ClaimsApart
  <1>11. OnePopup'
    BY <1>1, <1>5, <1>6, SamePopup DEF PairInv, OnePopup
  <1> QED
    BY <1>7, <1>8, <1>9, <1>10, <1>11 DEF PairInv

-----------------------------------------------------------------------------
(* Theorems                                                                *)

LEMMA NextPair ==
  ASSUME Overlap = FALSE
  PROVE  PairInv /\ [Next]_vars => PairInv'
  <1> SUFFICES ASSUME PairInv, [Next]_vars PROVE PairInv'
    OBVIOUS
  <1>1. CASE UNCHANGED vars
    BY <1>1
    DEF vars, PairInv, Types, Minted, LastWorks, ClaimsApart, OnePopup, Pending
  <1>2. ASSUME NEW i \in Tokens,
               \/ Registered(i) \/ Refused(i) \/ PopupOpens(i) \/ Closed(i)
               \/ Printed(i) \/ PollStarts(i) \/ PollEnds(i) \/ PopupFails(i)
               \/ UserCloses(i) \/ Tick(i)
        PROVE  PairInv'
    BY <1>2, AnswerKeeps, PopupOpensKeeps, ClosedKeeps, PlainStep, PopupFailsKeeps,
       TickKeeps
  <1> QED
    BY <1>1, <1>2, AskKeeps, CloseLineKeeps, RelayKeeps DEF Next, Progress

LEMMA PairInvariant == ASSUME Overlap = FALSE PROVE Spec => []PairInv
  BY InitPair, NextPair, PTL DEF Spec

\* The QR asked for last is drawn of its own token, and the relay lets that
\* token in until a phone claims it or it expires (the pairing handlers of
\* web-ui.ts:130-158): for any number of QRs shown by the start, the tray, the
\* command and the dashboard, as long as each is answered before the next.
THEOREM LastQrWorks == ASSUME Overlap = FALSE PROVE Spec => []ShownQrWorks
  <1>1. PairInv => ShownQrWorks
    <2> SUFFICES ASSUME PairInv PROVE ShownQrWorks
      OBVIOUS
    <2>1. minted \in Asked /\ Asked \subseteq Nat /\ \A x \in Asked : x <= minted
      BY DEF PairInv, Types, Minted, Asked, Tokens, Requests
    <2>2. Max(Asked) = minted
      BY <2>1, MaxIs
    <2> QED
      BY <2>2 DEF PairInv, LastWorks, ShownQrWorks
  <1> QED
    BY <1>1, PairInvariant, PTL

\* The desktop app never has a popup that it does not know, nor a countdown
\* without one (showQRPopup and closeQRWindow of main.ts:183-287).
THEOREM PopupKnown == ASSUME Overlap = FALSE PROVE Spec => []NoOrphanWindow
  <1>1. PairInv => NoOrphanWindow
    BY DEF PairInv, OnePopup, NoOrphanWindow
  <1> QED
    BY <1>1, PairInvariant, PTL

-----------------------------------------------------------------------------
(* Types, also when requests overlap                                       *)

WindowsType == [open : SUBSET Tokens, closing : SUBSET Tokens]

PairTypes ==
    /\ pairing \in Tokens /\ minted \in Tokens
    /\ req \in [Tokens -> Requests]
    /\ tray \in TrayType
    /\ windows \in WindowsType
    /\ timers \subseteq Tokens
    /\ page \in {None} \cup Tokens /\ grant \in {None} \cup Tokens
    /\ claimed \subseteq Tokens /\ dead \subseteq Tokens
    /\ consumed \in Nat /\ lines \in Nat
    /\ faults \in 0 .. MaxFaults

\* The relay has answered the request.
Begun(i) == req[i].at \notin {"none", "registering"}

\* A token is granted at most once, and claimed once.
GrantedOnce ==
    /\ \A i \in Tokens : i > minted => req[i].at = "none"
    /\ \A i \in claimed : Begun(i)
    /\ grant # None => Begun(grant)
    /\ grant \notin claimed
    /\ \A w \in windows.open \cup windows.closing : req[w].at # "none"

\* A report for each claim.
ReportsCounted == consumed + lines <= Cardinality(claimed)

PairTypeInv == PairTypes /\ GrantedOnce /\ ReportsCounted

LEMMA TokensFinite ==
  /\ IsFiniteSet(Tokens) /\ Cardinality(Tokens) = MaxTokens
  /\ None \notin Tokens /\ 1 \in Tokens /\ 0 \in 0 .. Countdown /\ 0 \in 0 .. MaxFaults
  /\ Countdown \in 0 .. Countdown
  <1>1. IsFiniteSet(1 .. MaxTokens) /\ Cardinality(1 .. MaxTokens) = MaxTokens
    BY Bounds, FS_Interval
  <1> QED BY <1>1, Bounds DEF Tokens, None

LEMMA ClaimedFinite ==
  ASSUME PairTypes
  PROVE  IsFiniteSet(claimed) /\ Cardinality(claimed) \in Nat /\ Cardinality(claimed) <= MaxTokens
  BY TokensFinite, FS_Subset, FS_CardinalityType DEF PairTypes

LEMMA InitPairTypes == Init => PairTypeInv
  <1> SUFFICES ASSUME Init PROVE PairTypeInv
    OBVIOUS
  <1>1. PairTypes
    BY TokensFinite DEF Init, PairTypes, Requests, TrayType, WindowsType
  <1>2. GrantedOnce
    BY TokensFinite DEF Init, GrantedOnce, Begun, Tokens
  <1>3. ReportsCounted
    BY FS_EmptySet DEF Init, ReportsCounted
  <1> QED BY <1>1, <1>2, <1>3 DEF PairTypeInv

\* A step that mints nothing, grants nothing new and takes no answer back.
LEMMA StepTypes ==
  ASSUME PairTypeInv, UNCHANGED <<pairing, minted, claimed>>,
         req' \in [Tokens -> Requests],
         \A j \in Tokens : req[j].at = "none" <=> req'[j].at = "none",
         \A j \in Tokens : Begun(j) => req'[j].at # "registering",
         grant' = grant \/ grant' = None,
         \A w \in windows'.open \cup windows'.closing :
             w \in windows.open \cup windows.closing \/ (w \in Tokens /\ req[w].at # "none"),
         windows' \in WindowsType, timers' \subseteq Tokens, tray' \in TrayType,
         page' \in {None} \cup Tokens, dead' \subseteq Tokens, faults' \in 0 .. MaxFaults,
         consumed' \in Nat, lines' \in Nat, consumed' + lines' <= consumed + lines
  PROVE  PairTypeInv'
  <1>1. PairTypes'
    BY DEF PairTypeInv, PairTypes
  <1>2. \A j \in Tokens : Begun(j) => Begun(j)'
    BY DEF Begun
  <1>3. GrantedOnce'
    <2>1. \A i \in Tokens : i > minted' => req'[i].at = "none"
      BY DEF PairTypeInv, GrantedOnce
    <2>2. \A i \in claimed' : Begun(i)'
      BY <1>2 DEF PairTypeInv, PairTypes, GrantedOnce
    <2>3. grant' # None => Begun(grant)'
      <3>1. CASE grant' = grant /\ grant # None
        <4>1. grant \in Tokens /\ Begun(grant)
          BY <3>1 DEF PairTypeInv, PairTypes, GrantedOnce
        <4>2. req'[grant].at \notin {"none", "registering"}
          BY <1>2, <4>1 DEF Begun
        <4> QED BY <3>1, <4>2 DEF Begun
      <3> QED BY <3>1
    <2>4. grant' \notin claimed'
      BY TokensFinite DEF PairTypeInv, PairTypes, GrantedOnce
    <2>5. \A w \in windows'.open \cup windows'.closing : req'[w].at # "none"
      <3>1. windows.open \cup windows.closing \subseteq Tokens
        BY DEF PairTypeInv, PairTypes, WindowsType
      <3> QED BY <3>1 DEF PairTypeInv, GrantedOnce
    <2> QED BY <2>1, <2>2, <2>3, <2>4, <2>5 DEF GrantedOnce
  <1>4. ReportsCounted'
    <2>1. Cardinality(claimed) \in Nat
      BY ClaimedFinite DEF PairTypeInv
    <2>2. consumed \in Nat /\ lines \in Nat
      BY DEF PairTypeInv, PairTypes
    <2>3. consumed + lines <= Cardinality(claimed)
      BY DEF PairTypeInv, ReportsCounted
    <2>4. consumed' \in Nat /\ lines' \in Nat /\ consumed' + lines' <= consumed + lines
      OBVIOUS
    <2>5. ASSUME NEW a \in Nat, NEW b \in Nat, NEW c \in Nat, NEW d \in Nat, NEW n \in Nat,
                 a + b <= c + d, c + d <= n
          PROVE  a + b <= n
      BY <2>5
    <2>6. consumed' + lines' <= Cardinality(claimed)
      BY ONLY <2>1, <2>2, <2>3, <2>4, <2>5
    <2> QED BY <2>6 DEF ReportsCounted
  <1> QED BY <1>1, <1>3, <1>4 DEF PairTypeInv

LEMMA MintTypes ==
  ASSUME PairTypeInv, NEW who \in {"tray", "cli"}, Mint(who), tray' \in TrayType,
         UNCHANGED <<windows, timers, page, grant, claimed, dead, frames, faults>>
  PROVE  PairTypeInv'
  <1> DEFINE r == [by |-> who, at |-> "registering", qr |-> None]
  <1>1. PICK n \in Tokens :
          /\ n = minted + 1 /\ minted \in Tokens /\ n > minted
          /\ minted' = n /\ pairing' = n
          /\ req' = [req EXCEPT ![n] = r]
    <2>1. minted + 1 \in Tokens /\ minted \in Tokens /\ minted + 1 > minted
      BY Bounds DEF Mint, PairTypeInv, PairTypes, Tokens
    <2> QED BY <2>1 DEF Mint
  <1>2. r \in Requests /\ r.at = "registering"
    BY DEF Requests
  <1> HIDE DEF r
  <1>3. req \in [Tokens -> Requests]
    BY DEF PairTypeInv, PairTypes
  <1>4. /\ req' \in [Tokens -> Requests] /\ req'[n] = r
        /\ \A j \in Tokens : j # n => req'[j] = req[j]
    BY <1>1, <1>2, <1>3
  <1>5. PairTypes'
    BY <1>1, <1>4 DEF PairTypeInv, PairTypes, frames
  <1>6. req[n].at = "none"
    BY <1>1 DEF PairTypeInv, GrantedOnce
  <1>7. \A j \in Tokens : Begun(j) => j # n /\ req'[j] = req[j]
    BY <1>4, <1>6 DEF Begun
  <1>8. GrantedOnce'
    <2>1. \A i \in Tokens : i > minted' => req'[i].at = "none"
      <3>1. \A i \in Tokens : i > n => i # n /\ i > minted
        BY <1>1 DEF Tokens
      <3> QED BY <1>1, <1>4, <3>1 DEF PairTypeInv, GrantedOnce
    <2>2. \A i \in claimed' : Begun(i)'
      BY <1>7 DEF PairTypeInv, PairTypes, GrantedOnce, Begun
    <2>3. grant' # None => Begun(grant)'
      <3>1. CASE grant # None
        <4>1. grant \in Tokens /\ Begun(grant)
          BY <3>1 DEF PairTypeInv, PairTypes, GrantedOnce
        <4> QED BY <1>7, <4>1 DEF Begun
      <3> QED BY <3>1
    <2>4. grant' \notin claimed'
      BY DEF PairTypeInv, GrantedOnce
    <2>5. \A w \in windows'.open \cup windows'.closing : req'[w].at # "none"
      <3>1. windows.open \cup windows.closing \subseteq Tokens
        BY DEF PairTypeInv, PairTypes, WindowsType
      <3> QED BY <1>2, <1>4, <3>1 DEF PairTypeInv, GrantedOnce
    <2> QED BY <2>1, <2>2, <2>3, <2>4, <2>5 DEF GrantedOnce
  <1>9. ReportsCounted'
    BY DEF PairTypeInv, ReportsCounted, frames
  <1> QED BY <1>5, <1>8, <1>9 DEF PairTypeInv

\* One request goes on to another stage.
LEMMA OneRequest ==
  ASSUME PairTypeInv, NEW i \in Tokens, NEW qr \in {None} \cup Tokens,
         NEW at \in {"drawing", "shown", "printed", "polling", "paired", "left"},
         \/ req' = [req EXCEPT ![i].at = at]
         \/ req' = [req EXCEPT ![i].at = at, ![i].qr = qr],
         req[i].at # "none"
  PROVE  /\ req' \in [Tokens -> Requests]
         /\ \A j \in Tokens : req[j].at = "none" <=> req'[j].at = "none"
         /\ \A j \in Tokens : Begun(j) => req'[j].at # "registering"
         /\ req'[i].at = at /\ \A j \in Tokens : j # i => req'[j] = req[j]
  <1>1. req \in [Tokens -> Requests]
    BY DEF PairTypeInv, PairTypes
  <1>2. req' \in [Tokens -> Requests]
    BY <1>1 DEF Requests
  <1>3. req'[i].at = at /\ \A j \in Tokens : j # i => req'[j] = req[j]
    BY <1>1 DEF Requests
  <1> QED BY <1>2, <1>3 DEF Begun

LEMMA ClosingType ==
  ASSUME PairTypeInv, NEW w
  PROVE  /\ Closing(w) \in WindowsType
         /\ Closing(w).open \cup Closing(w).closing = windows.open \cup windows.closing
  BY DEF PairTypeInv, PairTypes, WindowsType, Closing

\* The answer of the relay.
LEMMA AnswerTypes ==
  ASSUME PairTypeInv, NEW i \in Tokens, Registered(i) \/ Refused(i)
  PROVE  PairTypeInv'
  <1>1. /\ req[i].at = "registering" /\ req' = Drawing(i)
        /\ UNCHANGED <<pairing, minted, tray, windows, timers, page, claimed, frames>>
    BY DEF Registered, Refused
  <1>2. pairing \in {None} \cup Tokens /\ req[i].at # "none"
    BY <1>1 DEF PairTypeInv, PairTypes
  <1>3. /\ req' \in [Tokens -> Requests]
        /\ \A j \in Tokens : req[j].at = "none" <=> req'[j].at = "none"
        /\ \A j \in Tokens : Begun(j) => req'[j].at # "registering"
        /\ req'[i].at = "drawing" /\ \A j \in Tokens : j # i => req'[j] = req[j]
    BY <1>1, <1>2, OneRequest DEF Drawing
  <1>4. CASE Refused(i)
    <2>1. faults' \in 0 .. MaxFaults
      BY <1>4, Bounds DEF Refused, Fault, PairTypeInv, PairTypes
    <2>2. /\ windows' \in WindowsType /\ timers' \subseteq Tokens /\ tray' \in TrayType
          /\ page' \in {None} \cup Tokens /\ consumed' \in Nat /\ lines' \in Nat
          /\ consumed' + lines' <= consumed + lines
      BY <1>1 DEF PairTypeInv, PairTypes, frames
    <2>3. dead' \subseteq Tokens
      BY <1>4 DEF Refused, PairTypeInv, PairTypes
    <2> QED
      BY <1>1, <1>3, <1>4, <2>1, <2>2, <2>3, StepTypes DEF Refused
  <1>5. CASE Registered(i)
    <2>1. PairTypes'
      BY <1>1, <1>3, <1>5 DEF Registered, PairTypeInv, PairTypes, frames
    <2>2. \A j \in Tokens : Begun(j) => Begun(j)'
      BY <1>3 DEF Begun
    <2>3. GrantedOnce'
      <3>1. \A j \in Tokens : j > minted' => req'[j].at = "none"
        BY <1>1, <1>3 DEF PairTypeInv, GrantedOnce
      <3>2. \A j \in claimed' : Begun(j)'
        BY <1>1, <2>2 DEF PairTypeInv, PairTypes, GrantedOnce
      <3>3. grant' = i /\ i \notin claimed'
        BY <1>1, <1>5 DEF Registered, PairTypeInv, GrantedOnce, Begun
      <3>4. req'[i].at \notin {"none", "registering"}
        BY <1>3
      <3>5. \A w \in windows'.open \cup windows'.closing : req'[w].at # "none"
        <4>1. windows.open \cup windows.closing \subseteq Tokens
          BY DEF PairTypeInv, PairTypes, WindowsType
        <4> QED BY <1>1, <1>3, <4>1 DEF PairTypeInv, GrantedOnce
      <3> QED BY <3>1, <3>2, <3>3, <3>4, <3>5 DEF GrantedOnce, Begun
    <2>4. ReportsCounted'
      BY <1>1 DEF PairTypeInv, ReportsCounted, frames
    <2> QED BY <2>1, <2>3, <2>4 DEF PairTypeInv
  <1> QED BY <1>4, <1>5

\* The popup.
LEMMA PopupTypes ==
  ASSUME PairTypeInv, NEW i \in Tokens,
         \/ PopupOpens(i) \/ PopupFails(i) \/ Closed(i) \/ Tick(i) \/ UserCloses(i)
         \/ CloseQRWindow
  PROVE  PairTypeInv'
  <1>1. /\ tray \in TrayType /\ windows \in WindowsType /\ timers \subseteq Tokens
        /\ req \in [Tokens -> Requests] /\ consumed \in Nat /\ lines \in Nat
        /\ faults \in 0 .. MaxFaults
    BY DEF PairTypeInv, PairTypes
  <1>2. Enabled \in TrayType /\ \A t : timers \ {t} \subseteq Tokens
    BY <1>1, TokensFinite DEF Enabled, TrayType
  <1>3. UNCHANGED <<server, consumed>>
    BY DEF PopupOpens, PopupFails, Closed, Tick, UserCloses, CloseQRWindow, frames
  <1>4. ASSUME req' \in [Tokens -> Requests],
               \A j \in Tokens : req[j].at = "none" <=> req'[j].at = "none",
               \A j \in Tokens : Begun(j) => req'[j].at # "registering",
               \A w \in windows'.open \cup windows'.closing :
                   w \in windows.open \cup windows.closing
                       \/ (w \in Tokens /\ req[w].at # "none"),
               windows' \in WindowsType, timers' \subseteq Tokens, tray' \in TrayType,
               faults' \in 0 .. MaxFaults, lines' \in Nat, lines' <= lines
        PROVE  PairTypeInv'
    <2>1. /\ UNCHANGED <<pairing, minted, claimed>> /\ grant' = grant
          /\ page' \in {None} \cup Tokens /\ dead' \subseteq Tokens
          /\ consumed' \in Nat /\ consumed' + lines' <= consumed + lines
      BY <1>1, <1>3, <1>4 DEF server, PairTypeInv, PairTypes
    <2> QED BY <1>4, <2>1, StepTypes
  <1>5. ASSUME req' = req
        PROVE  /\ req' \in [Tokens -> Requests]
               /\ \A j \in Tokens : req[j].at = "none" <=> req'[j].at = "none"
               /\ \A j \in Tokens : Begun(j) => req'[j].at # "registering"
    BY <1>1, <1>5 DEF Begun
  <1>6. CASE PopupOpens(i)
    <2>1. req[i].at = "drawing" /\ req' = [req EXCEPT ![i].at = "shown"]
      BY <1>6 DEF PopupOpens
    <2>2. /\ req' \in [Tokens -> Requests]
          /\ \A j \in Tokens : req[j].at = "none" <=> req'[j].at = "none"
          /\ \A j \in Tokens : Begun(j) => req'[j].at # "registering"
      BY <2>1, OneRequest
    <2>3. windows' = [windows EXCEPT !.open = windows.open \cup {i}]
      BY <1>6 DEF PopupOpens
    <2>4. /\ windows' \in WindowsType
          /\ windows'.open \cup windows'.closing = windows.open \cup windows.closing \cup {i}
      BY <1>1, <2>3 DEF WindowsType
    <2>5. tray' \in TrayType
      BY <1>1, <1>6 DEF PopupOpens, TrayType
    <2>6. timers' \subseteq Tokens /\ UNCHANGED <<faults, lines>>
      BY <1>1, <1>6 DEF PopupOpens, frames
    <2> QED BY <1>1, <1>4, <2>1, <2>2, <2>4, <2>5, <2>6
  <1>7. CASE PopupFails(i)
    <2>1. req[i].at # "none" /\ req' = [req EXCEPT ![i].at = "left"]
      BY <1>7 DEF PopupFails, Pending
    <2>2. /\ req' \in [Tokens -> Requests]
          /\ \A j \in Tokens : req[j].at = "none" <=> req'[j].at = "none"
          /\ \A j \in Tokens : Begun(j) => req'[j].at # "registering"
      BY <2>1, OneRequest
    <2>3. faults' \in 0 .. MaxFaults
      BY <1>1, <1>7, Bounds DEF PopupFails, Fault
    <2>4. UNCHANGED <<windows, timers, lines>> /\ tray' = Enabled
      BY <1>7 DEF PopupFails, frames
    <2> QED BY <1>1, <1>2, <1>4, <2>2, <2>3, <2>4
  <1>8. CASE Closed(i)
    <2>1. i \in windows.closing /\ req' = [req EXCEPT ![i].at = "left"]
      BY <1>8 DEF Closed
    <2>2. req[i].at # "none"
      BY <2>1 DEF PairTypeInv, GrantedOnce
    <2>3. /\ req' \in [Tokens -> Requests]
          /\ \A j \in Tokens : req[j].at = "none" <=> req'[j].at = "none"
          /\ \A j \in Tokens : Begun(j) => req'[j].at # "registering"
      BY <2>1, <2>2, OneRequest
    <2>4. windows' = [windows EXCEPT !.closing = windows.closing \ {i}]
      BY <1>8 DEF Closed
    <2>5. /\ windows' \in WindowsType
          /\ windows'.open \cup windows'.closing \subseteq windows.open \cup windows.closing
      BY <1>1, <2>4 DEF WindowsType
    <2>6. tray' \in TrayType
      BY <1>2, <1>8, TokensFinite DEF Closed, TrayType
    <2>7. timers' \subseteq Tokens /\ UNCHANGED <<faults, lines>>
      BY <1>2, <1>8 DEF Closed, frames
    <2> QED BY <1>1, <1>4, <2>3, <2>5, <2>6, <2>7
  <1>9. CASE Tick(i)
    <2>1. tray' \in TrayType
      BY <1>1, <1>9, Bounds DEF Tick, TrayType
    <2>2. windows' = windows \/ windows' = Closing(tray.window)
      BY <1>9 DEF Tick
    <2>3. UNCHANGED <<req, timers, faults, lines>>
      BY <1>9 DEF Tick, frames
    <2> QED BY <1>1, <1>4, <1>5, <2>1, <2>2, <2>3, ClosingType
  <1>10. CASE UserCloses(i)
    <2>1. windows' = Closing(i) /\ UNCHANGED <<req, tray, timers, faults, lines>>
      BY <1>10 DEF UserCloses, frames
    <2> QED BY <1>1, <1>4, <1>5, <2>1, ClosingType
  <1>11. CASE CloseQRWindow
    <2>1. tray' \in TrayType
      BY <1>2, <1>11, TokensFinite DEF CloseQRWindow, TrayType
    <2>2. lines' \in Nat /\ lines' <= lines
      BY <1>1, <1>11 DEF CloseQRWindow
    <2>3. windows' = Closing(tray.window) /\ UNCHANGED <<req, faults>> /\ timers' \subseteq Tokens
      BY <1>2, <1>11 DEF CloseQRWindow
    <2> QED BY <1>1, <1>4, <1>5, <2>1, <2>2, <2>3, ClosingType
  <1> QED BY <1>6, <1>7, <1>8, <1>9, <1>10, <1>11

\* The terminal, the dashboard, the relay and a step that changes nothing.
LEMMA OtherTypes ==
  ASSUME PairTypeInv, NEW i \in Tokens,
         \/ Printed(i) \/ PollStarts(i) \/ PollEnds(i)
         \/ DashboardPolls \/ Expire \/ FrameLost \/ ClaimHeard \/ UNCHANGED vars
  PROVE  PairTypeInv'
  <1>1. /\ tray' \in TrayType /\ windows' \in WindowsType /\ timers' \subseteq Tokens
        /\ UNCHANGED <<pairing, minted, claimed, windows>>
        /\ page' \in {None} \cup Tokens /\ grant' \in {grant, None}
        /\ dead' \subseteq Tokens
    BY DEF Printed, PollStarts, PollEnds, DashboardPolls, Expire, FrameLost, ClaimHeard,
           vars, server, frames, PairTypeInv, PairTypes
  <1>2. faults' \in 0 .. MaxFaults
    BY Bounds DEF Printed, PollStarts, PollEnds, DashboardPolls, Expire, FrameLost,
           ClaimHeard, Fault, vars, PairTypeInv, PairTypes
  <1>3. consumed' \in Nat /\ lines' \in Nat /\ consumed' + lines' <= consumed + lines
    <2>1. consumed \in Nat /\ lines \in Nat
      BY DEF PairTypeInv, PairTypes
    <2> QED
      BY <2>1 DEF Printed, PollStarts, PollEnds, DashboardPolls, Expire, FrameLost,
           ClaimHeard, vars, frames
  <1>4. /\ req' \in [Tokens -> Requests]
        /\ \A j \in Tokens : req[j].at = "none" <=> req'[j].at = "none"
        /\ \A j \in Tokens : Begun(j) => req'[j].at # "registering"
    <2>1. req \in [Tokens -> Requests] /\ pairing \in {None} \cup Tokens
      BY DEF PairTypeInv, PairTypes
    <2>2. CASE req' = req
      BY <2>1, <2>2 DEF Begun
    <2>3. CASE Printed(i)
      <3>1. req[i].at # "none" /\ req' = [req EXCEPT ![i].at = "printed", ![i].qr = pairing]
        BY <2>3 DEF Printed
      <3> QED BY <2>1, <3>1, OneRequest
    <2>4. CASE PollStarts(i)
      <3>1. req[i].at # "none" /\ req' = [req EXCEPT ![i].at = "polling"]
        BY <2>4 DEF PollStarts
      <3> QED BY <2>1, <3>1, OneRequest
    <2>5. CASE PollEnds(i)
      <3>1. req[i].at # "none" /\ req' = [req EXCEPT ![i].at = "left"]
        BY <2>5 DEF PollEnds
      <3> QED BY <2>1, <3>1, OneRequest
    <2>6. CASE ClaimHeard
      <3>1. \A j \in Tokens : \/ req'[j] = req[j]
                              \/ req[j].at = "polling"
                                 /\ req'[j] = [req[j] EXCEPT !.at = "paired"]
        BY <2>6 DEF ClaimHeard
      <3>2. \A j \in Tokens : req'[j] \in Requests
                              /\ (req'[j] = req[j] \/ (req[j].at = "polling" /\ req'[j].at = "paired"))
        <4>1. ASSUME NEW j \in Tokens
              PROVE  /\ req'[j] \in Requests
                     /\ req'[j] = req[j] \/ (req[j].at = "polling" /\ req'[j].at = "paired")
          <5>1. req[j] \in Requests
            BY <2>1
          <5>2. CASE req'[j] = req[j]
            BY <5>1, <5>2
          <5>3. CASE req[j].at = "polling" /\ req'[j] = [req[j] EXCEPT !.at = "paired"]
            BY <5>1, <5>3 DEF Requests
          <5> QED BY <3>1, <5>2, <5>3
        <4> QED BY <4>1
      <3>3. req' = [j \in Tokens |-> req'[j]]
        BY <2>6 DEF ClaimHeard
      <3> QED BY <3>2, <3>3 DEF Begun
    <2> QED
      BY <2>2, <2>3, <2>4, <2>5, <2>6 DEF DashboardPolls, Expire, FrameLost, vars
  <1> QED BY <1>1, <1>2, <1>3, <1>4, StepTypes

\* A phone claims: one more token is claimed, and one more claim reported.
LEMMA ClaimTypes ==
  ASSUME PairTypeInv, Claim
  PROVE  PairTypeInv'
  <1>1. grant \in Tokens /\ grant \notin claimed /\ Begun(grant)
    BY DEF Claim, PairTypeInv, PairTypes, GrantedOnce
  <1>2. PairTypes'
    BY <1>1 DEF Claim, PairTypeInv, PairTypes
  <1>3. GrantedOnce'
    <2>1. None \notin claimed'
      BY <1>2, TokensFinite DEF PairTypes
    <2> QED
      BY <1>1, <2>1 DEF Claim, PairTypeInv, GrantedOnce, Begun
  <1>4. ReportsCounted'
    <2>1. IsFiniteSet(claimed) /\ Cardinality(claimed) \in Nat
      BY ClaimedFinite DEF PairTypeInv
    <2>2. Cardinality(claimed') = Cardinality(claimed) + 1
      BY <1>1, <2>1, FS_AddElement DEF Claim
    <2>3. consumed \in Nat /\ lines \in Nat /\ consumed + lines <= Cardinality(claimed)
      BY DEF PairTypeInv, PairTypes, ReportsCounted
    <2>4. consumed' = consumed + 1 /\ lines' = lines
      BY DEF Claim
    <2> QED BY <2>1, <2>2, <2>3, <2>4 DEF ReportsCounted
  <1> QED BY <1>2, <1>3, <1>4 DEF PairTypeInv

LEMMA NextPairTypes ==
  ASSUME PairTypeInv, [Next]_vars
  PROVE  PairTypeInv'
  <1>1. CASE ShowQRPopup
    <2>1. tray' \in TrayType
      BY <1>1, TokensFinite DEF ShowQRPopup, TrayType, PairTypeInv, PairTypes
    <2> QED BY <1>1, <2>1, MintTypes DEF ShowQRPopup
  <1>2. CASE QrCommand
    <2>1. tray' \in TrayType
      BY <1>2 DEF QrCommand, PairTypeInv, PairTypes
    <2> QED BY <1>2, <2>1, MintTypes DEF QrCommand
  <1>3. CASE CloseQRWindow \/ DashboardPolls \/ Expire \/ FrameLost \/ ClaimHeard
             \/ UNCHANGED vars
    BY <1>3, TokensFinite, PopupTypes, OtherTypes
  <1>4. ASSUME NEW i \in Tokens,
               \/ Registered(i) \/ Refused(i) \/ PopupOpens(i) \/ Closed(i)
               \/ Printed(i) \/ PollStarts(i) \/ PollEnds(i) \/ PopupFails(i)
               \/ UserCloses(i) \/ Tick(i)
        PROVE  PairTypeInv'
    BY <1>4, AnswerTypes, PopupTypes, OtherTypes
  <1> QED
    BY <1>1, <1>2, <1>3, <1>4, ClaimTypes DEF Next, Progress

LEMMA PairTypeInvariant == Spec => []PairTypeInv
  BY InitPairTypes, NextPairTypes, PTL DEF Spec

\* The variables of Pairing keep their types however requests overlap; a
\* claim is reported once, because the relay grants a token once.
THEOREM PairTypeCorrect == Spec => []TypeOK
  <1>1. PairTypeInv => TypeOK
    <2> SUFFICES ASSUME PairTypeInv PROVE TypeOK
      OBVIOUS
    <2>1. consumed \in 0 .. MaxTokens /\ lines \in 0 .. MaxTokens
      <3>1. consumed \in Nat /\ lines \in Nat /\ consumed + lines <= Cardinality(claimed)
        BY DEF PairTypeInv, PairTypes, ReportsCounted
      <3>2. Cardinality(claimed) \in Nat /\ Cardinality(claimed) <= MaxTokens
        BY ClaimedFinite DEF PairTypeInv
      <3> QED BY <3>1, <3>2, Bounds
    <2> QED
      BY <2>1 DEF PairTypeInv, PairTypes, TypeOK, Requests, TrayType, WindowsType
  <1> QED BY <1>1, PairTypeInvariant, PTL

-----------------------------------------------------------------------------
(* "Paired"                                                                *)

\* The relay has answered, and somebody still waits for the phone.
Answered(i) == req[i].at \in {"drawing", "printed", "polling", "paired"}

\* The relay holds no grant that is older than an answer it gave ...
GrantIsNewer ==
    \A i \in Tokens : Answered(i) => i \in dead \/ grant = None \/ grant >= i

\* ... so a report under way is of no older claim.
ReportIsNewer ==
    consumed > 0 =>
        \A i \in Tokens : Answered(i) => i \in dead \/ \E j \in claimed : j >= i

NewerInv == GrantIsNewer /\ ReportIsNewer /\ PairedIsTrue

LEMMA InitNewer == Init => NewerInv
  <1> SUFFICES ASSUME Init PROVE NewerInv
    OBVIOUS
  <1>1. \A i \in Tokens : ~Answered(i)
    BY DEF Init, Answered
  <1> QED BY <1>1 DEF NewerInv, GrantIsNewer, ReportIsNewer, PairedIsTrue, Answered

\* A step with no new grant, answer or report.
LEMMA NewerKept ==
  ASSUME NewerInv,
         \A i \in Tokens : Answered(i)' => Answered(i),
         \A i \in Tokens : req'[i].at = "paired" => req[i].at = "paired",
         dead \subseteq dead', claimed \subseteq claimed', grant' = grant \/ grant' = None,
         consumed' > 0 => consumed > 0
  PROVE  NewerInv'
  <1>1. GrantIsNewer'
    BY DEF NewerInv, GrantIsNewer
  <1>2. ReportIsNewer'
    BY DEF NewerInv, ReportIsNewer
  <1>3. PairedIsTrue'
    BY DEF NewerInv, PairedIsTrue
  <1> QED BY <1>1, <1>2, <1>3 DEF NewerInv

\* One request goes on.
LEMMA RequestNewer ==
  ASSUME PairTypeInv, NewerInv, NEW i \in Tokens,
         \/ PopupOpens(i) \/ PopupFails(i) \/ Closed(i)
         \/ Printed(i) \/ PollStarts(i) \/ PollEnds(i)
  PROVE  NewerInv'
  <1>1. UNCHANGED <<dead, claimed, grant, consumed>>
    BY DEF PopupOpens, PopupFails, Closed, Printed, PollStarts, PollEnds, server, frames
  <1>2. PICK at \in {"shown", "left", "printed", "polling"} :
          /\ req' = [req EXCEPT ![i].at = at]
               \/ req' = [req EXCEPT ![i].at = at, ![i].qr = pairing]
          /\ req[i].at # "none"
          /\ at \in {"printed", "polling"} => Answered(i)
    <2>1. Closed(i) => req[i].at # "none"
      BY DEF Closed, PairTypeInv, GrantedOnce
    <2> QED
      BY <2>1 DEF PopupOpens, PopupFails, Closed, Printed, PollStarts, PollEnds, Pending,
                  Answered
  <1>3. pairing \in {None} \cup Tokens
    BY DEF PairTypeInv, PairTypes
  <1>4. req'[i].at = at /\ \A j \in Tokens : j # i => req'[j] = req[j]
    BY <1>2, <1>3, OneRequest
  <1>5. \A j \in Tokens : /\ Answered(j)' => Answered(j)
                          /\ req'[j].at = "paired" => req[j].at = "paired"
    BY <1>2, <1>4 DEF Answered
  <1> QED BY <1>1, <1>5, NewerKept

\* A new request finds no report under way.
LEMMA AskNewer ==
  ASSUME Overlap = FALSE, PairTypeInv, NewerInv, ShowQRPopup \/ QrCommand
  PROVE  NewerInv'
  <1>1. PICK n \in Tokens, r \in Requests :
          /\ req' = [req EXCEPT ![n] = r] /\ r.at = "registering"
          /\ UNCHANGED <<dead, claimed, grant, consumed>>
    <2>1. minted + 1 \in Tokens
      BY Bounds DEF ShowQRPopup, QrCommand, Mint, PairTypeInv, PairTypes, Tokens
    <2>2. \A who \in {"tray", "cli"} :
            [by |-> who, at |-> "registering", qr |-> None] \in Requests
      BY DEF Requests
    <2> QED
      BY <2>1, <2>2 DEF ShowQRPopup, QrCommand, Mint, frames
  <1>2. req'[n] = r /\ \A j \in Tokens : j # n => req'[j] = req[j]
    BY <1>1 DEF PairTypeInv, PairTypes
  <1>3. \A j \in Tokens : /\ Answered(j)' => Answered(j)
                          /\ req'[j].at = "paired" => req[j].at = "paired"
    BY <1>1, <1>2 DEF Answered
  <1> QED BY <1>1, <1>3, NewerKept

\* The relay answers the newest request, while no claim is being reported.
LEMMA AnswerNewer ==
  ASSUME Overlap = FALSE, PairInv, PairTypeInv, NewerInv, NEW i \in Tokens,
         Registered(i) \/ Refused(i)
  PROVE  NewerInv'
  <1>1. i = minted /\ consumed = 0
    BY DEF Registered, Refused, PairInv, Minted, ClaimsApart, Pending
  <1>2. /\ req[i].at # "none" /\ pairing \in {None} \cup Tokens
        /\ req' = [req EXCEPT ![i].at = "drawing", ![i].qr = pairing]
        /\ claimed' = claimed /\ consumed' = consumed
        /\ dead \subseteq dead' /\ (grant' = i \/ (grant' = grant /\ i \in dead'))
    BY DEF Registered, Refused, Drawing, frames, PairTypeInv, PairTypes
  <1>3. req'[i].at = "drawing" /\ \A j \in Tokens : j # i => req'[j] = req[j]
    BY <1>2, OneRequest
  <1>4. \A j \in Tokens : Answered(j)' => j = i \/ Answered(j)
    BY <1>3 DEF Answered
  <1>5. \A j \in Tokens : req'[j].at = "paired" => req[j].at = "paired"
    BY <1>3
  <1>6. \A j \in Tokens : Answered(j)' => i >= j
    <2>1. \A j \in Tokens : j > minted => ~Answered(j)
      BY DEF PairTypeInv, GrantedOnce, Answered
    <2> QED BY <1>1, <1>4, <2>1 DEF Tokens, PairTypeInv, PairTypes
  <1>7. GrantIsNewer'
    BY <1>2, <1>4, <1>6 DEF NewerInv, GrantIsNewer
  <1>8. ReportIsNewer'
    BY <1>1, <1>2 DEF ReportIsNewer
  <1>9. PairedIsTrue'
    BY <1>2, <1>5 DEF NewerInv, PairedIsTrue
  <1> QED BY <1>7, <1>8, <1>9 DEF NewerInv

\* A claim is of the grant, which no answer is newer than.
LEMMA ClaimNewer ==
  ASSUME PairTypeInv, NewerInv, Claim
  PROVE  NewerInv'
  <1>1. grant # None /\ claimed' = claimed \cup {grant} /\ UNCHANGED <<req, dead>> /\ grant' = None
    BY DEF Claim
  <1>2. GrantIsNewer'
    BY <1>1 DEF GrantIsNewer
  <1>3. ReportIsNewer'
    <2>1. ASSUME NEW j \in Tokens, Answered(j)'
          PROVE  j \in dead' \/ \E k \in claimed' : k >= j
      <3>1. Answered(j)
        BY <1>1, <2>1 DEF Answered
      <3>2. j \in dead \/ grant >= j
        BY <1>1, <3>1 DEF NewerInv, GrantIsNewer
      <3> QED BY <1>1, <3>2
    <2> QED BY <2>1 DEF ReportIsNewer
  <1>4. PairedIsTrue'
    BY <1>1 DEF NewerInv, PairedIsTrue
  <1> QED BY <1>2, <1>3, <1>4 DEF NewerInv

\* The polls are answered.
LEMMA HeardNewer ==
  ASSUME PairTypeInv, NewerInv, ClaimHeard
  PROVE  NewerInv'
  <1>1. /\ consumed > 0 /\ consumed \in Nat /\ consumed' \in Nat
        /\ UNCHANGED <<dead, claimed, grant>>
    BY DEF ClaimHeard, server, PairTypeInv, PairTypes
  <1>2. \A j \in Tokens : \/ req'[j] = req[j]
                          \/ req[j].at = "polling" /\ req'[j].at = "paired"
    <2>1. ASSUME NEW j \in Tokens, req[j].at = "polling"
          PROVE  [req[j] EXCEPT !.at = "paired"].at = "paired"
      BY DEF PairTypeInv, PairTypes, Requests
    <2> QED BY <2>1 DEF ClaimHeard
  <1>3. \A j \in Tokens : Answered(j)' => Answered(j)
    BY <1>2 DEF Answered
  <1>4. \A j \in Tokens : Answered(j) => j \in dead \/ \E k \in claimed : k >= j
    BY <1>1 DEF NewerInv, ReportIsNewer
  <1>5. GrantIsNewer' /\ ReportIsNewer'
    BY <1>1, <1>3, <1>4 DEF NewerInv, GrantIsNewer, ReportIsNewer
  <1>6. PairedIsTrue'
    <2>1. \A j \in Tokens : req'[j].at = "paired" => Answered(j)
      BY <1>2 DEF Answered
    <2> QED BY <1>1, <1>4, <2>1 DEF PairedIsTrue
  <1> QED BY <1>5, <1>6 DEF NewerInv

LEMMA NextNewer ==
  ASSUME Overlap = FALSE, PairInv, PairTypeInv, NewerInv, [Next]_vars
  PROVE  NewerInv'
  <1>1. CASE \/ DashboardPolls \/ Expire \/ FrameLost \/ CloseQRWindow \/ UNCHANGED vars
             \/ \E i \in Tokens : Tick(i) \/ UserCloses(i)
    <2>1. /\ UNCHANGED <<req, claimed>> /\ dead \subseteq dead'
          /\ grant' = grant \/ grant' = None
      BY <1>1 DEF DashboardPolls, Expire, FrameLost, CloseQRWindow, Tick, UserCloses,
                  server, vars
    <2>2. consumed' > 0 => consumed > 0
      <3>1. consumed \in Nat
        BY DEF PairTypeInv, PairTypes
      <3> QED
        BY <1>1, <3>1 DEF DashboardPolls, Expire, FrameLost, CloseQRWindow, Tick,
                          UserCloses, frames, vars
    <2> QED BY <2>1, <2>2, NewerKept DEF Answered
  <1>2. ASSUME NEW i \in Tokens,
               \/ Registered(i) \/ Refused(i) \/ PopupOpens(i) \/ Closed(i)
               \/ Printed(i) \/ PollStarts(i) \/ PollEnds(i) \/ PopupFails(i)
        PROVE  NewerInv'
    BY <1>2, AnswerNewer, RequestNewer
  <1> QED
    BY <1>1, <1>2, AskNewer, ClaimNewer, HeardNewer DEF Next, Progress

\* `termcast qr' says "Paired" of no older claim (index.ts:990-994): the frame
\* that reports a claim does not name it, but while QRs are asked for one at a
\* time no claim of an older token can still be reported or still be made.
THEOREM PairedTold == ASSUME Overlap = FALSE PROVE Spec => []PairedIsTrue
  <1>1. NewerInv => PairedIsTrue
    BY DEF NewerInv
  <1> QED
    BY <1>1, InitNewer, NextNewer, PairInvariant, PairTypeInvariant, PTL DEF Spec
=============================================================================
