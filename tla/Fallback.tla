------------------------------ MODULE Fallback ------------------------------
(***************************************************************************)
(* A fallback counter: one till of an online business that keeps selling   *)
(* from a local copy of the books while the server cannot be reached, and  *)
(* sends what it did once it can.  The actors are                          *)
(*   - the page at that till, with one request in flight at a time, which  *)
(*     the desktop app forwards to the server or, while selling offline,   *)
(*     to the copy (apps/desktop/src/protocol.ts, fallback-counter.ts);    *)
(*   - the refresh that replaces the copy by the server's snapshot every   *)
(*     ten minutes (fallback.ts);                                          *)
(*   - the "keep selling" and "send the offline sales" buttons             *)
(*     (ipc-fallback.ts), each a handler with awaits in it;                *)
(*   - the other tills, which pay and return this counter's bills online;  *)
(*   - a desktop app that may be killed at any point.                      *)
(* The server's side of the exchange is apps/api/src/fallback.             *)
(*                                                                         *)
(* A bill is for one piece of goods: paid at once or left owed, and given  *)
(* back whole.  Invoices have one number series; the return series works   *)
(* the same way and is left out, with registers, customers added offline   *)
(* and stock.  The rows of a document are the place that wrote them.       *)
(***************************************************************************)
EXTENDS Naturals, FiniteSets, FiniteSetsExt

CONSTANTS
  Bills,  \* the ids of the bills that may be made
  Races   \* the overlaps the run lets happen (see RaceKinds)

\* "sale":   an online sale is answered while a refresh replaces the copy
\* "answer": an online sale is made but its answer never reaches the app
\* "start":  "keep selling" is under way during a refresh
\* "switch": "keep selling" is under way while an online request is in flight
\* "finish": "send" is clicked while a request is at the copy
\* "resend": a bill the server took from a sync whose answer was lost is paid
\*           or returned at the copy before the sync is sent again
RaceKinds == {"sale", "answer", "start", "switch", "finish", "resend"}

ASSUME FallbackAssumption == IsFiniteSet(Bills) /\ Races \subseteq RaceKinds

VARIABLES
  server,   \* the online database: the counter's bills and its series' last number
  copy,     \* the local copy, with the documents that came with it
  cfg,      \* the desktop app's saved settings (FallbackSettings)
  refresh,  \* FallbackCounter.refresh: where it is, what it fetched, its `now`
  start,    \* pos:fallback:start: where it is, and its `settings`
  finish,   \* pos:fallback:finish: where it is, and what it read to send
  req,      \* the page's request in flight
  offline,  \* history: what was ever done at the copy
  behind   \* history: selling went on offline from a number the server had passed

vars == <<server, copy, cfg, refresh, start, finish, req, offline, behind>>

Places == {"online", "offline"}

NoBill == [no |-> 0, owed |-> FALSE, payments |-> {}, returns |-> {}]

Book == [Bills -> [no : 0 .. Cardinality(Bills), owed : BOOLEAN,
                   payments : SUBSET Places, returns : SUBSET Places]]

Numbers == 0 .. Cardinality(Bills)

Settings == [ready : BOOLEAN, active : BOOLEAN, pending : BOOLEAN, issued : Numbers]

Documents == {"sale", "return"} \X Bills

Copies == [book : Book, seq : Numbers, copied : SUBSET Documents]

EmptyBook == [b \in Bills |-> NoBill]

EmptyCopy == [book |-> EmptyBook, seq |-> 0, copied |-> {}]

NewSettings == [ready |-> FALSE, active |-> FALSE, pending |-> FALSE, issued |-> 0]

NoRequest == [op |-> "none", bill |-> "none", at |-> "none", done |-> FALSE]

IdleRefresh == [at |-> "idle", snap |-> EmptyCopy, now |-> NewSettings]
IdleStart   == [at |-> "idle", settings |-> NewSettings]
IdleFinish  == [at |-> "idle", outbox |-> EmptyCopy]

TypeOK ==
  /\ server \in [book : Book, seq : Numbers]
  /\ copy \in Copies
  /\ cfg \in Settings
  /\ refresh \in [at : {"idle", "asking", "fetched", "restoring"},
                  snap : Copies, now : Settings]
  /\ start \in [at : {"idle", "starting", "numbered"}, settings : Settings]
  /\ finish \in [at : {"idle", "reading", "sending", "taken"}, outbox : Copies]
  /\ \/ req = NoRequest
     \/ req \in [op : {"cash", "credit", "pay", "return"}, bill : Bills,
                 at : Places, done : BOOLEAN]
  /\ offline \subseteq ({"sale", "payment", "return"} \X Bills)
  /\ behind \in BOOLEAN

Init ==
  /\ server = [book |-> EmptyBook, seq |-> 0]
  /\ copy = EmptyCopy
  /\ cfg = NewSettings
  /\ refresh = IdleRefresh
  /\ start = IdleStart
  /\ finish = IdleFinish
  /\ req = NoRequest
  /\ offline = {}
  /\ behind = FALSE

-----------------------------------------------------------------------------
(* A database of bills, the server's or the copy's.                        *)

On(db, b) == db.book[b].no # 0

\* The sale, payment or return `w` made offline is in `db`.
InBooks(db, w) ==
  CASE w[1] = "sale"    -> On(db, w[2])
    [] w[1] = "payment" -> "offline" \in db.book[w[2]].payments
    [] w[1] = "return"  -> "offline" \in db.book[w[2]].returns

\* An id no bill has, anywhere.
Fresh(b) ==
  /\ ~On(server, b) /\ ~On(copy, b)
  /\ <<"sale", b>> \notin offline

\* What a request may do: sell under an id not used yet, take what is owed, or
\* take the goods back once.
Servable(db, op, b) ==
  CASE op \in {"cash", "credit"} -> Fresh(b)
    [] op = "pay"                -> On(db, b) /\ db.book[b].owed
    [] op = "return"             -> On(db, b) /\ db.book[b].returns = {}

Serve(db, op, b, place) ==
  CASE op \in {"cash", "credit"} ->
         [db EXCEPT !.seq = @ + 1,
                    !.book[b] = [no       |-> db.seq + 1,
                                 owed     |-> op = "credit",
                                 payments |-> IF op = "cash" THEN {place} ELSE {},
                                 returns  |-> {}]]
    [] op = "pay" ->
         [db EXCEPT !.book[b].owed = FALSE, !.book[b].payments = @ \union {place}]
    [] op = "return" ->
         [db EXCEPT !.book[b].owed = FALSE, !.book[b].returns = @ \union {place}]

\* What serving `op` adds to the history.
Work(op, b) ==
  CASE op = "cash"   -> {<<"sale", b>>, <<"payment", b>>}
    [] op = "credit" -> {<<"sale", b>>}
    [] op = "pay"    -> {<<"payment", b>>}
    [] op = "return" -> {<<"return", b>>}

\* Mutant of Snapshot: bills still owed come with the copy too.
SnapshotOfUnpaid ==
  LET own == {b \in Bills : On(server, b)}
  IN  [book   |-> [b \in Bills |-> IF b \in own
                                   THEN [server.book[b] EXCEPT !.payments = {}]
                                   ELSE NoBill],
       seq    |-> server.seq,
       copied |-> {<<"sale", b>> : b \in own}
                  \union {<<"return", b>> : b \in {c \in own : server.book[c].returns # {}}}]

\* The snapshot: the counter's own bills, paid in full, with their returns but
\* not their payments, each listed as copied; and the series' last number.
Snapshot ==
  LET own == {b \in Bills : On(server, b) /\ ~server.book[b].owed}
  IN  [book   |-> [b \in Bills |-> IF b \in own
                                   THEN [server.book[b] EXCEPT !.payments = {}]
                                   ELSE NoBill],
       seq    |-> server.seq,
       copied |-> {<<"sale", b>> : b \in own}
                  \union {<<"return", b>> : b \in {c \in own : server.book[c].returns # {}}}]

\* Bills made at the copy, and returns there of bills that came with it.
SalesOf(out)   == {b \in Bills : On(out, b) /\ <<"sale", b>> \notin out.copied}
ReturnsOf(out) == {b \in Bills : /\ out.book[b].returns # {}
                                 /\ <<"sale", b>> \in out.copied
                                 /\ <<"return", b>> \notin out.copied}

\* Mutant of Clashes: returns made online meanwhile are not looked at.
ClashesOfNumbers(out) ==
  \E b \in SalesOf(out), c \in Bills \ SalesOf(out) :
    On(server, c) /\ server.book[c].no = out.book[b].no

\* Why the server refuses an outbox: a number it gave another bill, or goods
\* returned offline that were returned online meanwhile.
Clashes(out) ==
  \/ \E b \in SalesOf(out), c \in Bills \ SalesOf(out) :
       On(server, c) /\ server.book[c].no = out.book[b].no
  \/ \E b \in ReturnsOf(out) :
       "offline" \notin server.book[b].returns /\ server.book[b].returns # {}

\* Mutant of Added: the series moves on by the outbox's number.
AddedSeries(out) ==
  [book |-> [b \in Bills |-> IF b \in SalesOf(out) /\ ~On(server, b)
                             THEN out.book[b] ELSE server.book[b]],
   seq |-> server.seq + out.seq]

\* The server's books with an outbox added.  Rows are keyed by id: one that is
\* there already stays as it is, also when the outbox has a newer one.
Added(out) ==
  [book |-> [b \in Bills |->
     CASE b \in SalesOf(out) /\ ~On(server, b) -> out.book[b]
       [] b \in SalesOf(out) /\ On(server, b) ->
            [server.book[b] EXCEPT !.payments = @ \union out.book[b].payments,
                                   !.returns  = @ \union out.book[b].returns]
       [] b \in ReturnsOf(out) ->
            [server.book[b] EXCEPT !.returns = @ \union out.book[b].returns]
       [] OTHER -> server.book[b]],
   seq |-> Max({server.seq, out.seq})]

-----------------------------------------------------------------------------
(* The page and the app that forwards its requests.                        *)

\* Where the page's requests go (apiTarget, currentApiBaseUrl); none go while
\* the offline sales are being sent.
Send(op, b) ==
  LET at == IF cfg.active THEN "offline" ELSE "online"
  IN  /\ req = NoRequest
      /\ finish.at = "idle"
      /\ at = "offline" => refresh.at # "restoring"
      /\ "switch" \in Races \/ start.at = "idle"
      /\ Servable(IF cfg.active THEN copy ELSE server, op, b)
      /\ req' = [op |-> op, bill |-> b, at |-> at, done |-> FALSE]
      /\ UNCHANGED <<server, copy, cfg, refresh, start, finish, offline, behind>>

\* The copy's numbers were caught up, to sell offline.
Numbered == cfg.active \/ start.at = "numbered"

\* The snapshot about to be restored was taken before the server's last number.
TakesBackNumbers == Numbered /\ server.seq > refresh.snap.seq

IsSale(r) == r.op \in {"cash", "credit"}

ServerServes ==
  /\ req.at = "online" /\ ~req.done
  /\ Servable(server, req.op, req.bill)
  /\ server' = Serve(server, req.op, req.bill, "online")
  /\ req' = [req EXCEPT !.done = TRUE]
  /\ behind' = (behind \/ (IsSale(req) /\ Numbered))
  /\ UNCHANGED <<copy, cfg, refresh, start, finish, offline>>

\* The copy's API is down while a refresh restores its database.
CopyServes ==
  /\ req.at = "offline" /\ ~req.done
  /\ refresh.at # "restoring"
  /\ Servable(copy, req.op, req.bill)
  /\ \/ "resend" \in Races
     \/ ~(req.bill \in SalesOf(copy) /\ On(server, req.bill))
  /\ copy' = Serve(copy, req.op, req.bill, "offline")
  /\ offline' = offline \union Work(req.op, req.bill)
  /\ req' = [req EXCEPT !.done = TRUE]
  /\ UNCHANGED <<server, cfg, refresh, start, finish, behind>>

\* The answer reaches the app, which notes the number of an online sale
\* (noteInvoiceIssued) unless it is selling offline by now.
Answered ==
  /\ req.done
  /\ \/ "sale" \in Races
     \/ ~(IsSale(req) /\ req.at = "online" /\ refresh.at # "idle")
  /\ cfg' = IF IsSale(req) /\ req.at = "online" /\ ~cfg.active
            THEN [cfg EXCEPT !.issued = Max({@, server.book[req.bill].no})]
            ELSE cfg
  /\ req' = NoRequest
  /\ UNCHANGED <<server, copy, refresh, start, finish, offline, behind>>

\* An online sale the app never hears of.
Unheard == IsSale(req) /\ req.at = "online" /\ req.done

\* The request, or its answer, is lost or refused.
Dropped ==
  /\ req # NoRequest
  /\ Unheard => "answer" \in Races
  /\ req' = NoRequest
  /\ UNCHANGED <<server, copy, cfg, refresh, start, finish, offline, behind>>

\* Another till takes the payment for, or takes back, one of the counter's bills.
OtherTill(op, b) ==
  /\ op \in {"pay", "return"}
  /\ Servable(server, op, b)
  /\ server' = Serve(server, op, b, "online")
  /\ UNCHANGED <<copy, cfg, refresh, start, finish, req, offline, behind>>

-----------------------------------------------------------------------------
(* The refresh of the copy.                                                *)

RefreshStarts ==
  /\ ~cfg.active /\ ~cfg.pending
  /\ refresh.at = "idle" /\ finish.at = "idle"
  /\ "start" \in Races \/ start.at = "idle"
  /\ "sale" \in Races \/ ~(req.at = "online" /\ IsSale(req))
  /\ refresh' = [IdleRefresh EXCEPT !.at = "asking"]
  /\ UNCHANGED <<server, copy, cfg, start, finish, req, offline, behind>>

RefreshFetches ==
  /\ refresh.at = "asking"
  /\ refresh' = [refresh EXCEPT !.at = "fetched", !.snap = Snapshot]
  /\ UNCHANGED <<server, copy, cfg, start, finish, req, offline, behind>>

\* Mutant of RefreshChecks: the settings are not looked at again.
RefreshGoesOn ==
  /\ refresh.at = "fetched"
  /\ refresh' = [refresh EXCEPT !.at = "restoring", !.now = cfg]
  /\ req' = IF req.at = "offline" THEN NoRequest ELSE req
  /\ UNCHANGED <<server, copy, cfg, start, finish, offline, behind>>

\* The settings are read again, and kept for the save at the end; the copy's API
\* is stopped, with the request it was serving.
RefreshChecks ==
  /\ refresh.at = "fetched"
  /\ IF cfg.active \/ cfg.pending
     THEN refresh' = IdleRefresh /\ UNCHANGED req
     ELSE /\ refresh' = [refresh EXCEPT !.at = "restoring", !.now = cfg]
          /\ req' = IF req.at = "offline" THEN NoRequest ELSE req
  /\ UNCHANGED <<server, copy, cfg, start, finish, offline, behind>>

\* The copy is replaced and its API started again.  Once that listens the
\* settings read before the restore are saved, with no request in between; if
\* it does not start, they are not.
RefreshRestores ==
  /\ refresh.at = "restoring"
  /\ copy' = refresh.snap
  /\ cfg' \in {[refresh.now EXCEPT !.ready = TRUE], cfg}
  /\ refresh' = IdleRefresh
  /\ behind' = (behind \/ TakesBackNumbers)
  /\ UNCHANGED <<server, start, finish, req, offline>>

RefreshFails ==
  /\ refresh.at # "idle"
  /\ refresh' = IdleRefresh
  /\ UNCHANGED <<server, copy, cfg, start, finish, req, offline, behind>>

-----------------------------------------------------------------------------
(* "Keep selling on this computer".                                        *)

StartClicked ==
  /\ cfg.ready /\ ~cfg.active
  /\ start.at = "idle" /\ finish.at = "idle"
  /\ "start" \in Races \/ refresh.at = "idle"
  /\ "switch" \in Races \/ req.at # "online"
  /\ start' = [at |-> "starting", settings |-> cfg]
  /\ UNCHANGED <<server, copy, cfg, refresh, finish, req, offline, behind>>

\* Mutant of StartCatchesUp: the numbers stay as they were in the copy.
StartStaysBehind ==
  /\ start.at = "starting"
  /\ start' = [start EXCEPT !.at = "numbered"]
  /\ UNCHANGED <<server, copy, cfg, refresh, finish, req, offline, behind>>

\* The copy's numbers are moved past those the app saw issued (catchUpNumbers);
\* with none to move the copy's API, which may be down, is not asked.
StartCatchesUp ==
  /\ start.at = "starting"
  /\ refresh.at = "restoring" => cfg.issued = 0
  /\ copy' = [copy EXCEPT !.seq = Max({@, cfg.issued})]
  /\ start' = [start EXCEPT !.at = "numbered"]
  /\ behind' = (behind \/ server.seq > Max({copy.seq, cfg.issued}))
  /\ UNCHANGED <<server, cfg, refresh, finish, req, offline>>

\* The copy's API could not be started or did not answer.
StartFails ==
  /\ start.at = "starting"
  /\ start' = IdleStart
  /\ UNCHANGED <<server, copy, cfg, refresh, finish, req, offline, behind>>

\* Mutant of StartActivates: nothing is marked as waiting to be sent.
StartActivatesOnly ==
  /\ start.at = "numbered"
  /\ cfg' = [start.settings EXCEPT !.active = TRUE]
  /\ start' = IdleStart
  /\ UNCHANGED <<server, copy, refresh, finish, req, offline, behind>>

StartActivates ==
  /\ start.at = "numbered"
  /\ cfg' = [start.settings EXCEPT !.active = TRUE, !.pending = TRUE]
  /\ start' = IdleStart
  /\ UNCHANGED <<server, copy, refresh, finish, req, offline, behind>>

-----------------------------------------------------------------------------
(* "Send offline sales and go back online".                                *)

FinishClicked ==
  /\ cfg.active \/ cfg.pending
  /\ start.at = "idle" /\ finish.at = "idle"
  /\ "finish" \in Races \/ req.at # "offline"
  /\ finish' = [IdleFinish EXCEPT !.at = "reading"]
  /\ UNCHANGED <<server, copy, cfg, refresh, start, req, offline, behind>>

FinishReads ==
  /\ finish.at = "reading"
  /\ refresh.at # "restoring"
  /\ finish' = [at |-> "sending", outbox |-> copy]
  /\ UNCHANGED <<server, copy, cfg, refresh, start, req, offline, behind>>

\* The server's whole transaction: refused if anything clashes, else added.
ServerSyncs ==
  /\ finish.at = "sending"
  /\ IF Clashes(finish.outbox)
     THEN finish' = IdleFinish /\ UNCHANGED server
     ELSE /\ server' = Added(finish.outbox)
          /\ finish' = [finish EXCEPT !.at = "taken"]
  /\ UNCHANGED <<copy, cfg, refresh, start, req, offline, behind>>

FinishAnswered ==
  /\ finish.at = "taken"
  /\ cfg' = [cfg EXCEPT !.active = FALSE, !.pending = FALSE]
  /\ finish' = IdleFinish
  /\ UNCHANGED <<server, copy, refresh, start, req, offline, behind>>

\* Not sent, or the answer lost: selling carries on offline.
FinishFails ==
  /\ finish.at # "idle"
  /\ finish' = IdleFinish
  /\ UNCHANGED <<server, copy, cfg, refresh, start, req, offline, behind>>

-----------------------------------------------------------------------------
\* The app is killed: what was under way is gone, the saved settings and the
\* databases stay (a restore under way is done or not).
Crash ==
  /\ Unheard => "answer" \in Races
  /\ \/ UNCHANGED <<copy, behind>>
     \/ /\ refresh.at = "restoring"
        /\ copy' = refresh.snap
        /\ behind' = (behind \/ TakesBackNumbers)
  /\ refresh' = IdleRefresh
  /\ start' = IdleStart
  /\ finish' = IdleFinish
  /\ req' = NoRequest
  /\ UNCHANGED <<server, cfg, offline>>

Next ==
  \/ \E op \in {"cash", "credit", "pay", "return"}, b \in Bills : Send(op, b)
  \/ ServerServes \/ CopyServes \/ Answered \/ Dropped
  \/ \E op \in {"pay", "return"}, b \in Bills : OtherTill(op, b)
  \/ RefreshStarts \/ RefreshFetches \/ RefreshChecks
  \/ RefreshRestores \/ RefreshFails
  \/ StartClicked \/ StartCatchesUp \/ StartFails \/ StartActivates
  \/ FinishClicked \/ FinishReads \/ ServerSyncs \/ FinishAnswered \/ FinishFails
  \/ Crash

Spec == Init /\ [][Next]_vars

-----------------------------------------------------------------------------
(* Properties.                                                             *)

\* Nothing done while selling offline is ever lost: each sale, payment and
\* return made at the copy is on the server, or in the copy while the app says
\* work waits to be sent (the copy is replaced "never while offline sales are
\* waiting", fallback.ts refresh).
OfflineWorkKept == \A w \in offline : InBooks(server, w) \/ (cfg.pending /\ InBooks(copy, w))

\* No number is given to two bills: not to one online and another offline ("a
\* fallback counter's series are only ever issued here ... offline ones carry on
\* after it", fallback-counter.ts noteInvoiceIssued).
NumbersUsedOnce ==
  \A b, c \in Bills : b # c /\ On(server, b) /\ On(copy, c)
                      => server.book[b].no # copy.book[c].no

\* A number is used again only where selling went on offline from a number the
\* server had already passed: one the app never heard of, or heard of and
\* forgot, or that a restore under way took back.
NumbersUsedOnceUnlessBehind == behind \/ NumbersUsedOnce

\* On the server a bill says it is owed exactly while nobody paid or returned
\* it, nobody pays it twice, and its goods come back once, at whichever till,
\* however often the sync is sent.
ServerRowsAgree ==
  /\ TypeOK
  /\ \A b \in Bills : On(server, b) =>
       LET row == server.book[b]
       IN /\ row.owed <=> (row.payments = {} /\ row.returns = {})
          /\ Cardinality(row.payments) <= 1
          /\ Cardinality(row.returns) <= 1
=============================================================================
