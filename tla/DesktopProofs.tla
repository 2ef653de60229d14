---------------------------- MODULE DesktopProofs ----------------------------
(***************************************************************************)
(* Theorems about three parts of the desktop app.                          *)
(*                                                                         *)
(* The fallback counter (Fallback), for every finite set of bills and      *)
(* every overlap Races lets happen but the ones a theorem leaves out.      *)
(* FallbackInv ties the two books together: the copy and the snapshot say  *)
(* of the bills that came with them what the server says, everything done  *)
(* offline is on the server or in a copy that nothing replaces, and, while *)
(* selling did not go on from behind, the copy's series is past the        *)
(* server's.  A step that writes a book (a request served here or there,   *)
(* the sync, a restore, the catch-up) has a lemma of its own, the others   *)
(* share one (Quiet).                                                      *)
(*                                                                         *)
(* Moving a business online (MoveOnline), for any imports and any bounds   *)
(* on uploads and changes, and restoring backups (Backups), for any number *)
(* of days and backups kept and any bounds on changes and days.            *)
(***************************************************************************)
EXTENDS Fallback, MoveOnline, Backups, FiniteSetTheorems, TLAPS

-----------------------------------------------------------------------------
(* Selling on at a fallback counter.                                       *)

Rows == [no : Nat, owed : BOOLEAN, payments : SUBSET Places, returns : SUBSET Places]
ServerBooks == [book : [Bills -> Rows], seq : Nat]
CopyBooks == [book : [Bills -> Rows], seq : Nat, copied : SUBSET Documents]
SavedSettings == [ready : BOOLEAN, active : BOOLEAN, pending : BOOLEAN, issued : Nat]
Asked == [op : {"cash", "credit", "pay", "return"}, bill : Bills, at : Places, done : BOOLEAN]

FallbackTypes ==
    /\ server \in ServerBooks
    /\ copy \in CopyBooks
    /\ cfg \in SavedSettings
    /\ refresh \in [at : {"idle", "asking", "fetched", "restoring"}, snap : CopyBooks, now : SavedSettings]
    /\ start \in [at : {"idle", "starting", "numbered"}, settings : SavedSettings]
    /\ finish \in [at : {"idle", "reading", "sending", "taken"}, outbox : CopyBooks]
    /\ req \in Asked \cup {NoRequest}
    /\ offline \subseteq ({"sale", "payment", "return"} \X Bills)
    /\ behind \in BOOLEAN

\* The handlers of the desktop app keep out of each other's way: what the settings say, and the
\* copy, while one of them is between two awaits.
HandlersApart ==
    /\ cfg.active <=> cfg.pending
    /\ req.at = "offline" => cfg.active /\ finish.at = "idle" /\ refresh.at # "restoring"
    /\ refresh.at = "restoring" => ~refresh.now.active /\ ~refresh.now.pending
    /\ finish.at # "idle" => start.at = "idle" /\ (cfg.active \/ refresh.at = "idle")
    /\ finish.at \in {"sending", "taken"} => finish.outbox = copy /\ refresh.at # "restoring"
    /\ finish.at \in {"idle", "reading"} => finish.outbox = EmptyCopy

\* A book's bills are numbered within its series.
NumbersWithin(db) == \A b \in Bills : (On(db, b) => db.book[b].no <= db.seq) /\ (~On(db, b) => db.book[b] = NoBill)

\* What a copy says of the bills that came with it, and the number of every bill, is the server's.
AgreesWithServer(c) ==
    \A b \in Bills :
        /\ On(c, b) /\ On(server, b) => c.book[b].no = server.book[b].no
        /\ <<"sale", b>> \in c.copied =>
              /\ On(c, b) /\ On(server, b)
              /\ ~c.book[b].owed /\ ~server.book[b].owed
              /\ c.book[b].payments = {}
        /\ <<"return", b>> \in c.copied =>
              <<"sale", b>> \in c.copied /\ c.book[b].returns \subseteq server.book[b].returns /\ c.book[b].returns # {}

BooksSound ==
    /\ NumbersWithin(server) /\ NumbersWithin(copy) /\ NumbersWithin(refresh.snap)
    /\ AgreesWithServer(copy) /\ AgreesWithServer(refresh.snap)
    /\ \A b \in Bills : On(refresh.snap, b) => <<"sale", b>> \in refresh.snap.copied
    /\ \A b \in Bills : On(copy, b) /\ <<"sale", b>> \notin copy.copied => <<"sale", b>> \in offline

\* What was done offline is on the server or in a copy nothing replaces.
WorkSound ==
    /\ OfflineWorkKept
    /\ refresh.at = "restoring" \/ finish.at = "taken" => \A w \in offline : InBooks(server, w)
    /\ finish.at = "taken" => \A b \in Bills : On(copy, b) => On(server, b)
    /\ \A b \in Bills : On(copy, b) /\ ~On(server, b) => cfg.active

\* A number's next use is past those of every bill, unless selling went on from behind.
NumbersSound ==
    /\ \A b, c \in Bills : b # c /\ On(server, b) /\ On(server, c) => server.book[b].no # server.book[c].no
    /\ \A b, c \in Bills : b # c /\ On(copy, b) /\ On(copy, c) => copy.book[b].no # copy.book[c].no
    /\ NumbersUsedOnce
    /\ Numbered => server.seq <= copy.seq

\* A bill's own books: those of a bill's row at the server, and of one made at the copy.
RowAgrees(row) ==
    /\ row.owed <=> (row.payments = {} /\ row.returns = {})
    /\ row.payments \in {{}, {"online"}, {"offline"}}
    /\ row.returns \in {{}, {"online"}, {"offline"}}

RowsSound ==
    /\ \A b \in Bills : On(server, b) => RowAgrees(server.book[b])
    /\ \A b \in Bills : On(copy, b) /\ <<"sale", b>> \notin copy.copied =>
          /\ RowAgrees(copy.book[b])
          /\ copy.book[b].payments \subseteq {"offline"} /\ copy.book[b].returns \subseteq {"offline"}
          /\ On(server, b) => /\ copy.book[b].payments \subseteq server.book[b].payments
                              /\ copy.book[b].returns \subseteq server.book[b].returns
    /\ \A b \in Bills : <<"sale", b>> \in copy.copied /\ <<"return", b>> \notin copy.copied =>
          copy.book[b].returns \subseteq {"offline"}
    /\ \A b \in Bills : <<"sale", b>> \in refresh.snap.copied /\ <<"return", b>> \notin refresh.snap.copied =>
          refresh.snap.book[b].returns = {}

\* The bills made anywhere, and the numbers they used.
BillsMade == {b \in Bills : On(server, b) \/ <<"sale", b>> \in offline}

SeriesShort ==
    /\ server.seq <= Cardinality(BillsMade) /\ copy.seq <= Cardinality(BillsMade)
    /\ refresh.snap.seq <= Cardinality(BillsMade)
    /\ cfg.issued <= Cardinality(BillsMade) /\ refresh.now.issued <= Cardinality(BillsMade)
    /\ start.settings.issued <= Cardinality(BillsMade)

FallbackInv ==
    /\ FallbackTypes /\ HandlersApart /\ BooksSound /\ WorkSound
    /\ ~behind => NumbersSound
    /\ "resend" \notin Races => RowsSound
    /\ SeriesShort


LEMMA LargerOf ==
    ASSUME NEW m \in Nat, NEW n \in Nat
    PROVE  /\ Max({m, n}) \in Nat /\ Max({m, n}) >= m /\ Max({m, n}) >= n
           /\ Max({m, n}) = m \/ Max({m, n}) = n
<1>1. \E x \in {m, n} : \A y \in {m, n} : x >= y
  <2>1. CASE m >= n
    BY <2>1
  <2>2. CASE n >= m
    BY <2>2
  <2>3. QED
    BY <2>1, <2>2
<1>2. Max({m, n}) \in {m, n} /\ \A y \in {m, n} : Max({m, n}) >= y
  BY <1>1 DEF Max
<1>3. QED
  BY <1>2

Operations == {"cash", "credit", "pay", "return"}
Sells(op) == op \in {"cash", "credit"}

\* What serving a request makes of its bill's row, in a book that has issued `seq` numbers.
ServedRow(row, seq, op, place) ==
    [no       |-> IF Sells(op) THEN seq + 1 ELSE row.no,
     owed     |-> op = "credit",
     payments |-> CASE op = "cash" -> {place}
                    [] op = "credit" -> {}
                    [] op = "pay" -> row.payments \union {place}
                    [] op = "return" -> row.payments,
     returns  |-> CASE Sells(op) -> {}
                    [] op = "pay" -> row.returns
                    [] op = "return" -> row.returns \union {place}]

LEMMA ServedRowTyped ==
    ASSUME NEW row \in Rows, NEW seq \in Nat, NEW op \in Operations, NEW place \in Places
    PROVE  /\ ServedRow(row, seq, op, place) \in Rows
           /\ row.no # 0 \/ Sells(op) => ServedRow(row, seq, op, place).no # 0
<1>1. row.no \in Nat /\ row.payments \in SUBSET Places /\ row.returns \in SUBSET Places
  BY DEF Rows
<1>2. seq + 1 \in Nat /\ seq + 1 # 0
  OBVIOUS
<1>3. (op = "credit") \in BOOLEAN
  OBVIOUS
<1>4. CASE Sells(op)
  BY <1>1, <1>2, <1>3, <1>4 DEF ServedRow, Sells, Rows
<1>5. CASE op = "pay"
  BY <1>1, <1>5 DEF ServedRow, Sells, Rows
<1>6. CASE op = "return"
  BY <1>1, <1>6 DEF ServedRow, Sells, Rows
<1>7. QED
  BY <1>4, <1>5, <1>6 DEF Operations, Sells

LEMMA SameRow ==
    ASSUME NEW row \in Rows, NEW other \in Rows,
           row.no = other.no, row.owed = other.owed, row.payments = other.payments, row.returns = other.returns
    PROVE  row = other
BY DEF Rows

\* Serving a request writes its bill's row and, for a sale, the series.
LEMMA ServeWrites ==
    ASSUME NEW db \in ServerBooks \cup CopyBooks, NEW op \in Operations, NEW b \in Bills, NEW place \in Places
    PROVE  /\ Serve(db, op, b, place).book = [db.book EXCEPT ![b] = ServedRow(db.book[b], db.seq, op, place)]
           /\ Serve(db, op, b, place).seq = IF Sells(op) THEN db.seq + 1 ELSE db.seq
           /\ db \in ServerBooks => Serve(db, op, b, place) \in ServerBooks
           /\ db \in CopyBooks => Serve(db, op, b, place) \in CopyBooks /\ Serve(db, op, b, place).copied = db.copied
<1> DEFINE d == Serve(db, op, b, place)
<1>1. db.book \in [Bills -> Rows] /\ db.seq \in Nat /\ db.book[b] \in Rows
  BY DEF ServerBooks, CopyBooks
<1>a. \A row \in Rows :
        /\ op = "pay" => ServedRow(row, db.seq, op, place) = [row EXCEPT !.owed = FALSE, !.payments = @ \union {place}]
        /\ op = "return" => ServedRow(row, db.seq, op, place) = [row EXCEPT !.owed = FALSE, !.returns = @ \union {place}]
  <2> TAKE row \in Rows
  <2> HIDE DEF d
  <2> DEFINE paid == [row EXCEPT !.owed = FALSE, !.payments = @ \union {place}]
             back == [row EXCEPT !.owed = FALSE, !.returns = @ \union {place}]
             served == ServedRow(row, db.seq, op, place)
  <2>1. /\ paid \in Rows /\ paid.no = row.no /\ paid.owed = FALSE
        /\ paid.payments = row.payments \union {place} /\ paid.returns = row.returns
    BY DEF Rows
  <2>2. /\ back \in Rows /\ back.no = row.no /\ back.owed = FALSE
        /\ back.payments = row.payments /\ back.returns = row.returns \union {place}
    BY DEF Rows
  <2>3. served \in Rows
    BY <1>1, ServedRowTyped
  <2>4. op = "pay" => /\ served.no = row.no /\ served.owed = FALSE
                      /\ served.payments = row.payments \union {place} /\ served.returns = row.returns
    BY DEF ServedRow, Sells
  <2>5. op = "return" => /\ served.no = row.no /\ served.owed = FALSE
                         /\ served.payments = row.payments /\ served.returns = row.returns \union {place}
    BY DEF ServedRow, Sells
  <2> HIDE DEF paid, back, served
  <2>6. op = "pay" => served = paid
    BY <2>1, <2>3, <2>4, SameRow
  <2>7. op = "return" => served = back
    BY <2>2, <2>3, <2>5, SameRow
  <2>8. QED
    BY <2>6, <2>7 DEF paid, back, served
<1>2. /\ d.book = [db.book EXCEPT ![b] = ServedRow(db.book[b], db.seq, op, place)]
      /\ d.seq = IF Sells(op) THEN db.seq + 1 ELSE db.seq
      /\ db \in ServerBooks => d = [book |-> d.book, seq |-> d.seq]
      /\ db \in CopyBooks => d = [book |-> d.book, seq |-> d.seq, copied |-> db.copied]
  <2>1. CASE Sells(op)
    <3>1. ServedRow(db.book[b], db.seq, op, place) = [no |-> db.seq + 1, owed |-> op = "credit",
                                 payments |-> IF op = "cash" THEN {place} ELSE {}, returns |-> {}]
      BY <2>1 DEF ServedRow, Sells
    <3>2. d = [db EXCEPT !.seq = @ + 1, !.book[b] = ServedRow(db.book[b], db.seq, op, place)]
      BY <2>1, <3>1 DEF Serve, Sells
    <3>3. QED
      BY <2>1, <3>2 DEF ServerBooks, CopyBooks
  <2>2. CASE op = "pay"
    <3>1. ServedRow(db.book[b], db.seq, op, place) = [db.book[b] EXCEPT !.owed = FALSE, !.payments = @ \union {place}]
      BY <1>1, <2>2, <1>a
    <3>2. d = [db EXCEPT !.book[b] = ServedRow(db.book[b], db.seq, op, place)]
      BY <2>2, <3>1 DEF Serve, ServerBooks, CopyBooks
    <3>3. QED
      BY <2>2, <3>2 DEF ServerBooks, CopyBooks, Sells
  <2>3. CASE op = "return"
    <3>1. ServedRow(db.book[b], db.seq, op, place) = [db.book[b] EXCEPT !.owed = FALSE, !.returns = @ \union {place}]
      BY <1>1, <2>3, <1>a
    <3>2. d = [db EXCEPT !.book[b] = ServedRow(db.book[b], db.seq, op, place)]
      BY <2>3, <3>1 DEF Serve, ServerBooks, CopyBooks
    <3>3. QED
      BY <2>3, <3>2 DEF ServerBooks, CopyBooks, Sells
  <2>4. QED
    BY <2>1, <2>2, <2>3 DEF Operations, Sells
<1>3. d.book \in [Bills -> Rows] /\ d.seq \in Nat
  BY <1>1, <1>2, ServedRowTyped
<1> HIDE DEF d
<1>4. QED
  BY <1>2, <1>3 DEF ServerBooks, CopyBooks, d


\* A book that only gains: bills keep their numbers, and what was paid or returned stays so.
Grows(old, new) ==
    /\ new.seq >= old.seq
    /\ \A b \in Bills : On(old, b) =>
          /\ new.book[b].no = old.book[b].no
          /\ old.book[b].payments \subseteq new.book[b].payments
          /\ old.book[b].returns \subseteq new.book[b].returns
          /\ old.book[b].owed \/ ~new.book[b].owed

\* What a row says of its bill, in the words of each operation.
LEMMA ServedRowSays ==
    ASSUME NEW row \in Rows, NEW seq \in Nat, NEW op \in Operations, NEW place \in Places
    PROVE  LET new == ServedRow(row, seq, op, place)
           IN  /\ Sells(op) => new.no = seq + 1 /\ new.returns = {} /\ (op = "cash" \/ op = "credit")
               /\ ~Sells(op) => new.no = row.no /\ ~new.owed /\ op \in {"pay", "return"}
               /\ op = "cash" => ~new.owed /\ new.payments = {place}
               /\ op = "credit" => new.owed /\ new.payments = {}
               /\ op = "pay" => new.payments = row.payments \union {place} /\ new.returns = row.returns
               /\ op = "return" => new.payments = row.payments /\ new.returns = row.returns \union {place}
BY DEF ServedRow, Sells, Operations

LEMMA ServeGrows ==
    ASSUME NEW db \in ServerBooks \cup CopyBooks, NEW op \in Operations, NEW b \in Bills, NEW place \in Places,
           Sells(op) <=> ~On(db, b)
    PROVE  Grows(db, Serve(db, op, b, place))
<1> DEFINE d == Serve(db, op, b, place)
           r == ServedRow(db.book[b], db.seq, op, place)
<1>1. db.book \in [Bills -> Rows] /\ db.seq \in Nat /\ db.book[b] \in Rows
  BY DEF ServerBooks, CopyBooks
<1>2. d.book = [db.book EXCEPT ![b] = r] /\ d.seq = IF Sells(op) THEN db.seq + 1 ELSE db.seq
  BY ServeWrites
<1>3. d.book[b] = r /\ \A c \in Bills : c # b => d.book[c] = db.book[c]
  BY <1>1, <1>2
<1>4. ~Sells(op) => /\ r.no = db.book[b].no /\ ~r.owed
                    /\ db.book[b].payments \subseteq r.payments /\ db.book[b].returns \subseteq r.returns
  BY <1>1, ServedRowSays
<1> HIDE DEF d, r
<1>5. d.seq >= db.seq
  BY <1>1, <1>2
<1>6. ASSUME NEW c \in Bills, On(db, c)
      PROVE  /\ d.book[c].no = db.book[c].no
             /\ db.book[c].payments \subseteq d.book[c].payments
             /\ db.book[c].returns \subseteq d.book[c].returns
             /\ db.book[c].owed \/ ~d.book[c].owed
  <2>1. CASE c = b
    BY <2>1, <1>6, <1>3, <1>4
  <2>2. CASE c # b
    BY <2>2, <1>3
  <2>3. QED
    BY <2>1, <2>2
<1>7. QED
  BY <1>5, <1>6 DEF Grows, d

\* What the server gains, it keeps of every copy's words and of the work done offline.
LEMMA GainsKeepWork ==
    ASSUME FallbackTypes, NumbersWithin(server), Grows(server, server'), NEW w \in offline, InBooks(server, w)
    PROVE  InBooks(server, w)'
<1>1. PICK kind \in {"sale", "payment", "return"}, b \in Bills : w = <<kind, b>>
  BY DEF FallbackTypes
<1>2. w[1] = kind /\ w[2] = b
  BY <1>1
<1>3. kind # "sale" => On(server, b)
  <2>1. ~On(server, b) => server.book[b] = NoBill
    BY DEF NumbersWithin
  <2>2. "offline" \notin NoBill.payments /\ "offline" \notin NoBill.returns
    BY DEF NoBill
  <2>3. QED
    BY <1>2, <2>1, <2>2 DEF InBooks
<1>4. On(server, b)
  BY <1>2, <1>3 DEF InBooks
<1>5. QED
  BY <1>2, <1>4 DEF Grows, InBooks, On

LEMMA GainsKeepAgreement ==
    ASSUME NEW c \in CopyBooks, AgreesWithServer(c), Grows(server, server'),
           \A b \in Bills : On(c, b) /\ ~On(server, b) /\ On(server, b)' => server'.book[b].no = c.book[b].no
    PROVE  /\ \A b \in Bills : On(c, b) /\ On(server, b)' => c.book[b].no = server'.book[b].no
           /\ \A b \in Bills : <<"sale", b>> \in c.copied =>
                /\ On(c, b) /\ On(server, b)' /\ ~c.book[b].owed /\ ~server'.book[b].owed /\ c.book[b].payments = {}
           /\ \A b \in Bills : <<"return", b>> \in c.copied =>
                /\ <<"sale", b>> \in c.copied /\ c.book[b].returns \subseteq server'.book[b].returns
                /\ c.book[b].returns # {}
<1> SUFFICES ASSUME NEW b \in Bills
             PROVE  /\ On(c, b) /\ On(server, b)' => c.book[b].no = server'.book[b].no
                    /\ <<"sale", b>> \in c.copied =>
                         /\ On(c, b) /\ On(server, b)' /\ ~c.book[b].owed /\ ~server'.book[b].owed
                         /\ c.book[b].payments = {}
                    /\ <<"return", b>> \in c.copied =>
                         /\ <<"sale", b>> \in c.copied /\ c.book[b].returns \subseteq server'.book[b].returns
                         /\ c.book[b].returns # {}
  OBVIOUS
<1>1. On(server, b) => /\ On(server, b)' /\ server'.book[b].no = server.book[b].no
                       /\ server.book[b].returns \subseteq server'.book[b].returns
                       /\ server.book[b].owed \/ ~server'.book[b].owed
  BY DEF Grows, On
<1>2. QED
  BY <1>1 DEF AgreesWithServer

\* A bill more, in a finite set of bills.
LEMMA BillsMadeFinite == BillsMade \subseteq Bills /\ IsFiniteSet(BillsMade) /\ Cardinality(BillsMade) \in Nat
BY FallbackAssumption, FS_Subset, FS_CardinalityType DEF BillsMade, FallbackAssumption

LEMMA MoreBillsMade ==
    ASSUME BillsMade \subseteq BillsMade'
    PROVE  /\ Cardinality(BillsMade)' \in Nat /\ Cardinality(BillsMade) <= Cardinality(BillsMade)'
           /\ \A b \in BillsMade' : b \notin BillsMade => Cardinality(BillsMade) + 1 <= Cardinality(BillsMade)'
<1>1. IsFiniteSet(BillsMade') /\ Cardinality(BillsMade') \in Nat
  <2>1. BillsMade' \subseteq Bills
    BY DEF BillsMade
  <2>2. QED
    BY <2>1, FallbackAssumption, FS_Subset, FS_CardinalityType DEF FallbackAssumption
<1>2. Cardinality(BillsMade) <= Cardinality(BillsMade')
  BY <1>1, FS_Subset
<1>3. ASSUME NEW b \in BillsMade', b \notin BillsMade
      PROVE  Cardinality(BillsMade) + 1 <= Cardinality(BillsMade')
  <2>1. BillsMade \cup {b} \subseteq BillsMade'
    OBVIOUS
  <2>2. Cardinality(BillsMade \cup {b}) <= Cardinality(BillsMade')
    BY <1>1, <2>1, FS_Subset
  <2>3. Cardinality(BillsMade \cup {b}) = Cardinality(BillsMade) + 1
    BY <1>3, BillsMadeFinite, FS_AddElement
  <2>4. QED
    BY <2>2, <2>3
<1>4. QED
  BY <1>1, <1>2, <1>3


Sound ==
    /\ BooksSound /\ WorkSound
    /\ ~behind => NumbersSound
    /\ "resend" \notin Races => RowsSound
    /\ SeriesShort

-----------------------------------------------------------------------------
(* A request served at the server, for this till or another.               *)

LEMMA ServerServedSound ==
    ASSUME FallbackInv, NEW op \in Operations, NEW b \in Bills, Servable(server, op, b),
           server' = Serve(server, op, b, "online"),
           behind' = (behind \/ (Sells(op) /\ Numbered)),
           UNCHANGED <<copy, cfg, refresh, start, finish, offline>>
    PROVE  Sound'
<1> DEFINE row == server.book[b]
           new == ServedRow(row, server.seq, op, "online")
<1>1. /\ server \in ServerBooks /\ server.book \in [Bills -> Rows] /\ server.seq \in Nat /\ row \in Rows
      /\ copy \in CopyBooks /\ copy.seq \in Nat /\ refresh.snap \in CopyBooks /\ "online" \in Places
  BY DEF FallbackInv, FallbackTypes, ServerBooks, CopyBooks, Places
<1>2. /\ copy' = copy /\ cfg' = cfg /\ refresh' = refresh /\ start' = start /\ finish' = finish /\ offline' = offline
      /\ Numbered' = Numbered
  BY DEF Numbered
<1>3. /\ \A c \in Bills : server'.book[c] = IF c = b THEN new ELSE server.book[c]
      /\ server'.seq = IF Sells(op) THEN server.seq + 1 ELSE server.seq
      /\ server' \in ServerBooks
  <2>1. /\ server'.book = [server.book EXCEPT ![b] = new] /\ server' \in ServerBooks
        /\ server'.seq = IF Sells(op) THEN server.seq + 1 ELSE server.seq
    BY <1>1, ServeWrites
  <2>2. QED
    BY <1>1, <2>1
<1>4. /\ Sells(op) => /\ Fresh(b) /\ new.no = server.seq + 1 /\ new.returns = {} /\ RowAgrees(new)
      /\ ~Sells(op) => On(server, b) /\ new.no = row.no /\ ~new.owed
      /\ op = "pay" => row.owed /\ new.payments = row.payments \union {"online"} /\ new.returns = row.returns
      /\ op = "return" => row.returns = {} /\ new.payments = row.payments /\ new.returns = {"online"}
  <2>1. Sells(op) => Fresh(b)
    BY DEF Servable, Sells
  <2>2. ~Sells(op) => On(server, b) /\ (op = "pay" => row.owed) /\ (op = "return" => row.returns = {})
    BY DEF Servable, Sells, Operations
  <2>3. Sells(op) => RowAgrees(new)
    BY DEF RowAgrees, ServedRow, Sells
  <2>4. QED
    BY <1>1, <2>1, <2>2, <2>3, ServedRowSays DEF Sells
<1> HIDE DEF new
<1>5. Grows(server, server')
  <2>1. Sells(op) <=> ~On(server, b)
    BY <1>4 DEF Fresh
  <2>2. QED
    BY <1>1, <2>1, ServeGrows
<1>6. \A c \in Bills : On(server, c)' <=> On(server, c) \/ (Sells(op) /\ c = b)
  BY <1>1, <1>3, <1>4 DEF On
<1>7. BooksSound /\ WorkSound /\ SeriesShort /\ FallbackTypes /\ HandlersApart /\ (~behind => NumbersSound)
  BY DEF FallbackInv
<1>8. ASSUME Sells(op)
      PROVE  ~On(server, b) /\ ~On(copy, b) /\ ~On(refresh.snap, b) /\ <<"sale", b>> \notin offline
  BY <1>4, <1>7, <1>8 DEF Fresh, BooksSound, AgreesWithServer
<1>9. BooksSound'
  <2>1. NumbersWithin(server)'
    <3> SUFFICES ASSUME NEW c \in Bills
                 PROVE  /\ On(server', c) => server'.book[c].no <= server'.seq
                        /\ ~On(server', c) => server'.book[c] = NoBill
      BY DEF NumbersWithin
    <3>1. /\ On(server, c) => server.book[c].no <= server.seq
          /\ ~On(server, c) => server.book[c] = NoBill
          /\ server.book[c].no \in Nat
      BY <1>1, <1>7 DEF BooksSound, NumbersWithin, Rows
    <3>2. On(server', c) <=> On(server, c) \/ (Sells(op) /\ c = b)
      BY <1>6 DEF On
    <3>3. QED
      BY <1>1, <1>3, <1>4, <3>1, <3>2
  <2>2. /\ \A c \in Bills : On(copy, c) /\ ~On(server, c) /\ On(server, c)' => server'.book[c].no = copy.book[c].no
        /\ \A c \in Bills : On(refresh.snap, c) /\ ~On(server, c) /\ On(server, c)'
                              => server'.book[c].no = refresh.snap.book[c].no
    BY <1>6, <1>8
  <2>3. AgreesWithServer(copy) /\ AgreesWithServer(refresh.snap)
    BY <1>7 DEF BooksSound
  <2>4. AgreesWithServer(copy)'
    <3>1. /\ \A c \in Bills : On(copy, c) /\ On(server, c)' => copy.book[c].no = server'.book[c].no
          /\ \A c \in Bills : <<"sale", c>> \in copy.copied =>
               /\ On(copy, c) /\ On(server, c)' /\ ~copy.book[c].owed /\ ~server'.book[c].owed
               /\ copy.book[c].payments = {}
          /\ \A c \in Bills : <<"return", c>> \in copy.copied =>
               /\ <<"sale", c>> \in copy.copied /\ copy.book[c].returns \subseteq server'.book[c].returns
               /\ copy.book[c].returns # {}
      BY <1>1, <1>5, <2>2, <2>3, GainsKeepAgreement
    <3>2. QED
      BY <1>2, <3>1 DEF AgreesWithServer, On
  <2>5. AgreesWithServer(refresh.snap)'
    <3>1. /\ \A c \in Bills : On(refresh.snap, c) /\ On(server, c)' => refresh.snap.book[c].no = server'.book[c].no
          /\ \A c \in Bills : <<"sale", c>> \in refresh.snap.copied =>
               /\ On(refresh.snap, c) /\ On(server, c)' /\ ~refresh.snap.book[c].owed /\ ~server'.book[c].owed
               /\ refresh.snap.book[c].payments = {}
          /\ \A c \in Bills : <<"return", c>> \in refresh.snap.copied =>
               /\ <<"sale", c>> \in refresh.snap.copied /\ refresh.snap.book[c].returns \subseteq server'.book[c].returns
               /\ refresh.snap.book[c].returns # {}
      BY <1>1, <1>5, <2>2, <2>3, GainsKeepAgreement
    <3>2. QED
      BY <1>2, <3>1 DEF AgreesWithServer, On
  <2>6. QED
    BY <1>2, <1>7, <2>1, <2>4, <2>5 DEF BooksSound, NumbersWithin, On
<1>10. WorkSound'
  <2>1. \A w \in offline : InBooks(server, w) => InBooks(server, w)'
    BY <1>5, <1>7, GainsKeepWork DEF BooksSound
  <2>2. \A w \in offline : InBooks(copy, w) => InBooks(copy, w)'
    BY <1>2 DEF InBooks, On
  <2>3. \A c \in Bills : On(server, c) => On(server, c)'
    BY <1>6
  <2>4. \A c \in Bills : On(copy, c)' <=> On(copy, c)
    BY <1>2 DEF On
  <2>5. OfflineWorkKept'
    BY <1>2, <1>7, <2>1, <2>2 DEF WorkSound, OfflineWorkKept
  <2>6. QED
    BY <1>2, <1>7, <2>1, <2>3, <2>4, <2>5 DEF WorkSound
<1>11. ASSUME ~behind'
       PROVE  NumbersSound'
  <2>1. NumbersSound /\ (Sells(op) => ~Numbered)
    BY <1>7, <1>11
  <2>2. \A c \in Bills : On(server, c) => server.book[c].no \in Nat /\ server.book[c].no < server.seq + 1
    BY <1>1, <1>7 DEF BooksSound, NumbersWithin, Rows
  <2>3. ASSUME Sells(op), NEW c \in Bills, On(copy, c)
        PROVE  copy.book[c].no # server.seq + 1
    <3>1. On(server, c)
      BY <1>7, <2>1, <2>3 DEF WorkSound, Numbered
    <3>2. copy.book[c].no = server.book[c].no
      BY <1>7, <2>3, <3>1 DEF BooksSound, AgreesWithServer
    <3>3. QED
      BY <1>1, <2>2, <3>1, <3>2
  <2>4. ASSUME NEW c \in Bills, On(server, c)'
        PROVE  \/ On(server, c) /\ server'.book[c].no = server.book[c].no
               \/ Sells(op) /\ c = b /\ server'.book[c].no = server.seq + 1
    BY <1>3, <1>4, <1>6, <2>4
  <2>5. \A c, d \in Bills : c # d /\ On(server, c)' /\ On(server, d)' => server'.book[c].no # server'.book[d].no
    <3> SUFFICES ASSUME NEW c \in Bills, NEW d \in Bills, c # d, On(server, c)', On(server, d)'
                 PROVE  server'.book[c].no # server'.book[d].no
      OBVIOUS
    <3>1. On(server, c) /\ On(server, d) => server.book[c].no # server.book[d].no
      BY <2>1 DEF NumbersSound
    <3>2. QED
      BY <1>1, <2>2, <2>4, <3>1
  <2>6. \A c, d \in Bills : c # d /\ On(server, c)' /\ On(copy, d) => server'.book[c].no # copy.book[d].no
    <3> SUFFICES ASSUME NEW c \in Bills, NEW d \in Bills, c # d, On(server, c)', On(copy, d)
                 PROVE  server'.book[c].no # copy.book[d].no
      OBVIOUS
    <3>1. On(server, c) => server.book[c].no # copy.book[d].no
      BY <2>1 DEF NumbersSound, NumbersUsedOnce
    <3>2. QED
      BY <2>3, <2>4, <3>1
  <2>7. Numbered' => server'.seq <= copy'.seq
    BY <1>2, <1>3, <2>1 DEF NumbersSound
  <2>8. \A c, d \in Bills : c # d /\ On(copy, c) /\ On(copy, d) => copy.book[c].no # copy.book[d].no
    BY <2>1 DEF NumbersSound
  <2>9. QED
    BY <1>2, <2>5, <2>6, <2>7, <2>8 DEF NumbersSound, NumbersUsedOnce, On
<1>12. ASSUME "resend" \notin Races
       PROVE  RowsSound'
  <2>1. RowsSound
    BY <1>12 DEF FallbackInv
  <2>2. ASSUME NEW c \in Bills, On(server, c)'
        PROVE  RowAgrees(server'.book[c])
    <3>1. CASE c # b
      BY <1>3, <1>6, <2>1, <2>2, <3>1 DEF RowsSound
    <3>2. CASE c = b /\ Sells(op)
      BY <1>3, <1>4, <3>2
    <3>3. CASE c = b /\ ~Sells(op)
      <4>1. RowAgrees(row)
        BY <1>4, <2>1, <3>3 DEF RowsSound
      <4>2. op = "pay" \/ op = "return"
        BY <3>3 DEF Operations, Sells
      <4>3. server'.book[c] = new
        BY <1>3, <3>3
      <4>4. RowAgrees(new)
        BY <1>4, <3>3, <4>1, <4>2 DEF RowAgrees
      <4>5. QED
        BY <4>3, <4>4
    <3>4. QED
      BY <3>1, <3>2, <3>3
  <2>3. ASSUME NEW c \in Bills, On(copy, c), On(server, c)'
        PROVE  On(server, c) /\ server.book[c].payments \subseteq server'.book[c].payments
                             /\ server.book[c].returns \subseteq server'.book[c].returns
    BY <1>5, <1>6, <1>8, <2>3 DEF Grows
  <2>4. QED
    <3>1. \A c \in Bills : On(server, c)' => RowAgrees(server.book[c])'
      BY <2>2 DEF RowAgrees
    <3>2. ASSUME NEW c \in Bills, On(copy, c), <<"sale", c>> \notin copy.copied
          PROVE  /\ RowAgrees(copy.book[c])
                 /\ copy.book[c].payments \subseteq {"offline"} /\ copy.book[c].returns \subseteq {"offline"}
                 /\ On(server, c)' => /\ copy.book[c].payments \subseteq server'.book[c].payments
                                      /\ copy.book[c].returns \subseteq server'.book[c].returns
      BY <2>1, <2>3, <3>2 DEF RowsSound
    <3>3. QED
      BY <1>2, <2>1, <3>1, <3>2 DEF RowsSound, RowAgrees, On
<1>13. SeriesShort'
  <2>1. BillsMade \subseteq BillsMade' /\ (Sells(op) => b \in BillsMade' /\ b \notin BillsMade)
    BY <1>2, <1>6, <1>8 DEF BillsMade
  <2>2. /\ Cardinality(BillsMade)' \in Nat /\ Cardinality(BillsMade) <= Cardinality(BillsMade)'
        /\ Sells(op) => Cardinality(BillsMade) + 1 <= Cardinality(BillsMade)'
        /\ Cardinality(BillsMade) \in Nat
    BY <2>1, MoreBillsMade, BillsMadeFinite
  <2>3. /\ copy.seq \in Nat /\ refresh.snap.seq \in Nat /\ cfg.issued \in Nat /\ refresh.now.issued \in Nat
        /\ start.settings.issued \in Nat /\ server.seq \in Nat
    BY <1>1, <1>7 DEF FallbackTypes, CopyBooks, SavedSettings
  <2>4. server'.seq <= Cardinality(BillsMade)'
    BY <1>3, <1>7, <2>2, <2>3 DEF SeriesShort
  <2>5. QED
    BY <1>2, <1>7, <2>2, <2>3, <2>4 DEF SeriesShort
<1>14. QED
  BY <1>9, <1>10, <1>11, <1>12, <1>13 DEF Sound


-----------------------------------------------------------------------------
(* A request served at the copy, while selling offline.                    *)

LEMMA CopyServedSound ==
    ASSUME FallbackInv, CopyServes
    PROVE  Sound'
<1> DEFINE op == req.op
           b == req.bill
           row == copy.book[b]
           new == ServedRow(row, copy.seq, op, "offline")
<1>1. /\ server \in ServerBooks /\ server.book \in [Bills -> Rows] /\ server.seq \in Nat
      /\ copy \in CopyBooks /\ copy.book \in [Bills -> Rows] /\ copy.seq \in Nat
      /\ refresh.snap \in CopyBooks /\ "offline" \in Places
      /\ op \in Operations /\ b \in Bills /\ req.at = "offline"
  <2>1. req.at = "offline" /\ req \in Asked \cup {NoRequest} /\ NoRequest.at # "offline"
    BY DEF CopyServes, FallbackInv, FallbackTypes, NoRequest
  <2>2. op \in Operations /\ b \in Bills
    BY <2>1 DEF Asked, Operations
  <2>3. QED
    BY <2>1, <2>2 DEF FallbackInv, FallbackTypes, ServerBooks, CopyBooks, Places
<1> HIDE DEF op, b
<1>2. /\ server' = server /\ cfg' = cfg /\ refresh' = refresh /\ start' = start /\ finish' = finish /\ behind' = behind
      /\ copy' = Serve(copy, op, b, "offline") /\ offline' = offline \union Work(op, b)
      /\ Numbered' = Numbered
  BY DEF CopyServes, Numbered, op, b
<1>3. cfg.active /\ cfg.pending /\ finish.at = "idle" /\ refresh.at # "restoring" /\ Numbered
  BY <1>1 DEF FallbackInv, HandlersApart, CopyServes, Numbered
<1>4. row \in Rows
  BY <1>1
<1>5. /\ \A c \in Bills : copy'.book[c] = IF c = b THEN new ELSE copy.book[c]
      /\ copy'.seq = IF Sells(op) THEN copy.seq + 1 ELSE copy.seq
      /\ copy'.copied = copy.copied
      /\ copy' \in CopyBooks
  <2>1. /\ copy'.book = [copy.book EXCEPT ![b] = new] /\ copy' \in CopyBooks /\ copy'.copied = copy.copied
        /\ copy'.seq = IF Sells(op) THEN copy.seq + 1 ELSE copy.seq
    BY <1>1, <1>2, ServeWrites
  <2>2. QED
    BY <1>1, <2>1
<1>6. /\ Sells(op) => Fresh(b) /\ new.no = copy.seq + 1 /\ new.returns = {} /\ RowAgrees(new)
                      /\ new.payments \subseteq {"offline"}
      /\ ~Sells(op) => On(copy, b) /\ new.no = row.no /\ ~new.owed
      /\ op = "cash" => new.payments = {"offline"}
      /\ op = "pay" => row.owed /\ new.payments = row.payments \union {"offline"} /\ new.returns = row.returns
      /\ op = "return" => row.returns = {} /\ new.payments = row.payments /\ new.returns = {"offline"}
  <2>1. Servable(copy, op, b)
    BY DEF CopyServes, op, b
  <2>2. Sells(op) => Fresh(b)
    BY <2>1 DEF Servable, Sells
  <2>3. ~Sells(op) => On(copy, b) /\ (op = "pay" => row.owed) /\ (op = "return" => row.returns = {})
    BY <1>1, <2>1 DEF Servable, Sells, Operations
  <2>4. Sells(op) => RowAgrees(new) /\ new.payments \subseteq {"offline"}
    BY DEF RowAgrees, ServedRow, Sells
  <2>5. QED
    BY <1>1, <1>4, <2>2, <2>3, <2>4, ServedRowSays DEF Sells
<1> HIDE DEF new
<1>7. Grows(copy, copy')
  <2>1. Sells(op) <=> ~On(copy, b)
    BY <1>6 DEF Fresh
  <2>2. QED
    BY <1>1, <1>2, <2>1, ServeGrows
<1>8. \A c \in Bills : On(copy, c)' <=> On(copy, c) \/ (Sells(op) /\ c = b)
  BY <1>1, <1>5, <1>6 DEF On
<1>9. BooksSound /\ WorkSound /\ SeriesShort /\ FallbackTypes /\ (~behind => NumbersSound)
  BY DEF FallbackInv
<1>10. ASSUME Sells(op)
       PROVE  ~On(server, b) /\ ~On(copy, b) /\ <<"sale", b>> \notin offline /\ <<"sale", b>> \notin copy.copied
  BY <1>1, <1>6, <1>9, <1>10 DEF Fresh, BooksSound, AgreesWithServer
<1>11. /\ op = "pay" => <<"sale", b>> \notin copy.copied
       /\ op = "return" => <<"return", b>> \notin copy.copied
  BY <1>1, <1>6, <1>9 DEF BooksSound, AgreesWithServer
<1>12. \A c \in Bills : On(server, c)' <=> On(server, c)
  BY <1>2 DEF On
<1>13. BooksSound'
  <2>1. NumbersWithin(copy)'
    <3> SUFFICES ASSUME NEW c \in Bills
                 PROVE  /\ On(copy', c) => copy'.book[c].no <= copy'.seq
                        /\ ~On(copy', c) => copy'.book[c] = NoBill
      BY DEF NumbersWithin
    <3>1. /\ On(copy, c) => copy.book[c].no <= copy.seq
          /\ ~On(copy, c) => copy.book[c] = NoBill
          /\ copy.book[c].no \in Nat
      BY <1>1, <1>9 DEF BooksSound, NumbersWithin, Rows
    <3>2. On(copy', c) <=> On(copy, c) \/ (Sells(op) /\ c = b)
      BY <1>8 DEF On
    <3>3. QED
      BY <1>1, <1>5, <1>6, <3>1, <3>2
  <2>2. AgreesWithServer(copy)'
    <3> SUFFICES ASSUME NEW c \in Bills
                 PROVE  /\ On(copy', c) /\ On(server, c) => copy'.book[c].no = server.book[c].no
                        /\ <<"sale", c>> \in copy.copied =>
                              /\ On(copy', c) /\ On(server, c) /\ ~copy'.book[c].owed /\ ~server.book[c].owed
                              /\ copy'.book[c].payments = {}
                        /\ <<"return", c>> \in copy.copied =>
                              /\ <<"sale", c>> \in copy.copied
                              /\ copy'.book[c].returns \subseteq server.book[c].returns
                              /\ copy'.book[c].returns # {}
      BY <1>2, <1>5 DEF AgreesWithServer, On
    <3>1. /\ On(copy, c) /\ On(server, c) => copy.book[c].no = server.book[c].no
          /\ <<"sale", c>> \in copy.copied =>
                /\ On(copy, c) /\ On(server, c) /\ ~copy.book[c].owed /\ ~server.book[c].owed
                /\ copy.book[c].payments = {}
          /\ <<"return", c>> \in copy.copied =>
                /\ <<"sale", c>> \in copy.copied
                /\ copy.book[c].returns \subseteq server.book[c].returns
                /\ copy.book[c].returns # {}
      BY <1>9 DEF BooksSound, AgreesWithServer
    <3>2. On(copy', c) <=> On(copy, c) \/ (Sells(op) /\ c = b)
      BY <1>8 DEF On
    <3>3. CASE c # b
      BY <1>5, <3>1, <3>2, <3>3
    <3>4. CASE c = b /\ Sells(op)
      BY <1>10, <3>1, <3>4
    <3>5. CASE c = b /\ ~Sells(op)
      <4>1. op = "pay" \/ op = "return"
        BY <1>1, <3>5 DEF Operations, Sells
      <4>2. copy'.book[c] = new /\ On(copy, b) /\ On(copy', c)
        BY <1>5, <1>6, <3>2, <3>5
      <4>3. CASE op = "pay"
        BY <1>6, <1>11, <3>1, <3>5, <4>2, <4>3
      <4>4. CASE op = "return"
        BY <1>6, <1>11, <3>1, <3>5, <4>2, <4>4
      <4>5. QED
        BY <4>1, <4>3, <4>4
    <3>6. QED
      BY <3>3, <3>4, <3>5
  <2>3. \A c \in Bills : On(copy, c)' /\ <<"sale", c>> \notin copy'.copied => <<"sale", c>> \in offline'
    <3>1. Sells(op) => <<"sale", b>> \in Work(op, b)
      BY DEF Sells, Work
    <3>2. QED
      BY <1>2, <1>5, <1>8, <1>9, <3>1 DEF BooksSound
  <2>4. NumbersWithin(server)' /\ NumbersWithin(refresh.snap)' /\ AgreesWithServer(refresh.snap)'
    BY <1>2, <1>9 DEF BooksSound, NumbersWithin, AgreesWithServer, On
  <2>5. \A c \in Bills : On(refresh.snap, c)' => <<"sale", c>> \in refresh'.snap.copied
    BY <1>2, <1>9 DEF BooksSound, On
  <2>6. QED
    BY <2>1, <2>2, <2>3, <2>4, <2>5 DEF BooksSound
<1>14. WorkSound'
  <2>1. ASSUME NEW w \in offline, InBooks(copy, w)
        PROVE  InBooks(copy, w)'
    <3>1. PICK kind \in {"sale", "payment", "return"}, c \in Bills : w = <<kind, c>>
      BY <1>9 DEF FallbackTypes
    <3>2. w[1] = kind /\ w[2] = c
      BY <3>1
    <3>3. ~On(copy, c) => copy.book[c] = NoBill
      BY <1>9 DEF BooksSound, NumbersWithin
    <3>4. "offline" \notin NoBill.payments /\ "offline" \notin NoBill.returns
      BY DEF NoBill
    <3>5. On(copy, c)
      BY <2>1, <3>2, <3>3, <3>4 DEF InBooks
    <3>6. QED
      BY <1>7, <1>8, <2>1, <3>2, <3>5 DEF InBooks, Grows
  <2>2. ASSUME NEW w \in Work(op, b)
        PROVE  InBooks(copy, w)'
    <3>1. copy'.book[b] = new /\ copy'.book[b].no # 0
      <4>1. copy'.book[b] = new
        BY <1>1, <1>5
      <4>2. Sells(op) \/ On(copy, b)
        BY <1>6
      <4>3. QED
        BY <1>1, <1>8, <4>1, <4>2 DEF On
    <3>2. CASE op = "cash"
      <4>1. w = <<"sale", b>> \/ w = <<"payment", b>>
        BY <2>2, <3>2 DEF Work
      <4>2. "offline" \in copy'.book[b].payments
        BY <1>6, <3>1, <3>2
      <4>3. CASE w = <<"sale", b>>
        BY <3>1, <4>3 DEF InBooks, On
      <4>4. CASE w = <<"payment", b>>
        BY <4>2, <4>4 DEF InBooks
      <4>5. QED
        BY <4>1, <4>3, <4>4
    <3>3. CASE op = "credit"
      <4>1. w = <<"sale", b>>
        BY <2>2, <3>3 DEF Work
      <4>2. QED
        BY <3>1, <4>1 DEF InBooks, On
    <3>4. CASE op = "pay"
      <4>1. w = <<"payment", b>>
        BY <2>2, <3>4 DEF Work
      <4>2. "offline" \in copy'.book[b].payments
        BY <1>6, <3>1, <3>4
      <4>3. QED
        BY <4>1, <4>2 DEF InBooks
    <3>5. CASE op = "return"
      BY <1>6, <2>2, <3>1, <3>5 DEF Work, InBooks
    <3>6. QED
      BY <1>1, <3>2, <3>3, <3>4, <3>5 DEF Operations
  <2>3. \A w \in offline : InBooks(server, w) => InBooks(server, w)'
    BY <1>2 DEF InBooks, On
  <2>4. OfflineWorkKept'
    BY <1>2, <1>3, <1>9, <2>1, <2>2, <2>3 DEF OfflineWorkKept, WorkSound
  <2>5. QED
    BY <1>2, <1>3, <2>4 DEF WorkSound
<1>15. ASSUME ~behind'
       PROVE  NumbersSound'
  <2>1. NumbersSound /\ server.seq <= copy.seq
    BY <1>2, <1>3, <1>9, <1>15 DEF NumbersSound
  <2>2. \A c \in Bills : On(copy, c) => copy.book[c].no \in Nat /\ copy.book[c].no < copy.seq + 1
    BY <1>1, <1>9 DEF BooksSound, NumbersWithin, Rows
  <2>3. \A c \in Bills : On(server, c) => server.book[c].no \in Nat /\ server.book[c].no < copy.seq + 1
    <3>1. \A c \in Bills : On(server, c) => server.book[c].no \in Nat /\ server.book[c].no <= server.seq
      BY <1>1, <1>9 DEF BooksSound, NumbersWithin, Rows
    <3>2. QED
      BY <1>1, <2>1, <3>1
  <2>4. ASSUME NEW c \in Bills, On(copy, c)'
        PROVE  \/ On(copy, c) /\ copy'.book[c].no = copy.book[c].no
               \/ Sells(op) /\ c = b /\ copy'.book[c].no = copy.seq + 1
    BY <1>5, <1>6, <1>8, <2>4
  <2>5. \A c, d \in Bills : c # d /\ On(copy, c)' /\ On(copy, d)' => copy'.book[c].no # copy'.book[d].no
    <3> SUFFICES ASSUME NEW c \in Bills, NEW d \in Bills, c # d, On(copy, c)', On(copy, d)'
                 PROVE  copy'.book[c].no # copy'.book[d].no
      OBVIOUS
    <3>1. On(copy, c) /\ On(copy, d) => copy.book[c].no # copy.book[d].no
      BY <2>1 DEF NumbersSound
    <3>2. QED
      BY <1>1, <2>2, <2>4, <3>1
  <2>6. \A c, d \in Bills : c # d /\ On(server, c) /\ On(copy, d)' => server.book[c].no # copy'.book[d].no
    <3> SUFFICES ASSUME NEW c \in Bills, NEW d \in Bills, c # d, On(server, c), On(copy, d)'
                 PROVE  server.book[c].no # copy'.book[d].no
      OBVIOUS
    <3>1. On(copy, d) => server.book[c].no # copy.book[d].no
      BY <2>1 DEF NumbersSound, NumbersUsedOnce
    <3>2. QED
      BY <1>1, <2>3, <2>4, <3>1
  <2>7. server'.seq <= copy'.seq
    BY <1>1, <1>2, <1>5, <2>1
  <2>8. \A c, d \in Bills : c # d /\ On(server, c) /\ On(server, d) => server.book[c].no # server.book[d].no
    BY <2>1 DEF NumbersSound
  <2>9. QED
    BY <1>2, <2>5, <2>6, <2>7, <2>8 DEF NumbersSound, NumbersUsedOnce, On
<1>16. ASSUME "resend" \notin Races
       PROVE  RowsSound'
  <2>1. RowsSound
    BY <1>16 DEF FallbackInv
  <2>2. ~(b \in SalesOf(copy) /\ On(server, b))
    BY <1>16 DEF CopyServes, b
  <2>3. ASSUME NEW c \in Bills, On(copy, c)', <<"sale", c>> \notin copy.copied
        PROVE  /\ RowAgrees(copy'.book[c])
               /\ copy'.book[c].payments \subseteq {"offline"} /\ copy'.book[c].returns \subseteq {"offline"}
               /\ On(server, c) => /\ copy'.book[c].payments \subseteq server.book[c].payments
                                   /\ copy'.book[c].returns \subseteq server.book[c].returns
    <3>1. CASE c # b
      BY <1>5, <1>8, <2>1, <2>3, <3>1 DEF RowsSound
    <3>2. CASE c = b /\ Sells(op)
      BY <1>5, <1>6, <1>10, <3>2
    <3>3. CASE c = b /\ ~Sells(op)
      <4>1. /\ RowAgrees(row) /\ row.payments \subseteq {"offline"} /\ row.returns \subseteq {"offline"}
            /\ ~On(server, b)
        BY <1>6, <2>1, <2>2, <2>3, <3>3 DEF RowsSound, SalesOf
      <4>2. op = "pay" \/ op = "return"
        BY <1>1, <3>3 DEF Operations, Sells
      <4>3. copy'.book[c] = new
        BY <1>5, <3>3
      <4>4. RowAgrees(new) /\ new.payments \subseteq {"offline"} /\ new.returns \subseteq {"offline"}
        BY <1>6, <3>3, <4>1, <4>2 DEF RowAgrees
      <4>5. QED
        BY <3>3, <4>1, <4>3, <4>4
    <3>4. QED
      BY <3>1, <3>2, <3>3
  <2>4. ASSUME NEW c \in Bills, <<"sale", c>> \in copy.copied, <<"return", c>> \notin copy.copied
        PROVE  copy'.book[c].returns \subseteq {"offline"}
    <3>1. copy.book[c].returns \subseteq {"offline"}
      BY <2>1, <2>4 DEF RowsSound
    <3>2. CASE c = b /\ Sells(op)
      BY <1>10, <2>4, <3>2
    <3>3. CASE c = b /\ ~Sells(op)
      <4>1. op = "pay" \/ op = "return"
        BY <1>1, <3>3 DEF Operations, Sells
      <4>2. QED
        BY <1>5, <1>6, <3>1, <3>3, <4>1
    <3>4. CASE c # b
      BY <1>5, <3>1, <3>4
    <3>5. QED
      BY <3>2, <3>3, <3>4
  <2>5. \A c \in Bills : On(server, c)' => RowAgrees(server.book[c])'
    BY <1>2, <1>12, <2>1 DEF RowsSound, RowAgrees
  <2>6. \A c \in Bills : On(copy, c)' /\ <<"sale", c>> \notin copy'.copied =>
          /\ RowAgrees(copy.book[c])'
          /\ copy'.book[c].payments \subseteq {"offline"} /\ copy'.book[c].returns \subseteq {"offline"}
          /\ On(server, c)' => /\ copy'.book[c].payments \subseteq server'.book[c].payments
                               /\ copy'.book[c].returns \subseteq server'.book[c].returns
    BY <1>2, <1>5, <1>12, <2>3 DEF RowAgrees
  <2>7. QED
    BY <1>2, <1>5, <2>1, <2>4, <2>5, <2>6 DEF RowsSound
<1>17. SeriesShort'
  <2>1. BillsMade \subseteq BillsMade' /\ (Sells(op) => b \in BillsMade' /\ b \notin BillsMade)
    <3>1. Sells(op) => <<"sale", b>> \in Work(op, b)
      BY DEF Sells, Work
    <3>2. QED
      BY <1>1, <1>2, <1>10, <1>12, <3>1 DEF BillsMade
  <2>2. /\ Cardinality(BillsMade)' \in Nat /\ Cardinality(BillsMade) <= Cardinality(BillsMade)'
        /\ Sells(op) => Cardinality(BillsMade) + 1 <= Cardinality(BillsMade)'
        /\ Cardinality(BillsMade) \in Nat
    BY <2>1, MoreBillsMade, BillsMadeFinite
  <2>3. /\ copy.seq \in Nat /\ refresh.snap.seq \in Nat /\ cfg.issued \in Nat /\ refresh.now.issued \in Nat
        /\ start.settings.issued \in Nat /\ server.seq \in Nat
    BY <1>1, <1>9 DEF FallbackTypes, CopyBooks, SavedSettings
  <2>4. copy'.seq <= Cardinality(BillsMade)'
    BY <1>5, <1>9, <2>2, <2>3 DEF SeriesShort
  <2>5. QED
    BY <1>2, <1>9, <2>2, <2>3, <2>4 DEF SeriesShort
<1>18. QED
  BY <1>13, <1>14, <1>15, <1>16, <1>17 DEF Sound


-----------------------------------------------------------------------------
(* The server takes what was done offline.                                 *)

LEMMA AddedRows ==
    ASSUME FallbackTypes
    PROVE  /\ Added(copy).seq \in Nat /\ Added(copy).seq >= server.seq /\ Added(copy).seq >= copy.seq
           /\ Added(copy).seq = server.seq \/ Added(copy).seq = copy.seq
           /\ Added(copy) \in ServerBooks
           /\ \A c \in Bills :
                LET old == server.book[c]
                    out == copy.book[c]
                    new == Added(copy).book[c]
                IN  /\ c \in SalesOf(copy) /\ ~On(server, c) => new = out
                    /\ ~(c \in SalesOf(copy) /\ ~On(server, c)) =>
                         /\ new.no = old.no /\ new.owed = old.owed
                         /\ new.payments = IF c \in SalesOf(copy) THEN old.payments \union out.payments
                                                                  ELSE old.payments
                         /\ new.returns = IF c \in SalesOf(copy) \/ c \in ReturnsOf(copy)
                                          THEN old.returns \union out.returns ELSE old.returns
<1>1. /\ server \in ServerBooks /\ server.book \in [Bills -> Rows] /\ server.seq \in Nat
      /\ copy \in CopyBooks /\ copy.book \in [Bills -> Rows] /\ copy.seq \in Nat
  BY DEF FallbackTypes, ServerBooks, CopyBooks
<1> DEFINE added == Added(copy)
<1>2. added.seq = Max({server.seq, copy.seq})
  BY DEF Added
<1>3. ASSUME NEW c \in Bills
      PROVE  /\ c \in SalesOf(copy) /\ ~On(server, c) => added.book[c] = copy.book[c]
             /\ c \in SalesOf(copy) /\ On(server, c) =>
                  added.book[c] = [server.book[c] EXCEPT !.payments = @ \union copy.book[c].payments,
                                                         !.returns  = @ \union copy.book[c].returns]
             /\ c \notin SalesOf(copy) /\ c \in ReturnsOf(copy) =>
                  added.book[c] = [server.book[c] EXCEPT !.returns = @ \union copy.book[c].returns]
             /\ c \notin SalesOf(copy) /\ c \notin ReturnsOf(copy) => added.book[c] = server.book[c]
  <2>0. c \in SalesOf(copy) => c \notin ReturnsOf(copy)
    BY DEF SalesOf, ReturnsOf
  <2>1. CASE c \in SalesOf(copy) /\ ~On(server, c)
    BY <2>0, <2>1 DEF Added
  <2>2. CASE c \in SalesOf(copy) /\ On(server, c)
    BY <2>0, <2>2 DEF Added
  <2>3. CASE c \notin SalesOf(copy) /\ c \in ReturnsOf(copy)
    BY <2>3 DEF Added
  <2>4. CASE c \notin SalesOf(copy) /\ c \notin ReturnsOf(copy)
    BY <2>4 DEF Added
  <2>5. QED
    BY <2>1, <2>2, <2>3, <2>4
<1>4. added = [book |-> added.book, seq |-> added.seq] /\ added.book = [c \in Bills |-> added.book[c]]
  BY DEF Added
<1> HIDE DEF added
<1>5. ASSUME NEW c \in Bills
      PROVE  /\ added.book[c] \in Rows
             /\ c \in SalesOf(copy) /\ ~On(server, c) => added.book[c] = copy.book[c]
             /\ ~(c \in SalesOf(copy) /\ ~On(server, c)) =>
                  /\ added.book[c].no = server.book[c].no /\ added.book[c].owed = server.book[c].owed
                  /\ added.book[c].payments = IF c \in SalesOf(copy)
                                              THEN server.book[c].payments \union copy.book[c].payments
                                              ELSE server.book[c].payments
                  /\ added.book[c].returns = IF c \in SalesOf(copy) \/ c \in ReturnsOf(copy)
                                             THEN server.book[c].returns \union copy.book[c].returns
                                             ELSE server.book[c].returns
  <2>1. server.book[c] \in Rows /\ copy.book[c] \in Rows
    BY <1>1
  <2>2. CASE c \in SalesOf(copy) /\ ~On(server, c)
    BY <1>3, <2>1, <2>2
  <2>3. CASE c \in SalesOf(copy) /\ On(server, c)
    <3>1. added.book[c] = [server.book[c] EXCEPT !.payments = @ \union copy.book[c].payments,
                                                 !.returns  = @ \union copy.book[c].returns]
      BY <1>3, <2>3
    <3>2. QED
      BY <2>1, <2>3, <3>1 DEF Rows
  <2>4. CASE c \notin SalesOf(copy) /\ c \in ReturnsOf(copy)
    <3>1. added.book[c] = [server.book[c] EXCEPT !.returns = @ \union copy.book[c].returns]
      BY <1>3, <2>4
    <3>2. QED
      BY <2>1, <2>4, <3>1 DEF Rows
  <2>5. CASE c \notin SalesOf(copy) /\ c \notin ReturnsOf(copy)
    BY <1>3, <2>1, <2>5
  <2>6. QED
    BY <2>2, <2>3, <2>4, <2>5
<1>6. /\ added.seq \in Nat /\ added.seq >= server.seq /\ added.seq >= copy.seq
      /\ added.seq = server.seq \/ added.seq = copy.seq
  BY <1>1, <1>2, LargerOf
<1>7. added.book \in [Bills -> Rows]
  BY <1>4, <1>5
<1>8. added \in ServerBooks
  BY <1>4, <1>6, <1>7 DEF ServerBooks
<1>9. QED
  BY <1>5, <1>6, <1>8 DEF added

LEMMA ServerTakesSound ==
    ASSUME FallbackInv, ServerSyncs, ~Clashes(finish.outbox)
    PROVE  Sound'
<1>1. /\ server' = Added(copy) /\ finish.at = "sending" /\ finish'.at = "taken" /\ ~Clashes(copy)
      /\ copy' = copy /\ cfg' = cfg /\ refresh' = refresh /\ start' = start /\ offline' = offline /\ behind' = behind
      /\ Numbered' = Numbered
  BY DEF ServerSyncs, FallbackInv, HandlersApart, FallbackTypes, Numbered
<1>2. BooksSound /\ WorkSound /\ SeriesShort /\ FallbackTypes /\ HandlersApart /\ (~behind => NumbersSound)
  BY DEF FallbackInv
<1>3. /\ server.book \in [Bills -> Rows] /\ server.seq \in Nat
      /\ copy \in CopyBooks /\ copy.book \in [Bills -> Rows] /\ copy.seq \in Nat
      /\ refresh.snap \in CopyBooks
  BY <1>2 DEF FallbackTypes, ServerBooks, CopyBooks
<1> DEFINE landed(c) == c \in SalesOf(copy) /\ ~On(server, c)
<1>4. /\ server'.seq \in Nat /\ server'.seq >= server.seq /\ server'.seq >= copy.seq
      /\ server'.seq = server.seq \/ server'.seq = copy.seq
  BY <1>1, <1>2, AddedRows
<1>5. \A c \in Bills :
        /\ landed(c) => server'.book[c] = copy.book[c]
        /\ ~landed(c) =>
             /\ server'.book[c].no = server.book[c].no /\ server'.book[c].owed = server.book[c].owed
             /\ server'.book[c].payments = IF c \in SalesOf(copy)
                                           THEN server.book[c].payments \union copy.book[c].payments
                                           ELSE server.book[c].payments
             /\ server'.book[c].returns = IF c \in SalesOf(copy) \/ c \in ReturnsOf(copy)
                                          THEN server.book[c].returns \union copy.book[c].returns
                                          ELSE server.book[c].returns
        /\ server'.book[c] \in Rows
  BY <1>1, <1>2, AddedRows DEF ServerBooks
<1>6. \A c \in Bills : /\ c \in SalesOf(copy) <=> On(copy, c) /\ <<"sale", c>> \notin copy.copied
                       /\ c \in ReturnsOf(copy) <=> /\ copy.book[c].returns # {}
                                                    /\ <<"sale", c>> \in copy.copied
                                                    /\ <<"return", c>> \notin copy.copied
  BY DEF SalesOf, ReturnsOf
<1>7. \A c \in Bills : /\ On(copy, c) /\ On(server, c) => copy.book[c].no = server.book[c].no
                       /\ <<"sale", c>> \in copy.copied =>
                            On(copy, c) /\ On(server, c) /\ ~server.book[c].owed /\ copy.book[c].payments = {}
                       /\ <<"return", c>> \in copy.copied =>
                            <<"sale", c>> \in copy.copied /\ copy.book[c].returns \subseteq server.book[c].returns
                       /\ ~On(copy, c) => copy.book[c] = NoBill
                       /\ ~On(server, c) => server.book[c] = NoBill
  BY <1>2 DEF BooksSound, AgreesWithServer, NumbersWithin
<1>8. \A c \in Bills : On(server, c)' <=> On(server, c) \/ landed(c)
  BY <1>3, <1>5, <1>6 DEF On
<1>9. Grows(server, server')
  BY <1>4, <1>5 DEF Grows
<1>10. \A c \in Bills : On(copy, c) => On(server, c)'
  BY <1>6, <1>7, <1>8
<1>11. \A c \in Bills : On(copy, c)' <=> On(copy, c)
  BY <1>1 DEF On
<1>12. ASSUME NEW c \in Bills, On(server, c)'
       PROVE  \/ On(server, c) /\ ~landed(c) /\ server'.book[c].no = server.book[c].no
              \/ landed(c) /\ On(copy, c) /\ server'.book[c].no = copy.book[c].no
  BY <1>5, <1>6, <1>8, <1>12
<1>13. BooksSound'
  <2>1. NumbersWithin(server)'
    <3> SUFFICES ASSUME NEW c \in Bills
                 PROVE  /\ On(server', c) => server'.book[c].no <= server'.seq
                        /\ ~On(server', c) => server'.book[c] = NoBill
      BY DEF NumbersWithin
    <3>1. /\ On(server, c) => server.book[c].no <= server.seq
          /\ On(copy, c) => copy.book[c].no <= copy.seq
          /\ server.book[c].no \in Nat /\ copy.book[c].no \in Nat
      BY <1>2, <1>3 DEF BooksSound, NumbersWithin, Rows
    <3>2. On(server', c) => server'.book[c].no <= server'.seq
      BY <1>3, <1>4, <1>12, <3>1 DEF On
    <3>3. ASSUME ~On(server', c)
          PROVE  server'.book[c] = NoBill
      <4>1. ~On(server, c) /\ ~landed(c) /\ ~On(copy, c)
        BY <1>8, <1>10, <3>3 DEF On
      <4>2. c \notin SalesOf(copy) /\ c \notin ReturnsOf(copy) /\ server.book[c] = NoBill
        BY <1>6, <1>7, <4>1
      <4>3. /\ server'.book[c].no = server.book[c].no /\ server'.book[c].owed = server.book[c].owed
            /\ server'.book[c].payments = server.book[c].payments /\ server'.book[c].returns = server.book[c].returns
        BY <1>5, <4>1, <4>2
      <4>4. server.book[c] \in Rows /\ server'.book[c] \in Rows
        BY <1>3, <1>5
      <4>5. QED
        BY <4>2, <4>3, <4>4, SameRow
    <3>4. QED
      BY <3>2, <3>3
  <2>2. /\ \A c \in Bills : On(copy, c) /\ ~On(server, c) /\ On(server, c)' => server'.book[c].no = copy.book[c].no
        /\ \A c \in Bills : On(refresh.snap, c) /\ ~On(server, c) /\ On(server, c)'
                              => server'.book[c].no = refresh.snap.book[c].no
    BY <1>2, <1>12 DEF BooksSound, AgreesWithServer
  <2>3. AgreesWithServer(copy) /\ AgreesWithServer(refresh.snap)
    BY <1>2 DEF BooksSound
  <2>4. AgreesWithServer(copy)'
    <3>1. /\ \A c \in Bills : On(copy, c) /\ On(server, c)' => copy.book[c].no = server'.book[c].no
          /\ \A c \in Bills : <<"sale", c>> \in copy.copied =>
               /\ On(copy, c) /\ On(server, c)' /\ ~copy.book[c].owed /\ ~server'.book[c].owed
               /\ copy.book[c].payments = {}
          /\ \A c \in Bills : <<"return", c>> \in copy.copied =>
               /\ <<"sale", c>> \in copy.copied /\ copy.book[c].returns \subseteq server'.book[c].returns
               /\ copy.book[c].returns # {}
      BY <1>3, <1>9, <2>2, <2>3, GainsKeepAgreement
    <3>2. QED
      BY <1>1, <3>1 DEF AgreesWithServer, On
  <2>5. AgreesWithServer(refresh.snap)'
    <3>1. /\ \A c \in Bills : On(refresh.snap, c) /\ On(server, c)' => refresh.snap.book[c].no = server'.book[c].no
          /\ \A c \in Bills : <<"sale", c>> \in refresh.snap.copied =>
               /\ On(refresh.snap, c) /\ On(server, c)' /\ ~refresh.snap.book[c].owed /\ ~server'.book[c].owed
               /\ refresh.snap.book[c].payments = {}
          /\ \A c \in Bills : <<"return", c>> \in refresh.snap.copied =>
               /\ <<"sale", c>> \in refresh.snap.copied /\ refresh.snap.book[c].returns \subseteq server'.book[c].returns
               /\ refresh.snap.book[c].returns # {}
      BY <1>3, <1>9, <2>2, <2>3, GainsKeepAgreement
    <3>2. QED
      BY <1>1, <3>1 DEF AgreesWithServer, On
  <2>6. QED
    BY <1>1, <1>2, <2>1, <2>4, <2>5 DEF BooksSound, NumbersWithin, On
<1>14. WorkSound'
  <2>1. \A w \in offline : InBooks(server, w) => InBooks(server, w)'
    BY <1>2, <1>9, GainsKeepWork DEF BooksSound
  <2>2. ASSUME NEW w \in offline, InBooks(copy, w)
        PROVE  InBooks(server, w)'
    <3>1. PICK kind \in {"sale", "payment", "return"}, c \in Bills : w = <<kind, c>>
      BY <1>2 DEF FallbackTypes
    <3>2. w[1] = kind /\ w[2] = c
      BY <3>1
    <3>3. "offline" \notin NoBill.payments /\ "offline" \notin NoBill.returns
      BY DEF NoBill
    <3>4. CASE kind = "sale"
      BY <1>10, <2>2, <3>2, <3>4 DEF InBooks, On
    <3>5. CASE kind = "payment"
      <4>1. "offline" \in copy.book[c].payments
        BY <2>2, <3>2, <3>5 DEF InBooks
      <4>2. c \in SalesOf(copy)
        BY <1>6, <1>7, <3>3, <4>1
      <4>3. "offline" \in server'.book[c].payments
        BY <1>5, <4>1, <4>2
      <4>4. QED
        BY <3>2, <3>5, <4>3 DEF InBooks
    <3>6. CASE kind = "return"
      <4>1. "offline" \in copy.book[c].returns
        BY <2>2, <3>2, <3>6 DEF InBooks
      <4>2. On(copy, c)
        BY <1>7, <3>3, <4>1
      <4>3. "offline" \in server'.book[c].returns
        <5>1. CASE <<"return", c>> \in copy.copied
          BY <1>5, <1>6, <1>7, <4>1, <5>1
        <5>2. CASE <<"return", c>> \notin copy.copied
          BY <1>5, <1>6, <4>1, <4>2, <5>2
        <5>3. QED
          BY <5>1, <5>2
      <4>4. QED
        BY <3>2, <3>6, <4>3 DEF InBooks
    <3>7. QED
      BY <3>4, <3>5, <3>6
  <2>3. \A w \in offline : InBooks(server, w)'
    BY <1>1, <1>2, <2>1, <2>2 DEF WorkSound, OfflineWorkKept
  <2>4. OfflineWorkKept'
    BY <1>1, <2>3 DEF OfflineWorkKept
  <2>5. QED
    BY <1>1, <1>10, <1>11, <2>3, <2>4 DEF WorkSound
<1>15. ASSUME ~behind'
       PROVE  NumbersSound'
  <2>1. NumbersSound
    BY <1>1, <1>2, <1>15
  <2>2. \A c, d \in Bills : landed(c) /\ On(server, d) => server.book[d].no # copy.book[c].no
    <3> SUFFICES ASSUME NEW c \in Bills, NEW d \in Bills, landed(c), On(server, d)
                 PROVE  server.book[d].no # copy.book[c].no
      OBVIOUS
    <3>1. c # d /\ On(copy, c)
      BY <1>6
    <3>2. QED
      BY <2>1, <3>1 DEF NumbersSound, NumbersUsedOnce
  <2>3. \A c, d \in Bills : c # d /\ On(server, c)' /\ On(server, d)' => server'.book[c].no # server'.book[d].no
    <3> SUFFICES ASSUME NEW c \in Bills, NEW d \in Bills, c # d, On(server, c)', On(server, d)'
                 PROVE  server'.book[c].no # server'.book[d].no
      OBVIOUS
    <3>1. /\ On(server, c) /\ On(server, d) => server.book[c].no # server.book[d].no
          /\ On(copy, c) /\ On(copy, d) => copy.book[c].no # copy.book[d].no
      BY <2>1 DEF NumbersSound
    <3>2. QED
      BY <1>12, <2>2, <3>1
  <2>4. \A c, d \in Bills : c # d /\ On(server, c)' /\ On(copy, d) => server'.book[c].no # copy.book[d].no
    <3> SUFFICES ASSUME NEW c \in Bills, NEW d \in Bills, c # d, On(server, c)', On(copy, d)
                 PROVE  server'.book[c].no # copy.book[d].no
      OBVIOUS
    <3>1. /\ On(server, c) => server.book[c].no # copy.book[d].no
          /\ On(copy, c) => copy.book[c].no # copy.book[d].no
      BY <2>1 DEF NumbersSound, NumbersUsedOnce
    <3>2. QED
      BY <1>12, <3>1
  <2>5. Numbered' => server'.seq <= copy'.seq
    BY <1>1, <1>3, <1>4, <2>1 DEF NumbersSound
  <2>6. \A c, d \in Bills : c # d /\ On(copy, c) /\ On(copy, d) => copy.book[c].no # copy.book[d].no
    BY <2>1 DEF NumbersSound
  <2>7. QED
    BY <1>1, <2>3, <2>4, <2>5, <2>6 DEF NumbersSound, NumbersUsedOnce, On
<1>16. ASSUME "resend" \notin Races
       PROVE  RowsSound'
  <2>1. RowsSound
    BY <1>16 DEF FallbackInv
  <2>2. ASSUME NEW c \in Bills, On(server, c)'
        PROVE  RowAgrees(server'.book[c])
    <3>1. CASE landed(c)
      BY <1>5, <1>6, <2>1, <3>1 DEF RowsSound
    <3>2. CASE ~landed(c)
      <4>1. On(server, c) /\ RowAgrees(server.book[c])
        BY <1>12, <2>1, <2>2, <3>2 DEF RowsSound
      <4>2. CASE c \in SalesOf(copy)
        <5>1. /\ copy.book[c].payments \subseteq server.book[c].payments
              /\ copy.book[c].returns \subseteq server.book[c].returns
          BY <1>6, <2>1, <4>1, <4>2 DEF RowsSound
        <5>2. /\ server'.book[c].owed = server.book[c].owed
              /\ server'.book[c].payments = server.book[c].payments /\ server'.book[c].returns = server.book[c].returns
          BY <1>5, <3>2, <4>2, <5>1
        <5>3. QED
          BY <4>1, <5>2 DEF RowAgrees
      <4>3. CASE c \notin SalesOf(copy) /\ c \in ReturnsOf(copy)
        <5>1. copy.book[c].returns = {"offline"} /\ ~server.book[c].owed
          <6>1. <<"sale", c>> \in copy.copied /\ <<"return", c>> \notin copy.copied /\ copy.book[c].returns # {}
            BY <1>6, <4>3
          <6>2. copy.book[c].returns \subseteq {"offline"}
            BY <2>1, <6>1 DEF RowsSound
          <6>3. QED
            BY <1>7, <6>1, <6>2
        <5>2. "offline" \in server.book[c].returns \/ server.book[c].returns = {}
          BY <1>1, <4>3 DEF Clashes
        <5>3. server'.book[c].owed = server.book[c].owed /\ server'.book[c].payments = server.book[c].payments
          BY <1>5, <3>2, <4>3
        <5>4. server'.book[c].returns = {"offline"}
          <6>1. server'.book[c].returns = server.book[c].returns \cup {"offline"}
            BY <1>5, <3>2, <4>3, <5>1
          <6>2. server.book[c].returns \subseteq {"offline"}
            BY <4>1, <5>2 DEF RowAgrees
          <6>3. QED
            BY <6>1, <6>2
        <5>5. QED
          BY <4>1, <5>1, <5>3, <5>4 DEF RowAgrees
      <4>4. CASE c \notin SalesOf(copy) /\ c \notin ReturnsOf(copy)
        BY <1>5, <3>2, <4>1, <4>4 DEF RowAgrees
      <4>5. QED
        BY <4>2, <4>3, <4>4
    <3>3. QED
      BY <3>1, <3>2
  <2>3. ASSUME NEW c \in Bills, On(copy, c), <<"sale", c>> \notin copy.copied
        PROVE  /\ copy.book[c].payments \subseteq server'.book[c].payments
               /\ copy.book[c].returns \subseteq server'.book[c].returns
    BY <1>5, <1>6, <2>3
  <2>4. \A c \in Bills : On(server, c)' => RowAgrees(server.book[c])'
    BY <2>2 DEF RowAgrees
  <2>5. \A c \in Bills : On(copy, c)' /\ <<"sale", c>> \notin copy'.copied =>
          /\ RowAgrees(copy.book[c])'
          /\ copy'.book[c].payments \subseteq {"offline"} /\ copy'.book[c].returns \subseteq {"offline"}
          /\ On(server, c)' => /\ copy'.book[c].payments \subseteq server'.book[c].payments
                               /\ copy'.book[c].returns \subseteq server'.book[c].returns
    BY <1>1, <1>11, <2>1, <2>3 DEF RowsSound, RowAgrees
  <2>6. QED
    BY <1>1, <2>1, <2>4, <2>5 DEF RowsSound
<1>17. SeriesShort'
  <2>1. BillsMade \subseteq BillsMade'
    BY <1>1, <1>8 DEF BillsMade
  <2>2. /\ Cardinality(BillsMade)' \in Nat /\ Cardinality(BillsMade) <= Cardinality(BillsMade)'
        /\ Cardinality(BillsMade) \in Nat
    BY <2>1, MoreBillsMade, BillsMadeFinite
  <2>3. /\ copy.seq \in Nat /\ refresh.snap.seq \in Nat /\ cfg.issued \in Nat /\ refresh.now.issued \in Nat
        /\ start.settings.issued \in Nat /\ server.seq \in Nat
    BY <1>2, <1>3 DEF FallbackTypes, CopyBooks, SavedSettings
  <2>4. server'.seq <= Cardinality(BillsMade)'
    BY <1>2, <1>4, <2>2, <2>3 DEF SeriesShort
  <2>5. QED
    BY <1>1, <1>2, <2>2, <2>3, <2>4 DEF SeriesShort
<1>18. QED
  BY <1>13, <1>14, <1>15, <1>16, <1>17 DEF Sound


-----------------------------------------------------------------------------
(* The copy replaced by a snapshot, whole, or its series moved on.         *)

LEMMA CopyReplacedSound ==
    ASSUME FallbackInv, refresh.at = "restoring",
           copy' = refresh.snap, refresh' = IdleRefresh,
           behind' = (behind \/ TakesBackNumbers),
           cfg' \in {[refresh.now EXCEPT !.ready = TRUE], cfg},
           start' \in {start, IdleStart}, finish'.at \in {finish.at, "idle"},
           UNCHANGED <<server, offline>>
    PROVE  Sound'
<1>1. BooksSound /\ WorkSound /\ SeriesShort /\ FallbackTypes /\ HandlersApart /\ (~behind => NumbersSound)
  BY DEF FallbackInv
<1>2. /\ server' = server /\ offline' = offline /\ copy' = refresh.snap
      /\ refresh'.snap = EmptyCopy /\ refresh'.at = "idle" /\ refresh'.now = NewSettings
      /\ cfg'.issued \in {cfg.issued, refresh.now.issued}
      /\ cfg'.active => cfg.active
      /\ start'.at = "numbered" => start.at = "numbered"
      /\ start'.settings \in {start.settings, NewSettings}
      /\ finish'.at # "taken"
  <2>1. refresh.now \in SavedSettings /\ cfg \in SavedSettings /\ ~refresh.now.active
    BY <1>1 DEF FallbackTypes, HandlersApart
  <2>2. cfg' = cfg \/ (cfg'.active = refresh.now.active /\ cfg'.issued = refresh.now.issued)
    BY <2>1 DEF SavedSettings
  <2>3. finish.at # "taken"
    BY <1>1 DEF HandlersApart
  <2>4. QED
    BY <2>1, <2>2, <2>3 DEF IdleRefresh, IdleStart
<1>3. \A b \in Bills : ~On(EmptyCopy, b) /\ EmptyCopy.book[b] = NoBill /\ EmptyCopy.copied = {} /\ EmptyCopy.seq = 0
  BY DEF On, EmptyCopy, EmptyBook, NoBill
<1>4. /\ \A b \in Bills : On(copy, b)' <=> On(refresh.snap, b)
      /\ \A b \in Bills : On(server, b)' <=> On(server, b)
      /\ \A b \in Bills : ~On(refresh.snap, b)'
  BY <1>2, <1>3 DEF On
<1>5. \A b \in Bills : On(refresh.snap, b) =>
        /\ <<"sale", b>> \in refresh.snap.copied
        /\ On(server, b) /\ refresh.snap.book[b].no = server.book[b].no
  BY <1>1 DEF BooksSound, AgreesWithServer
<1>6. BooksSound'
  <2>1. NumbersWithin(server)' /\ NumbersWithin(copy)'
    BY <1>1, <1>2 DEF BooksSound, NumbersWithin, On
  <2>2. NumbersWithin(refresh.snap)'
    BY <1>2, <1>3 DEF NumbersWithin, On
  <2>3. AgreesWithServer(copy)'
    BY <1>1, <1>2 DEF BooksSound, AgreesWithServer, On
  <2>4. AgreesWithServer(refresh.snap)'
    BY <1>2, <1>3, <1>4 DEF AgreesWithServer
  <2>5. QED
    BY <1>2, <1>4, <1>5, <2>1, <2>2, <2>3, <2>4 DEF BooksSound
<1>7. WorkSound'
  <2>1. \A w \in offline : InBooks(server, w)
    BY <1>1 DEF WorkSound
  <2>2. OfflineWorkKept'
    BY <1>2, <2>1 DEF OfflineWorkKept, InBooks, On
  <2>3. QED
    BY <1>2, <1>4, <1>5, <2>2 DEF WorkSound
<1>8. ASSUME ~behind'
      PROVE  NumbersSound'
  <2>1. NumbersSound /\ ~TakesBackNumbers
    BY <1>1, <1>8
  <2>2. \A b, c \in Bills : b # c /\ On(server, b) /\ On(refresh.snap, c) => server.book[b].no # refresh.snap.book[c].no
    BY <1>5, <2>1 DEF NumbersSound
  <2>3. \A b, c \in Bills : b # c /\ On(refresh.snap, b) /\ On(refresh.snap, c)
                              => refresh.snap.book[b].no # refresh.snap.book[c].no
    BY <1>5, <2>2
  <2>4. Numbered' => server.seq <= refresh.snap.seq
    <3>1. Numbered' => Numbered
      BY <1>2 DEF Numbered
    <3>2. server.seq \in Nat /\ refresh.snap.seq \in Nat
      BY <1>1 DEF FallbackTypes, ServerBooks, CopyBooks
    <3>3. QED
      BY <2>1, <3>1, <3>2 DEF TakesBackNumbers
  <2>5. QED
    BY <1>2, <2>1, <2>2, <2>3, <2>4 DEF NumbersSound, NumbersUsedOnce, On
<1>9. ASSUME "resend" \notin Races
      PROVE  RowsSound'
  <2>1. RowsSound
    BY <1>9 DEF FallbackInv
  <2>2. \A b \in Bills : On(server, b)' => RowAgrees(server.book[b])'
    BY <1>2, <1>4, <2>1 DEF RowsSound, RowAgrees
  <2>3. \A b \in Bills : On(copy, b)' => <<"sale", b>> \in copy'.copied
    BY <1>2, <1>4, <1>5
  <2>4. QED
    BY <1>2, <1>3, <2>1, <2>2, <2>3 DEF RowsSound
<1>10. SeriesShort'
  <2>1. BillsMade' = BillsMade
    BY <1>2, <1>4 DEF BillsMade
  <2>2. Cardinality(BillsMade) \in Nat
    BY BillsMadeFinite
  <2>3. QED
    BY <1>1, <1>2, <1>3, <2>1, <2>2 DEF SeriesShort, NewSettings, EmptyCopy
<1>11. QED
  BY <1>6, <1>7, <1>8, <1>9, <1>10 DEF Sound

LEMMA CatchesUpSound ==
    ASSUME FallbackInv, StartCatchesUp
    PROVE  Sound'
<1>1. BooksSound /\ WorkSound /\ SeriesShort /\ FallbackTypes /\ HandlersApart /\ (~behind => NumbersSound)
  BY DEF FallbackInv
<1>2. copy \in CopyBooks /\ copy.seq \in Nat /\ cfg.issued \in Nat /\ server.seq \in Nat
  BY <1>1 DEF FallbackTypes, ServerBooks, CopyBooks, SavedSettings
<1>3. /\ server' = server /\ offline' = offline /\ cfg' = cfg /\ refresh' = refresh /\ finish' = finish
      /\ copy'.book = copy.book /\ copy'.copied = copy.copied /\ copy'.seq = Max({copy.seq, cfg.issued})
      /\ start'.settings = start.settings
      /\ behind' = (behind \/ server.seq > Max({copy.seq, cfg.issued}))
  BY <1>1, <1>2 DEF StartCatchesUp, CopyBooks, FallbackTypes
<1>4. /\ copy'.seq \in Nat /\ copy'.seq >= copy.seq /\ (copy'.seq = copy.seq \/ copy'.seq = cfg.issued)
  BY <1>2, <1>3, LargerOf
<1>5. \A b \in Bills : (On(copy, b)' <=> On(copy, b)) /\ (On(server, b)' <=> On(server, b))
  BY <1>3 DEF On
<1>6. BooksSound'
  <2>1. NumbersWithin(copy)'
    <3>1. \A b \in Bills : copy.book[b].no \in Nat
      BY <1>2 DEF CopyBooks, Rows
    <3>2. \A b \in Bills : (On(copy, b) => copy.book[b].no <= copy.seq) /\ (~On(copy, b) => copy.book[b] = NoBill)
      BY <1>1 DEF BooksSound, NumbersWithin
    <3>3. QED
      BY <1>2, <1>3, <1>4, <1>5, <3>1, <3>2 DEF NumbersWithin
  <2>2. AgreesWithServer(copy)'
    BY <1>1, <1>3 DEF BooksSound, AgreesWithServer, On
  <2>3. QED
    BY <1>1, <1>3, <2>1, <2>2 DEF BooksSound, NumbersWithin, AgreesWithServer, On
<1>7. WorkSound'
  <2>1. OfflineWorkKept'
    BY <1>1, <1>3 DEF WorkSound, OfflineWorkKept, InBooks, On
  <2>2. \A w : InBooks(server, w)' <=> InBooks(server, w)
    BY <1>3 DEF InBooks, On
  <2>3. QED
    BY <1>1, <1>3, <1>5, <2>1, <2>2 DEF WorkSound
<1>8. ASSUME ~behind'
      PROVE  NumbersSound'
  <2>1. NumbersSound /\ ~(server.seq > copy'.seq)
    BY <1>1, <1>3, <1>8
  <2>2. server'.seq <= copy'.seq
    BY <1>2, <1>3, <1>4, <2>1
  <2>3. QED
    BY <1>3, <2>1, <2>2 DEF NumbersSound, NumbersUsedOnce, On
<1>9. ASSUME "resend" \notin Races
      PROVE  RowsSound'
  <2>1. RowsSound
    BY <1>9 DEF FallbackInv
  <2>2. QED
    BY <1>3, <2>1 DEF RowsSound, RowAgrees, On
<1>10. SeriesShort'
  <2>1. BillsMade' = BillsMade
    BY <1>3, <1>5 DEF BillsMade
  <2>2. QED
    BY <1>1, <1>3, <1>4, <2>1 DEF SeriesShort
<1>11. QED
  BY <1>6, <1>7, <1>8, <1>9, <1>10 DEF Sound


-----------------------------------------------------------------------------
(* The steps that write neither book.                                      *)

LEMMA SnapshotSound ==
    ASSUME FallbackTypes, BooksSound
    PROVE  /\ Snapshot \in CopyBooks /\ NumbersWithin(Snapshot) /\ AgreesWithServer(Snapshot)
           /\ Snapshot.seq = server.seq
           /\ \A b \in Bills : On(Snapshot, b) => <<"sale", b>> \in Snapshot.copied
           /\ \A b \in Bills : <<"sale", b>> \in Snapshot.copied /\ <<"return", b>> \notin Snapshot.copied =>
                Snapshot.book[b].returns = {}
<1> DEFINE own == {b \in Bills : On(server, b) /\ ~server.book[b].owed}
           snap == Snapshot
<1>1. server.book \in [Bills -> Rows] /\ server.seq \in Nat
  BY DEF FallbackTypes, ServerBooks
<1>2. /\ snap = [book |-> snap.book, seq |-> snap.seq, copied |-> snap.copied]
      /\ snap.book = [b \in Bills |-> snap.book[b]]
      /\ snap.seq = server.seq
      /\ snap.copied = {<<"sale", b>> : b \in own} \union {<<"return", b>> : b \in {c \in own : server.book[c].returns # {}}}
      /\ \A b \in Bills : snap.book[b] = IF b \in own THEN [server.book[b] EXCEPT !.payments = {}] ELSE NoBill
  BY DEF Snapshot
<1> HIDE DEF snap
<1>3. NoBill \in Rows /\ NoBill.no = 0 /\ NoBill.returns = {}
  BY DEF NoBill, Rows
<1>4. ASSUME NEW b \in Bills
      PROVE  /\ snap.book[b] \in Rows
             /\ b \in own => /\ snap.book[b].no = server.book[b].no /\ snap.book[b].owed = server.book[b].owed
                             /\ snap.book[b].payments = {} /\ snap.book[b].returns = server.book[b].returns
             /\ b \notin own => snap.book[b] = NoBill
  <2>1. server.book[b] \in Rows
    BY <1>1
  <2>2. CASE b \in own
    <3>1. snap.book[b] = [server.book[b] EXCEPT !.payments = {}]
      BY <1>2, <2>2
    <3>2. QED
      BY <2>1, <2>2, <3>1 DEF Rows
  <2>3. CASE b \notin own
    BY <1>2, <1>3, <2>3
  <2>4. QED
    BY <2>2, <2>3
<1>5. \A b \in Bills : On(snap, b) <=> b \in own
  BY <1>3, <1>4 DEF On
<1>6. \A b \in Bills : /\ <<"sale", b>> \in snap.copied <=> b \in own
                       /\ <<"return", b>> \in snap.copied <=> b \in own /\ server.book[b].returns # {}
  <2> SUFFICES ASSUME NEW b \in Bills
               PROVE  /\ <<"sale", b>> \in snap.copied <=> b \in own
                      /\ <<"return", b>> \in snap.copied <=> b \in own /\ server.book[b].returns # {}
    OBVIOUS
  <2>1. \A c : <<"sale", b>> # <<"return", c>> /\ (<<"sale", b>> = <<"sale", c>> <=> b = c)
                                                /\ (<<"return", b>> = <<"return", c>> <=> b = c)
    OBVIOUS
  <2>2. QED
    BY <1>2, <2>1
<1>7. snap \in CopyBooks
  <2>1. snap.book \in [Bills -> Rows]
    BY <1>2, <1>4
  <2>2. snap.copied \subseteq Documents
    BY <1>2 DEF Documents
  <2>3. QED
    BY <1>1, <1>2, <2>1, <2>2 DEF CopyBooks
<1>8. NumbersWithin(snap)
  <2>1. \A b \in Bills : On(server, b) => server.book[b].no <= server.seq
    BY DEF BooksSound, NumbersWithin
  <2>2. QED
    BY <1>2, <1>4, <1>5, <2>1 DEF NumbersWithin
<1>9. AgreesWithServer(snap)
  BY <1>4, <1>5, <1>6 DEF AgreesWithServer
<1>10. QED
  BY <1>2, <1>4, <1>5, <1>6, <1>7, <1>8, <1>9 DEF snap

LEMMA NothingCopied ==
    /\ EmptyCopy \in CopyBooks /\ NumbersWithin(EmptyCopy) /\ AgreesWithServer(EmptyCopy)
    /\ EmptyCopy.seq = 0 /\ EmptyCopy.copied = {} /\ \A b \in Bills : ~On(EmptyCopy, b)
<1>1. NoBill \in Rows /\ NoBill.no = 0
  BY DEF NoBill, Rows
<1>2. EmptyBook \in [Bills -> Rows]
  BY <1>1 DEF EmptyBook
<1>3. \A b \in Bills : ~On(EmptyCopy, b) /\ EmptyCopy.book[b] = NoBill
  BY <1>1 DEF On, EmptyCopy, EmptyBook
<1>4. EmptyCopy \in CopyBooks
  BY <1>2 DEF EmptyCopy, CopyBooks
<1>5. EmptyCopy.seq = 0 /\ EmptyCopy.copied = {}
  BY DEF EmptyCopy
<1>6. QED
  BY <1>3, <1>4, <1>5 DEF NumbersWithin, AgreesWithServer

\* What such a step may change: the snapshot, what the handlers hold, the settings.
Quiet ==
    /\ UNCHANGED <<server, copy, offline, behind>>
    /\ refresh'.snap \in {refresh.snap, EmptyCopy, Snapshot}
    /\ refresh'.at = "restoring" => refresh.at = "restoring" \/ ~cfg.pending
    /\ finish'.at = "taken" => finish.at = "taken"
    /\ finish.at # "taken" => (cfg.pending => cfg'.pending) /\ (cfg.active => cfg'.active)
    /\ Numbered' => Numbered
    /\ cfg'.issued <= Cardinality(BillsMade)
    /\ refresh'.now.issued <= Cardinality(BillsMade)
    /\ start'.settings.issued <= Cardinality(BillsMade)

LEMMA QuietSound ==
    ASSUME FallbackInv, Quiet
    PROVE  Sound'
<1>1. BooksSound /\ WorkSound /\ SeriesShort /\ FallbackTypes /\ HandlersApart /\ (~behind => NumbersSound)
  BY DEF FallbackInv
<1>2. server' = server /\ copy' = copy /\ offline' = offline /\ behind' = behind
  BY DEF Quiet
<1>3. \A b \in Bills : (On(copy, b)' <=> On(copy, b)) /\ (On(server, b)' <=> On(server, b))
  BY <1>2 DEF On
<1> DEFINE snap == refresh.snap
<1>4. /\ snap' \in CopyBooks /\ NumbersWithin(snap') /\ AgreesWithServer(snap')
      /\ \A b \in Bills : On(snap', b) => <<"sale", b>> \in snap'.copied
      /\ snap'.seq = snap.seq \/ snap'.seq = 0 \/ snap'.seq = server.seq
      /\ "resend" \notin Races =>
           \A b \in Bills : <<"sale", b>> \in snap'.copied /\ <<"return", b>> \notin snap'.copied =>
             snap'.book[b].returns = {}
  <2>1. snap' = snap \/ snap' = EmptyCopy \/ snap' = Snapshot
    BY DEF Quiet
  <2>2. CASE snap' = snap
    BY <1>1, <2>2 DEF BooksSound, FallbackTypes, FallbackInv, RowsSound
  <2>3. CASE snap' = EmptyCopy
    BY <2>3, NothingCopied
  <2>4. CASE snap' = Snapshot
    BY <1>1, <2>4, SnapshotSound
  <2>5. QED
    BY <2>1, <2>2, <2>3, <2>4
<1> HIDE DEF snap
<1>5. BooksSound'
  <2>1. NumbersWithin(server)' /\ NumbersWithin(copy)' /\ AgreesWithServer(copy)'
    BY <1>1, <1>2 DEF BooksSound, NumbersWithin, AgreesWithServer, On
  <2>2. NumbersWithin(snap)' /\ (\A b \in Bills : On(snap, b)' => <<"sale", b>> \in snap'.copied)
    BY <1>4 DEF NumbersWithin, On
  <2>3. AgreesWithServer(snap)'
    BY <1>2, <1>4 DEF AgreesWithServer, On
  <2>4. \A b \in Bills : On(copy, b)' /\ <<"sale", b>> \notin copy'.copied => <<"sale", b>> \in offline'
    BY <1>1, <1>2, <1>3 DEF BooksSound
  <2>5. QED
    BY <2>1, <2>2, <2>3, <2>4 DEF BooksSound, snap
<1>6. WorkSound'
  <2>1. \A w : (InBooks(server, w)' <=> InBooks(server, w)) /\ (InBooks(copy, w)' <=> InBooks(copy, w))
    BY <1>2 DEF InBooks, On
  <2>2. ~cfg.pending => \A w \in offline : InBooks(server, w)
    BY <1>1 DEF WorkSound, OfflineWorkKept
  <2>3. refresh'.at = "restoring" \/ finish'.at = "taken" => \A w \in offline : InBooks(server, w)
    BY <1>1, <2>2 DEF WorkSound, Quiet
  <2>4. OfflineWorkKept'
    <3>1. CASE finish.at = "taken"
      BY <1>1, <1>2, <2>1, <3>1 DEF WorkSound, OfflineWorkKept
    <3>2. CASE finish.at # "taken"
      BY <1>1, <1>2, <2>1, <3>2 DEF WorkSound, OfflineWorkKept, Quiet
    <3>3. QED
      BY <3>1, <3>2
  <2>5. \A b \in Bills : On(copy, b)' /\ ~On(server, b)' => cfg'.active
    BY <1>1, <1>3 DEF WorkSound, Quiet
  <2>6. finish'.at = "taken" => \A b \in Bills : On(copy, b)' => On(server, b)'
    BY <1>1, <1>3 DEF WorkSound, Quiet
  <2>7. QED
    BY <1>2, <2>1, <2>3, <2>4, <2>5, <2>6 DEF WorkSound
<1>7. ASSUME ~behind'
      PROVE  NumbersSound'
  <2>1. NumbersSound /\ (Numbered' => Numbered)
    BY <1>1, <1>2, <1>7 DEF Quiet
  <2>2. QED
    BY <1>2, <2>1 DEF NumbersSound, NumbersUsedOnce, On
<1>8. ASSUME "resend" \notin Races
      PROVE  RowsSound'
  <2>1. RowsSound
    BY <1>8 DEF FallbackInv
  <2>2. \A b \in Bills : On(server, b)' => RowAgrees(server.book[b])'
    BY <1>2, <1>3, <2>1 DEF RowsSound, RowAgrees
  <2>3. \A b \in Bills : On(copy, b)' /\ <<"sale", b>> \notin copy'.copied =>
          /\ RowAgrees(copy.book[b])'
          /\ copy'.book[b].payments \subseteq {"offline"} /\ copy'.book[b].returns \subseteq {"offline"}
          /\ On(server, b)' => /\ copy'.book[b].payments \subseteq server'.book[b].payments
                               /\ copy'.book[b].returns \subseteq server'.book[b].returns
    BY <1>2, <1>3, <2>1 DEF RowsSound, RowAgrees
  <2>4. QED
    BY <1>2, <1>4, <1>8, <2>1, <2>2, <2>3 DEF RowsSound, snap
<1>9. SeriesShort'
  <2>1. BillsMade' = BillsMade
    BY <1>2, <1>3 DEF BillsMade
  <2>2. snap'.seq <= Cardinality(BillsMade)
    BY <1>1, <1>4, BillsMadeFinite DEF SeriesShort, snap
  <2>3. QED
    BY <1>1, <1>2, <2>1, <2>2 DEF SeriesShort, Quiet, snap
<1>10. QED
  BY <1>5, <1>6, <1>7, <1>8, <1>9 DEF Sound

LEMMA SettingsShort ==
    ASSUME FallbackInv
    PROVE  /\ cfg \in SavedSettings /\ cfg.issued <= Cardinality(BillsMade)
           /\ refresh.now.issued <= Cardinality(BillsMade) /\ start.settings.issued <= Cardinality(BillsMade)
           /\ NewSettings.issued <= Cardinality(BillsMade)
           /\ \A b \in Bills : server.book[b].no \in Nat /\ server.book[b].no <= Cardinality(BillsMade)
<1>1. FallbackTypes /\ SeriesShort /\ NumbersWithin(server)
  BY DEF FallbackInv, BooksSound
<1>2. cfg \in SavedSettings /\ server.book \in [Bills -> Rows] /\ server.seq \in Nat
  BY <1>1 DEF FallbackTypes, ServerBooks
<1>3. Cardinality(BillsMade) \in Nat
  BY BillsMadeFinite
<1>4. ASSUME NEW b \in Bills
      PROVE  server.book[b].no \in Nat /\ server.book[b].no <= Cardinality(BillsMade)
  <2>1. server.book[b].no \in Nat
    BY <1>2 DEF Rows
  <2>2. server.book[b].no <= server.seq \/ server.book[b].no = 0
    BY <1>1 DEF NumbersWithin, On
  <2>3. server.seq <= Cardinality(BillsMade)
    BY <1>1 DEF SeriesShort
  <2>4. QED
    BY <1>2, <1>3, <2>1, <2>2, <2>3
<1>5. QED
  BY <1>1, <1>2, <1>3, <1>4 DEF SeriesShort, NewSettings


LEMMA QuietSteps ==
    ASSUME FallbackInv,
           \/ \E op \in Operations, b \in Bills : Send(op, b)
           \/ Answered \/ Dropped \/ RefreshStarts \/ RefreshFetches \/ RefreshChecks \/ RefreshFails
           \/ StartClicked \/ StartFails \/ StartActivates
           \/ FinishClicked \/ FinishReads \/ FinishAnswered \/ FinishFails
           \/ ServerSyncs /\ Clashes(finish.outbox)
    PROVE  Quiet
<1>1. FallbackTypes /\ HandlersApart
  BY DEF FallbackInv
<1>2. /\ cfg \in SavedSettings /\ start.settings \in SavedSettings
      /\ refresh = [at |-> refresh.at, snap |-> refresh.snap, now |-> refresh.now]
      /\ start = [at |-> start.at, settings |-> start.settings]
      /\ finish = [at |-> finish.at, outbox |-> finish.outbox]
  BY <1>1 DEF FallbackTypes
<1>3. /\ cfg.issued <= Cardinality(BillsMade)
      /\ refresh.now.issued <= Cardinality(BillsMade) /\ start.settings.issued <= Cardinality(BillsMade)
      /\ NewSettings.issued <= Cardinality(BillsMade)
  BY SettingsShort
<1>4. /\ IdleRefresh.at = "idle" /\ IdleRefresh.snap = EmptyCopy /\ IdleRefresh.now = NewSettings
      /\ IdleStart.at = "idle" /\ IdleStart.settings = NewSettings
      /\ IdleFinish.at = "idle"
  BY DEF IdleRefresh, IdleStart, IdleFinish
<1>5. CASE \E op \in Operations, b \in Bills : Send(op, b)
  BY <1>3, <1>5 DEF Send, Quiet, Numbered
<1>6. CASE Answered
  <2>1. /\ UNCHANGED <<server, copy, refresh, start, finish, offline, behind>>
        /\ cfg'.active = cfg.active /\ cfg'.pending = cfg.pending
        /\ cfg'.issued = cfg.issued \/ (IsSale(req) /\ cfg'.issued = Max({cfg.issued, server.book[req.bill].no}))
    BY <1>2, <1>6 DEF Answered, SavedSettings
  <2>2. cfg'.issued <= Cardinality(BillsMade)
    <3>1. IsSale(req) => req.bill \in Bills
      BY <1>1 DEF FallbackTypes, Asked, NoRequest, IsSale
    <3>2. IsSale(req) => server.book[req.bill].no \in Nat /\ server.book[req.bill].no <= Cardinality(BillsMade)
      BY <3>1, SettingsShort
    <3>3. cfg.issued \in Nat
      BY <1>2 DEF SavedSettings
    <3>4. QED
      BY <1>3, <2>1, <3>2, <3>3, LargerOf
  <2>3. QED
    BY <1>3, <2>1, <2>2 DEF Quiet, Numbered
<1>7. CASE Dropped
  BY <1>3, <1>7 DEF Dropped, Quiet, Numbered
<1>8. CASE RefreshStarts
  BY <1>3, <1>4, <1>8 DEF RefreshStarts, Quiet, Numbered, IdleRefresh
<1>9. CASE RefreshFetches
  <2>1. refresh'.snap = Snapshot /\ refresh'.at = "fetched" /\ refresh'.now = refresh.now
    BY <1>2, <1>9 DEF RefreshFetches
  <2>2. QED
    BY <1>3, <1>9, <2>1 DEF RefreshFetches, Quiet, Numbered
<1>10. CASE RefreshChecks
  <2>1. \/ refresh' = IdleRefresh
        \/ ~cfg.pending /\ refresh'.snap = refresh.snap /\ refresh'.now = cfg
    BY <1>2, <1>10 DEF RefreshChecks
  <2>2. QED
    BY <1>3, <1>4, <1>10, <2>1 DEF RefreshChecks, Quiet, Numbered
<1>11. CASE RefreshFails
  BY <1>3, <1>4, <1>11 DEF RefreshFails, Quiet, Numbered
<1>12. CASE StartClicked
  BY <1>3, <1>12 DEF StartClicked, Quiet, Numbered
<1>13. CASE StartFails
  BY <1>3, <1>4, <1>13 DEF StartFails, Quiet, Numbered
<1>14. CASE StartActivates
  <2>1. cfg'.active /\ cfg'.pending /\ cfg'.issued = start.settings.issued
    BY <1>2, <1>14 DEF StartActivates, SavedSettings
  <2>2. Numbered
    BY <1>14 DEF StartActivates, Numbered
  <2>3. QED
    BY <1>3, <1>4, <1>14, <2>1, <2>2 DEF StartActivates, Quiet
<1>15. CASE FinishClicked
  <2>1. finish'.at = "reading"
    BY <1>15 DEF FinishClicked, IdleFinish
  <2>2. QED
    BY <1>3, <1>15, <2>1 DEF FinishClicked, Quiet, Numbered
<1>16. CASE FinishReads
  BY <1>3, <1>16 DEF FinishReads, Quiet, Numbered
<1>17. CASE FinishAnswered
  <2>1. ~cfg'.active /\ ~cfg'.pending /\ cfg'.issued = cfg.issued
    BY <1>2, <1>17 DEF FinishAnswered, SavedSettings
  <2>2. QED
    BY <1>3, <1>4, <1>17, <2>1 DEF FinishAnswered, Quiet, Numbered
<1>18. CASE FinishFails
  BY <1>3, <1>4, <1>18 DEF FinishFails, Quiet, Numbered
<1>19. CASE ServerSyncs /\ Clashes(finish.outbox)
  BY <1>3, <1>4, <1>19 DEF ServerSyncs, Quiet, Numbered
<1>20. QED
  BY <1>5, <1>6, <1>7, <1>8, <1>9, <1>10, <1>11, <1>12, <1>13, <1>14, <1>15, <1>16, <1>17, <1>18, <1>19

LEMMA SoundStep ==
    ASSUME FallbackInv, Next
    PROVE  Sound'
<1>1. FallbackTypes /\ HandlersApart
  BY DEF FallbackInv
<1>2. CASE \/ \E op \in Operations, b \in Bills : Send(op, b)
           \/ Answered \/ Dropped \/ RefreshStarts \/ RefreshFetches \/ RefreshChecks \/ RefreshFails
           \/ StartClicked \/ StartFails \/ StartActivates
           \/ FinishClicked \/ FinishReads \/ FinishAnswered \/ FinishFails
           \/ ServerSyncs /\ Clashes(finish.outbox)
  BY <1>2, QuietSteps, QuietSound
<1>3. CASE ServerServes
  <2>1. req \in Asked /\ req.op \in Operations /\ req.bill \in Bills
    BY <1>1, <1>3 DEF ServerServes, FallbackTypes, Asked, NoRequest, Operations
  <2>2. QED
    BY <1>3, <2>1, ServerServedSound DEF ServerServes, IsSale, Sells
<1>4. CASE CopyServes
  BY <1>4, CopyServedSound
<1>5. CASE \E op \in {"pay", "return"}, b \in Bills : OtherTill(op, b)
  <2>1. PICK op \in {"pay", "return"}, b \in Bills : OtherTill(op, b)
    BY <1>5
  <2>2. op \in Operations /\ ~Sells(op)
    BY DEF Operations, Sells
  <2>3. behind' = (behind \/ (Sells(op) /\ Numbered))
    BY <1>1, <2>1, <2>2 DEF OtherTill, FallbackTypes
  <2>4. QED
    BY <2>1, <2>2, <2>3, ServerServedSound DEF OtherTill
<1>6. CASE RefreshRestores
  BY <1>6, CopyReplacedSound DEF RefreshRestores
<1>7. CASE StartCatchesUp
  BY <1>7, CatchesUpSound
<1>8. CASE ServerSyncs /\ ~Clashes(finish.outbox)
  BY <1>8, ServerTakesSound
<1>9. CASE Crash
  <2>1. IdleFinish.at = "idle" /\ IdleRefresh.at = "idle" /\ IdleRefresh.snap = EmptyCopy /\ IdleRefresh.now = NewSettings
        /\ IdleStart.at = "idle" /\ IdleStart.settings = NewSettings
    BY DEF IdleFinish, IdleRefresh, IdleStart
  <2>2. CASE copy' = refresh.snap /\ refresh.at = "restoring" /\ behind' = (behind \/ TakesBackNumbers)
    BY <1>9, <2>1, <2>2, CopyReplacedSound DEF Crash
  <2>3. CASE UNCHANGED <<copy, behind>>
    <3>1. Quiet
      BY <1>9, <2>1, <2>3, SettingsShort DEF Crash, Quiet, Numbered
    <3>2. QED
      BY <3>1, QuietSound
  <2>4. QED
    BY <1>9, <2>2, <2>3 DEF Crash
<1>10. QED
  BY <1>2, <1>3, <1>4, <1>5, <1>6, <1>7, <1>8, <1>9 DEF Next, Operations


-----------------------------------------------------------------------------
(* The handlers, and the theorems.                                         *)

LEMMA FallbackTypesStep ==
    ASSUME FallbackInv, Next
    PROVE  FallbackTypes'
<1>1. /\ server \in ServerBooks /\ copy \in CopyBooks /\ cfg \in SavedSettings
      /\ refresh \in [at : {"idle", "asking", "fetched", "restoring"}, snap : CopyBooks, now : SavedSettings]
      /\ start \in [at : {"idle", "starting", "numbered"}, settings : SavedSettings]
      /\ finish \in [at : {"idle", "reading", "sending", "taken"}, outbox : CopyBooks]
      /\ req \in Asked \cup {NoRequest}
      /\ offline \subseteq ({"sale", "payment", "return"} \X Bills)
      /\ behind \in BOOLEAN
      /\ FallbackTypes /\ HandlersApart /\ BooksSound
  BY DEF FallbackInv, FallbackTypes
<1>2. /\ NewSettings \in SavedSettings /\ EmptyCopy \in CopyBooks
      /\ IdleRefresh \in [at : {"idle"}, snap : CopyBooks, now : SavedSettings]
      /\ IdleStart \in [at : {"idle"}, settings : SavedSettings]
      /\ IdleFinish \in [at : {"idle"}, outbox : CopyBooks]
  BY NothingCopied DEF NewSettings, SavedSettings, IdleRefresh, IdleStart, IdleFinish
<1>3. /\ refresh.snap \in CopyBooks /\ refresh.now \in SavedSettings /\ start.settings \in SavedSettings
      /\ server.seq \in Nat /\ copy.seq \in Nat /\ cfg.issued \in Nat
      /\ \A b \in Bills : server.book[b].no \in Nat
  BY <1>1 DEF ServerBooks, CopyBooks, SavedSettings, Rows
<1>4. "online" \in Places /\ "offline" \in Places
  BY DEF Places
<1> USE DEF FallbackTypes
<1>5. CASE \E op \in Operations, b \in Bills : Send(op, b)
  <2>1. PICK op \in Operations, b \in Bills : Send(op, b)
    BY <1>5
  <2>2. req' \in Asked
    BY <1>4, <2>1 DEF Send, Asked, Operations
  <2>3. QED
    BY <1>1, <2>1, <2>2 DEF Send
<1>6. CASE ServerServes
  <2>1. req \in Asked /\ req.op \in Operations /\ req.bill \in Bills
    BY <1>1, <1>6 DEF ServerServes, Asked, NoRequest, Operations
  <2>2. server' \in ServerBooks
    BY <1>1, <1>4, <1>6, <2>1, ServeWrites DEF ServerServes
  <2>3. req' \in Asked
    BY <1>6, <2>1 DEF ServerServes, Asked
  <2>4. behind' \in BOOLEAN
    BY <1>6 DEF ServerServes
  <2>5. QED
    BY <1>1, <1>6, <2>2, <2>3, <2>4 DEF ServerServes
<1>7. CASE CopyServes
  <2>1. req \in Asked /\ req.op \in Operations /\ req.bill \in Bills
    BY <1>1, <1>7 DEF CopyServes, Asked, NoRequest, Operations
  <2>2. copy' \in CopyBooks
    BY <1>1, <1>4, <1>7, <2>1, ServeWrites DEF CopyServes
  <2>3. req' \in Asked
    BY <1>7, <2>1 DEF CopyServes, Asked
  <2>4. Work(req.op, req.bill) \subseteq ({"sale", "payment", "return"} \X Bills)
    BY <2>1 DEF Work, Operations
  <2>5. QED
    BY <1>1, <1>7, <2>2, <2>3, <2>4 DEF CopyServes
<1>8. CASE Answered
  <2>1. IsSale(req) => req.bill \in Bills
    BY <1>1 DEF Asked, NoRequest, IsSale
  <2>2. IsSale(req) => Max({cfg.issued, server.book[req.bill].no}) \in Nat
    BY <1>3, <2>1, LargerOf
  <2>3. cfg' \in SavedSettings
    BY <1>1, <1>8, <2>2 DEF Answered, SavedSettings
  <2>4. QED
    BY <1>1, <1>8, <2>3 DEF Answered
<1>9. CASE Dropped
  BY <1>1, <1>9 DEF Dropped
<1>10. CASE \E op \in {"pay", "return"}, b \in Bills : OtherTill(op, b)
  <2>1. PICK op \in {"pay", "return"}, b \in Bills : OtherTill(op, b)
    BY <1>10
  <2>2. op \in Operations
    BY DEF Operations
  <2>3. server' \in ServerBooks
    BY <1>1, <1>4, <2>1, <2>2, ServeWrites DEF OtherTill
  <2>4. QED
    BY <1>1, <2>1, <2>3 DEF OtherTill
<1>11. CASE RefreshStarts
  <2>1. refresh' \in [at : {"idle", "asking", "fetched", "restoring"}, snap : CopyBooks, now : SavedSettings]
    BY <1>2, <1>11 DEF RefreshStarts
  <2>2. QED
    BY <1>1, <1>11, <2>1 DEF RefreshStarts
<1>12. CASE RefreshFetches
  <2>1. Snapshot \in CopyBooks
    BY <1>1, SnapshotSound
  <2>2. refresh' \in [at : {"idle", "asking", "fetched", "restoring"}, snap : CopyBooks, now : SavedSettings]
    BY <1>1, <1>12, <2>1 DEF RefreshFetches
  <2>3. QED
    BY <1>1, <1>12, <2>2 DEF RefreshFetches
<1>13. CASE RefreshChecks
  <2>1. refresh' \in [at : {"idle", "asking", "fetched", "restoring"}, snap : CopyBooks, now : SavedSettings]
    BY <1>1, <1>2, <1>13 DEF RefreshChecks
  <2>2. req' \in Asked \cup {NoRequest}
    BY <1>1, <1>13 DEF RefreshChecks
  <2>3. QED
    BY <1>1, <1>13, <2>1, <2>2 DEF RefreshChecks
<1>14. CASE RefreshRestores
  <2>1. [refresh.now EXCEPT !.ready = TRUE] \in SavedSettings
    BY <1>3 DEF SavedSettings
  <2>2. cfg' \in SavedSettings
    BY <1>1, <1>14, <2>1 DEF RefreshRestores
  <2>3. refresh' \in [at : {"idle", "asking", "fetched", "restoring"}, snap : CopyBooks, now : SavedSettings]
    BY <1>2, <1>14 DEF RefreshRestores
  <2>4. copy' \in CopyBooks /\ behind' \in BOOLEAN
    BY <1>3, <1>14 DEF RefreshRestores
  <2>5. QED
    BY <1>1, <1>14, <2>2, <2>3, <2>4 DEF RefreshRestores
<1>15. CASE RefreshFails
  <2>1. refresh' \in [at : {"idle", "asking", "fetched", "restoring"}, snap : CopyBooks, now : SavedSettings]
    BY <1>2, <1>15 DEF RefreshFails
  <2>2. QED
    BY <1>1, <1>15, <2>1 DEF RefreshFails
<1>16. CASE StartClicked
  BY <1>1, <1>16 DEF StartClicked
<1>17. CASE StartCatchesUp
  <2>1. Max({copy.seq, cfg.issued}) \in Nat
    BY <1>3, LargerOf
  <2>2. copy' \in CopyBooks
    BY <1>1, <1>17, <2>1 DEF StartCatchesUp, CopyBooks
  <2>3. start' \in [at : {"idle", "starting", "numbered"}, settings : SavedSettings] /\ behind' \in BOOLEAN
    BY <1>1, <1>17 DEF StartCatchesUp
  <2>4. QED
    BY <1>1, <1>17, <2>2, <2>3 DEF StartCatchesUp
<1>18. CASE StartFails
  <2>1. start' \in [at : {"idle", "starting", "numbered"}, settings : SavedSettings]
    BY <1>2, <1>18 DEF StartFails
  <2>2. QED
    BY <1>1, <1>18, <2>1 DEF StartFails
<1>19. CASE StartActivates
  <2>1. cfg' \in SavedSettings
    BY <1>3, <1>19 DEF StartActivates, SavedSettings
  <2>2. start' \in [at : {"idle", "starting", "numbered"}, settings : SavedSettings]
    BY <1>2, <1>19 DEF StartActivates
  <2>3. QED
    BY <1>1, <1>19, <2>1, <2>2 DEF StartActivates
<1>20. CASE FinishClicked
  <2>1. finish' \in [at : {"idle", "reading", "sending", "taken"}, outbox : CopyBooks]
    BY <1>2, <1>20 DEF FinishClicked
  <2>2. QED
    BY <1>1, <1>20, <2>1 DEF FinishClicked
<1>21. CASE FinishReads
  BY <1>1, <1>21 DEF FinishReads
<1>22. CASE ServerSyncs
  <2>1. finish' \in [at : {"idle", "reading", "sending", "taken"}, outbox : CopyBooks]
    BY <1>1, <1>2, <1>22 DEF ServerSyncs
  <2>2. server' \in ServerBooks
    <3>1. server' = server \/ server' = Added(copy)
      BY <1>1, <1>22 DEF ServerSyncs, HandlersApart
    <3>2. QED
      BY <1>1, <3>1, AddedRows
  <2>3. QED
    BY <1>1, <1>22, <2>1, <2>2 DEF ServerSyncs
<1>23. CASE FinishAnswered
  <2>1. cfg' \in SavedSettings
    BY <1>1, <1>23 DEF FinishAnswered, SavedSettings
  <2>2. finish' \in [at : {"idle", "reading", "sending", "taken"}, outbox : CopyBooks]
    BY <1>2, <1>23 DEF FinishAnswered
  <2>3. QED
    BY <1>1, <1>23, <2>1, <2>2 DEF FinishAnswered
<1>24. CASE FinishFails
  <2>1. finish' \in [at : {"idle", "reading", "sending", "taken"}, outbox : CopyBooks]
    BY <1>2, <1>24 DEF FinishFails
  <2>2. QED
    BY <1>1, <1>24, <2>1 DEF FinishFails
<1>25. CASE Crash
  <2>1. /\ refresh' \in [at : {"idle", "asking", "fetched", "restoring"}, snap : CopyBooks, now : SavedSettings]
        /\ start' \in [at : {"idle", "starting", "numbered"}, settings : SavedSettings]
        /\ finish' \in [at : {"idle", "reading", "sending", "taken"}, outbox : CopyBooks]
    BY <1>2, <1>25 DEF Crash
  <2>2. copy' \in CopyBooks /\ behind' \in BOOLEAN
    BY <1>1, <1>3, <1>25 DEF Crash
  <2>3. QED
    BY <1>1, <1>25, <2>1, <2>2 DEF Crash
<1>26. QED
  BY <1>5, <1>6, <1>7, <1>8, <1>9, <1>10, <1>11, <1>12, <1>13, <1>14, <1>15, <1>16, <1>17, <1>18,
     <1>19, <1>20, <1>21, <1>22, <1>23, <1>24, <1>25 DEF Next, Operations


LEMMA HandlersStep ==
    ASSUME "finish" \notin Races, FallbackInv, Next
    PROVE  HandlersApart'
<1>1. /\ cfg \in SavedSettings /\ start.settings \in SavedSettings /\ refresh.now \in SavedSettings
      /\ refresh = [at |-> refresh.at, snap |-> refresh.snap, now |-> refresh.now]
      /\ finish = [at |-> finish.at, outbox |-> finish.outbox]
      /\ start = [at |-> start.at, settings |-> start.settings]
      /\ req \in Asked \cup {NoRequest}
      /\ refresh.at \in {"idle", "asking", "fetched", "restoring"}
      /\ start.at \in {"idle", "starting", "numbered"}
      /\ finish.at \in {"idle", "reading", "sending", "taken"}
      /\ HandlersApart
  BY DEF FallbackInv, FallbackTypes
<1>2. /\ IdleRefresh.at = "idle" /\ IdleStart.at = "idle" /\ NoRequest.at = "none"
      /\ IdleFinish.at = "idle" /\ IdleFinish.outbox = EmptyCopy
  BY DEF IdleRefresh, IdleStart, IdleFinish, NoRequest
<1> USE DEF HandlersApart
<1>3. CASE \E op \in Operations, b \in Bills : Send(op, b)
  <2>1. PICK op \in Operations, b \in Bills : Send(op, b)
    BY <1>3
  <2>2. req'.at = IF cfg.active THEN "offline" ELSE "online"
    BY <2>1 DEF Send
  <2>3. UNCHANGED <<copy, cfg, refresh, start, finish>> /\ finish.at = "idle" /\ (cfg.active => refresh.at # "restoring")
    BY <2>1 DEF Send
  <2>4. QED
    BY <1>1, <2>2, <2>3
<1>4. CASE ServerServes
  <2>1. req'.at = req.at
    BY <1>1, <1>4 DEF ServerServes, Asked, NoRequest
  <2>2. QED
    BY <1>1, <1>4, <2>1 DEF ServerServes
<1>5. CASE CopyServes
  <2>1. req'.at = req.at
    BY <1>1, <1>5 DEF CopyServes, Asked, NoRequest
  <2>2. finish.at = "idle"
    BY <1>1, <1>5 DEF CopyServes
  <2>3. QED
    BY <1>1, <1>5, <2>1, <2>2 DEF CopyServes
<1>6. CASE Answered
  <2>1. cfg'.active = cfg.active /\ cfg'.pending = cfg.pending
    BY <1>1, <1>6 DEF Answered, SavedSettings
  <2>2. QED
    BY <1>1, <1>2, <1>6, <2>1 DEF Answered
<1>7. CASE Dropped
  BY <1>1, <1>2, <1>7 DEF Dropped
<1>8. CASE \E op \in {"pay", "return"}, b \in Bills : OtherTill(op, b)
  BY <1>1, <1>8 DEF OtherTill
<1>9. CASE RefreshStarts
  <2>1. refresh'.at = "asking"
    BY <1>9 DEF RefreshStarts, IdleRefresh
  <2>2. QED
    BY <1>1, <1>9, <2>1 DEF RefreshStarts
<1>10. CASE RefreshFetches
  <2>1. refresh'.at = "fetched"
    BY <1>1, <1>10 DEF RefreshFetches
  <2>2. QED
    BY <1>1, <1>10, <2>1 DEF RefreshFetches
<1>11. CASE RefreshChecks
  <2>1. CASE cfg.active \/ cfg.pending
    BY <1>1, <1>2, <1>11, <2>1 DEF RefreshChecks
  <2>2. CASE ~(cfg.active \/ cfg.pending)
    <3>1. /\ refresh'.at = "restoring" /\ refresh'.now = cfg
          /\ req' = IF req.at = "offline" THEN NoRequest ELSE req
          /\ UNCHANGED <<copy, cfg, start, finish>>
      BY <1>1, <1>11, <2>2 DEF RefreshChecks
    <3>2. finish.at = "idle"
      BY <1>1, <1>11, <2>2 DEF RefreshChecks
    <3>3. req'.at # "offline"
      BY <1>2, <3>1
    <3>4. QED
      BY <1>1, <2>2, <3>1, <3>2, <3>3
  <2>3. QED
    BY <2>1, <2>2
<1>12. CASE RefreshRestores
  <2>1. finish.at \notin {"sending", "taken"} /\ req.at # "offline" /\ refresh.at = "restoring"
    BY <1>1, <1>12 DEF RefreshRestores
  <2>2. \/ cfg' = cfg
        \/ ~cfg'.active /\ ~cfg'.pending
    BY <1>1, <1>12 DEF RefreshRestores, SavedSettings
  <2>3. UNCHANGED <<start, finish, req>> /\ refresh'.at = "idle"
    BY <1>2, <1>12 DEF RefreshRestores
  <2>4. QED
    BY <1>1, <2>1, <2>2, <2>3
<1>13. CASE RefreshFails
  BY <1>1, <1>2, <1>13 DEF RefreshFails
<1>14. CASE StartClicked
  BY <1>1, <1>14 DEF StartClicked
<1>15. CASE StartCatchesUp
  <2>1. finish.at = "idle" /\ start.at = "starting"
    BY <1>1, <1>15 DEF StartCatchesUp
  <2>2. QED
    BY <1>1, <1>15, <2>1 DEF StartCatchesUp
<1>16. CASE StartFails
  BY <1>1, <1>2, <1>16 DEF StartFails
<1>17. CASE StartActivates
  <2>1. cfg'.active /\ cfg'.pending
    BY <1>1, <1>17 DEF StartActivates, SavedSettings
  <2>2. finish.at = "idle"
    BY <1>1, <1>17 DEF StartActivates
  <2>3. req.at # "offline" \/ refresh.at # "restoring"
    BY <1>1
  <2>4. UNCHANGED <<copy, refresh, finish, req>> /\ start'.at = "idle"
    BY <1>2, <1>17 DEF StartActivates
  <2>5. QED
    BY <1>1, <2>1, <2>2, <2>3, <2>4
<1>18. CASE FinishClicked
  <2>1. finish'.at = "reading" /\ finish'.outbox = EmptyCopy
    BY <1>18 DEF FinishClicked, IdleFinish
  <2>2. req.at # "offline" /\ start.at = "idle" /\ (cfg.active \/ cfg.pending)
    BY <1>18 DEF FinishClicked
  <2>3. QED
    BY <1>1, <1>18, <2>1, <2>2 DEF FinishClicked
<1>19. CASE FinishReads
  BY <1>1, <1>19 DEF FinishReads
<1>20. CASE ServerSyncs
  <2>1. \/ finish'.at = "idle" /\ finish'.outbox = EmptyCopy
        \/ finish'.at = "taken" /\ finish'.outbox = finish.outbox
    BY <1>1, <1>2, <1>20 DEF ServerSyncs
  <2>2. finish.at = "sending" /\ UNCHANGED <<copy, cfg, refresh, start, req>>
    BY <1>20 DEF ServerSyncs
  <2>3. QED
    BY <1>1, <2>1, <2>2
<1>21. CASE FinishAnswered
  <2>1. ~cfg'.active /\ ~cfg'.pending
    BY <1>1, <1>21 DEF FinishAnswered, SavedSettings
  <2>2. finish'.at = "idle" /\ finish'.outbox = EmptyCopy /\ req.at # "offline"
    BY <1>1, <1>2, <1>21 DEF FinishAnswered
  <2>3. QED
    BY <1>1, <1>21, <2>1, <2>2 DEF FinishAnswered
<1>22. CASE FinishFails
  BY <1>1, <1>2, <1>22 DEF FinishFails
<1>23. CASE Crash
  BY <1>1, <1>2, <1>23 DEF Crash
<1>24. QED
  BY <1>3, <1>4, <1>5, <1>6, <1>7, <1>8, <1>9, <1>10, <1>11, <1>12, <1>13, <1>14, <1>15, <1>16,
     <1>17, <1>18, <1>19, <1>20, <1>21, <1>22, <1>23 DEF Next, Operations

LEMMA FallbackInvInit == Init => FallbackInv
<1> SUFFICES ASSUME Init
             PROVE  FallbackInv
  OBVIOUS
<1>1. NoBill \in Rows /\ NoBill.no = 0
  BY DEF NoBill, Rows
<1>2. EmptyBook \in [Bills -> Rows] /\ \A b \in Bills : EmptyBook[b] = NoBill
  BY <1>1 DEF EmptyBook
<1>3. /\ server.book = EmptyBook /\ server.seq = 0 /\ server \in ServerBooks
      /\ copy = EmptyCopy /\ cfg = NewSettings /\ refresh = IdleRefresh /\ start = IdleStart /\ finish = IdleFinish
      /\ req = NoRequest /\ offline = {} /\ behind = FALSE
  BY <1>2 DEF Init, ServerBooks
<1>4. /\ NewSettings \in SavedSettings /\ NewSettings.issued = 0 /\ ~NewSettings.active /\ ~NewSettings.pending
      /\ IdleRefresh \in [at : {"idle"}, snap : CopyBooks, now : SavedSettings]
      /\ IdleRefresh.at = "idle" /\ IdleRefresh.snap = EmptyCopy /\ IdleRefresh.now = NewSettings
      /\ IdleStart \in [at : {"idle"}, settings : SavedSettings]
      /\ IdleStart.at = "idle" /\ IdleStart.settings = NewSettings
      /\ IdleFinish \in [at : {"idle"}, outbox : CopyBooks]
      /\ IdleFinish.at = "idle" /\ IdleFinish.outbox = EmptyCopy
      /\ NoRequest.at = "none"
  BY NothingCopied DEF NewSettings, SavedSettings, IdleRefresh, IdleStart, IdleFinish, NoRequest
<1>5. \A b \in Bills : ~On(server, b) /\ server.book[b] = NoBill
  BY <1>1, <1>2, <1>3 DEF On
<1>6. FallbackTypes
  BY <1>3, <1>4, NothingCopied DEF FallbackTypes
<1>7. HandlersApart
  BY <1>3, <1>4 DEF HandlersApart
<1>8. NumbersWithin(server)
  BY <1>5 DEF NumbersWithin
<1>9. BooksSound
  BY <1>3, <1>4, <1>8, NothingCopied DEF BooksSound
<1>10. WorkSound
  BY <1>3, <1>4, NothingCopied DEF WorkSound, OfflineWorkKept
<1>11. NumbersSound
  BY <1>3, <1>4, <1>5, NothingCopied DEF NumbersSound, NumbersUsedOnce, Numbered
<1>12. RowsSound
  BY <1>3, <1>4, <1>5, NothingCopied DEF RowsSound
<1>13. SeriesShort
  <2>1. Cardinality(BillsMade) \in Nat
    BY BillsMadeFinite
  <2>2. QED
    BY <1>3, <1>4, <2>1, NothingCopied DEF SeriesShort
<1>14. QED
  BY <1>6, <1>7, <1>9, <1>10, <1>11, <1>12, <1>13 DEF FallbackInv

LEMMA FallbackInvStep ==
    ASSUME "finish" \notin Races, FallbackInv, [Next]_vars
    PROVE  FallbackInv'
<1>1. CASE Next
  BY <1>1, FallbackTypesStep, HandlersStep, SoundStep DEF FallbackInv, Sound
<1>2. CASE UNCHANGED vars
  <2>1. /\ server' = server /\ copy' = copy /\ cfg' = cfg /\ refresh' = refresh /\ start' = start
        /\ finish' = finish /\ req' = req /\ offline' = offline /\ behind' = behind
    BY <1>2 DEF vars
  <2>2. BillsMade' = BillsMade
    BY <2>1 DEF BillsMade, On
  <2>3. FallbackTypes' /\ HandlersApart' /\ BooksSound' /\ WorkSound'
    BY <2>1 DEF FallbackInv, FallbackTypes, HandlersApart, BooksSound, WorkSound, NumbersWithin, AgreesWithServer,
                OfflineWorkKept, InBooks, On
  <2>4. (~behind => NumbersSound)' /\ ("resend" \notin Races => RowsSound)' /\ SeriesShort'
    BY <2>1, <2>2 DEF FallbackInv, NumbersSound, NumbersUsedOnce, Numbered, RowsSound, RowAgrees, SeriesShort, On
  <2>5. QED
    BY <2>3, <2>4 DEF FallbackInv
<1>3. QED
  BY <1>1, <1>2

LEMMA FallbackInvHolds ==
    ASSUME "finish" \notin Races
    PROVE  Spec => []FallbackInv
<1>1. FallbackInv /\ [Next]_vars => FallbackInv'
  BY FallbackInvStep
<1>2. QED
  BY <1>1, FallbackInvInit, PTL DEF Spec

\* OfflineWorkKept (the copy is replaced never while offline sales are waiting, fallback.ts
\* refresh), as long as "send" is not clicked while a request is at the copy.
THEOREM OfflineWorkKeptHolds ==
    ASSUME "finish" \notin Races
    PROVE  Spec => []OfflineWorkKept
<1>1. FallbackInv => OfflineWorkKept
  BY DEF FallbackInv, WorkSound
<1>2. QED
  BY <1>1, FallbackInvHolds, PTL

\* NumbersUsedOnceUnlessBehind (the number series of fallback-counter.ts noteInvoiceIssued and
\* catchUpNumbers), under the same assumption.
THEOREM NumbersUsedOnceUnlessBehindHolds ==
    ASSUME "finish" \notin Races
    PROVE  Spec => []NumbersUsedOnceUnlessBehind
<1>1. FallbackInv => NumbersUsedOnceUnlessBehind
  BY DEF FallbackInv, NumbersSound, NumbersUsedOnceUnlessBehind
<1>2. QED
  BY <1>1, FallbackInvHolds, PTL

\* Within the numbers of a series as long as the bills are many.
LEMMA WithinNumbers ==
    ASSUME FallbackInv
    PROVE  TypeOK
<1>1. FallbackTypes /\ HandlersApart /\ SeriesShort
      /\ NumbersWithin(server) /\ NumbersWithin(copy) /\ NumbersWithin(refresh.snap)
  BY DEF FallbackInv, BooksSound
<1>2. /\ Cardinality(BillsMade) \in Nat /\ Cardinality(Bills) \in Nat
      /\ Cardinality(BillsMade) <= Cardinality(Bills)
  BY FallbackAssumption, BillsMadeFinite, FS_Subset, FS_CardinalityType DEF FallbackAssumption
<1>3. \A n \in Nat : n <= Cardinality(BillsMade) => n \in Numbers
  BY <1>2 DEF Numbers
<1>4. ASSUME NEW db, db.book \in [Bills -> Rows], db.seq \in Nat, NumbersWithin(db), db.seq <= Cardinality(BillsMade)
      PROVE  db.seq \in Numbers /\ db.book \in Book
  <2>1. ASSUME NEW b \in Bills
        PROVE  db.book[b].no \in 0 .. Cardinality(Bills)
    <3>1. db.book[b].no \in Nat
      BY <1>4 DEF Rows
    <3>2. db.book[b].no <= db.seq \/ db.book[b].no = 0
      BY <1>4 DEF NumbersWithin, On
    <3>3. QED
      BY <1>2, <1>4, <3>1, <3>2
  <2>2. \A b \in Bills : db.book[b] \in [no : 0 .. Cardinality(Bills), owed : BOOLEAN,
                                         payments : SUBSET Places, returns : SUBSET Places]
    BY <1>4, <2>1 DEF Rows
  <2>3. QED
    BY <1>3, <1>4, <2>2 DEF Book
<1>5. /\ server.book \in [Bills -> Rows] /\ server.seq \in Nat /\ server \in ServerBooks
      /\ copy.book \in [Bills -> Rows] /\ copy.seq \in Nat /\ copy \in CopyBooks
      /\ refresh.snap.book \in [Bills -> Rows] /\ refresh.snap.seq \in Nat /\ refresh.snap \in CopyBooks
      /\ server.seq <= Cardinality(BillsMade) /\ copy.seq <= Cardinality(BillsMade)
      /\ refresh.snap.seq <= Cardinality(BillsMade)
  BY <1>1 DEF FallbackTypes, ServerBooks, CopyBooks, SeriesShort
<1>6. server \in [book : Book, seq : Numbers]
  BY <1>1, <1>4, <1>5 DEF ServerBooks
<1>7. copy \in Copies /\ refresh.snap \in Copies
  BY <1>1, <1>4, <1>5 DEF CopyBooks, Copies
<1>8. finish.outbox \in Copies
  <2>1. finish.outbox = copy \/ finish.outbox = EmptyCopy
    BY <1>1 DEF HandlersApart, FallbackTypes
  <2>2. NumbersWithin(EmptyCopy) /\ EmptyCopy \in CopyBooks /\ EmptyCopy.seq = 0
    BY NothingCopied
  <2>3. EmptyCopy.book \in Book /\ EmptyCopy.seq \in Numbers
    BY <1>2, <1>4, <2>2 DEF CopyBooks
  <2>4. EmptyCopy \in Copies
    BY <2>2, <2>3 DEF CopyBooks, Copies
  <2>5. QED
    BY <1>7, <2>1, <2>4
<1>9. cfg \in Settings /\ refresh.now \in Settings /\ start.settings \in Settings
  BY <1>1, <1>3 DEF FallbackTypes, SavedSettings, Settings, SeriesShort
<1>10. QED
  BY <1>1, <1>6, <1>7, <1>8, <1>9 DEF FallbackTypes, TypeOK, Asked

\* ServerRowsAgree (what the server's sync makes of rows it has already, apps/api/src/fallback), as
\* long as, too, no bill of a sync the app takes for unsent is paid or returned at the copy.
THEOREM ServerRowsAgreeHolds ==
    ASSUME "finish" \notin Races, "resend" \notin Races
    PROVE  Spec => []ServerRowsAgree
<1>1. FallbackInv => ServerRowsAgree
  <2> SUFFICES ASSUME FallbackInv
               PROVE  ServerRowsAgree
    OBVIOUS
  <2>1. TypeOK
    BY WithinNumbers
  <2>2. RowsSound
    BY DEF FallbackInv
  <2>3. \A rows \in {{}, {"online"}, {"offline"}} : Cardinality(rows) <= 1
    <3>1. Cardinality({}) = 0
      BY FS_EmptySet
    <3>2. Cardinality({"online"}) = 1 /\ Cardinality({"offline"}) = 1
      BY FS_Singleton
    <3>3. QED
      BY <3>1, <3>2
  <2>4. ASSUME NEW b \in Bills, On(server, b)
        PROVE  /\ server.book[b].owed <=> (server.book[b].payments = {} /\ server.book[b].returns = {})
               /\ Cardinality(server.book[b].payments) <= 1
               /\ Cardinality(server.book[b].returns) <= 1
    <3>1. RowAgrees(server.book[b])
      BY <2>2, <2>4 DEF RowsSound
    <3>2. /\ server.book[b].payments \in {{}, {"online"}, {"offline"}}
          /\ server.book[b].returns \in {{}, {"online"}, {"offline"}}
          /\ server.book[b].owed <=> (server.book[b].payments = {} /\ server.book[b].returns = {})
      BY <3>1 DEF RowAgrees
    <3>3. QED
      BY <2>3, <3>2
  <2>5. QED
    BY <2>1, <2>4 DEF ServerRowsAgree
<1>2. QED
  BY <1>1, FallbackInvHolds, PTL

-----------------------------------------------------------------------------
(* Moving online.                                                          *)

InUse == {"ACTIVE", "DELETING"}
OnlineStatuses == {"none", "PROVISIONING", "ACTIVE", "FAILED", "DELETING"}
UploadSteps == {"received", "unpacking", "loading", "made", "refused", "gone"}
UploadRow == [import : Imports, copy : Nat, at : UploadSteps]
MoveSteps == {"idle", "checked", "paused", "exported", "waiting", "finishing", "switching"}

MoveTypes ==
    /\ status \in {"ACTIVE", "MIGRATING", "ARCHIVED"}
    /\ pending \in Imports \cup {NoImport}
    /\ work \in Nat
    /\ move \in [at : MoveSteps, copy : Nat, upload : Nat]
    /\ uploads \in Seq(UploadRow)
    /\ online \in [Imports -> [status : OnlineStatuses, copy : Nat]]

\* What the app's move is at says what the copy here may do: unless the owner cancelled, it stays
\* paused from the export until it is refused or finished.
PausedWhileMoving ==
    /\ pending # NoImport => Sent(pending) /\ status # "ACTIVE"
    /\ move.at = "checked" => status = "ACTIVE"
    /\ move.at \in {"paused", "exported"} => status = "MIGRATING" /\ pending = NoImport
    /\ move.at \in {"waiting", "finishing"} =>
          status = "MIGRATING" /\ move.upload \in DOMAIN uploads /\ pending = uploads[move.upload].import
    /\ status = "ARCHIVED" => move.at \in {"idle", "switching"}

\* One upload per import id, and what the server has of it.
UploadsSound ==
    /\ \A m, n \in DOMAIN uploads : uploads[m].import = uploads[n].import => m = n
    /\ \A i \in Imports : online[i].status # "none" => Sent(i)
    /\ \A n \in DOMAIN uploads :
          /\ uploads[n].at \in {"received", "unpacking"} => online[uploads[n].import].status = "none"
          /\ uploads[n].at = "loading" => online[uploads[n].import].status = "PROVISIONING"
          /\ online[uploads[n].import].status \in InUse => online[uploads[n].import].copy = uploads[n].copy
          /\ uploads[n].at = "made" /\ "erased" \notin excuses => online[uploads[n].import].status \in InUse
    /\ move.at = "finishing" /\ "erased" \notin excuses => online[pending].status \in InUse

\* Nothing changes here after the export.
CopyWhole ==
    /\ move.at = "exported" => change = "none" /\ move.copy = work
    /\ pending # NoImport => change = "none" /\ \A n \in DOMAIN uploads : uploads[n].import = pending => uploads[n].copy = work
    /\ status = "ARCHIVED" => change = "none"
    /\ status = "ARCHIVED" /\ "erased" \notin excuses =>
          \E i \in Imports : online[i].status \in InUse /\ online[i].copy = work

\* The import the app waits for is the only one the server may have a business of.
OneImport ==
    /\ \A i \in Imports : MayHave(i) => status # "ACTIVE"
    /\ \A i \in Imports : MayHave(i) /\ status = "MIGRATING" => i = pending
    /\ \A i, j \in Imports : MayHave(i) /\ MayHave(j) => i = j

MoveInv ==
    /\ MoveTypes
    /\ excuses \cap {"cancelled", "unread"} = {} =>
          /\ PausedWhileMoving
          /\ UploadsSound
          /\ "late" \notin excuses => CopyWhole
          /\ "misheard" \notin excuses => OneImport


LEMMA MoveStarts == MoveInit => MoveInv
<1> SUFFICES ASSUME MoveInit PROVE MoveInv
  OBVIOUS
<1>1. MoveTypes
  BY MoveAssumption DEF MoveAssumption, MoveInit, MoveTypes, Imports, NoImport, NoMove, NotThere, MoveSteps, OnlineStatuses
<1>2. DOMAIN uploads = {} /\ \A i \in Imports : online[i].status = "none"
  BY DEF MoveInit, NotThere
<1>3. PausedWhileMoving /\ UploadsSound /\ CopyWhole
  BY <1>2 DEF MoveInit, PausedWhileMoving, UploadsSound, CopyWhole, NoMove
<1>4. OneImport
  BY <1>2 DEF MoveInit, OneImport, MayHave
<1>5. QED
  BY <1>1, <1>3, <1>4 DEF MoveInv

\* Whatever happens, ids, steps and copies are what they are.
LEMMA MoveTypesKept ==
    ASSUME MoveTypes, [MoveNext]_moveVars
    PROVE  MoveTypes'
<1> USE DEF MoveTypes
<1>0. DOMAIN uploads = 1 .. Len(uploads) /\ Len(uploads) \in Nat /\ \A n \in DOMAIN uploads : uploads[n] \in UploadRow
  OBVIOUS
<1>m. \A at \in MoveSteps : [move EXCEPT !.at = at] \in [at : MoveSteps, copy : Nat, upload : Nat]
  OBVIOUS
<1>n. NoMove \in [at : MoveSteps, copy : Nat, upload : Nat]
  BY DEF NoMove, MoveSteps
<1>1. CASE UNCHANGED moveVars
  BY <1>1 DEF moveVars
<1>2. ASSUME NEW kind \in {"work", "open", "sale", "close"}, Ask(kind) PROVE MoveTypes'
  BY <1>2 DEF Ask
<1>3. CASE Commit
  BY <1>3 DEF Commit
<1>4. CASE Fail
  BY <1>4 DEF Fail
<1>5. CASE BeginMove
  <2>1. move' \in [at : MoveSteps, copy : Nat, upload : Nat]
    BY <1>5, <1>m, <1>n DEF BeginMove, At, MoveSteps
  <2>2. QED
    BY <1>5, <2>1 DEF BeginMove, localCopy
<1>6. CASE Pause
  BY <1>6 DEF Pause, At, MoveSteps
<1>7. CASE Export
  <2>1. move' \in [at : MoveSteps, copy : Nat, upload : Nat]
    BY <1>7, <1>n DEF Export, Abort, MoveSteps
  <2>2. status' \in {"ACTIVE", "MIGRATING", "ARCHIVED"}
    BY <1>7 DEF Export, Abort
  <2>3. QED
    BY <1>7, <2>1, <2>2 DEF Export
<1>8. CASE Upload
  <2>1. PICK i \in Imports : pending' = i /\ uploads' = Append(uploads, [import |-> i, copy |-> move.copy, at |-> "received"])
    BY <1>8 DEF Upload
  <2>2. [import |-> i, copy |-> move.copy, at |-> "received"] \in UploadRow
    BY <1>8 DEF UploadSteps, UploadRow
  <2>3. uploads' \in Seq(UploadRow) /\ Len(uploads) + 1 \in Nat
    BY <1>0, <2>1, <2>2
  <2>4. QED
    BY <1>8, <2>1, <2>3 DEF Upload, localCopy, MoveSteps
<1>9. CASE Unanswered \/ Refused \/ Unreadable
  BY <1>9 DEF Unanswered, Refused, Unreadable, Abort, localCopy, NoMove, MoveSteps
<1>10. CASE Accepted
  BY <1>10 DEF Accepted, localCopy, At, MoveSteps
<1>11. CASE Finish
  <2>1. move' \in [at : MoveSteps, copy : Nat, upload : Nat]
    BY <1>11, <1>m, <1>n DEF Finish, At, MoveSteps
  <2>2. QED
    BY <1>11, <2>1 DEF Finish
<1>12. CASE SwitchToOnline \/ Cancel \/ AppStops
  BY <1>12 DEF SwitchToOnline, Cancel, AppStops, localCopy, NoMove, MoveSteps
<1>13. ASSUME NEW n \in DOMAIN uploads, PreviousAttempt(n) \/ Reserve(n) \/ Load(n) PROVE MoveTypes'
  <2>1. uploads[n].import \in Imports /\ uploads[n].copy \in Nat
    BY <1>0 DEF UploadRow
  <2>2. UNCHANGED <<status, pending, work, move>>
    BY <1>13 DEF PreviousAttempt, Reserve, Load, localCopy
  <2>3. PICK step \in UploadSteps : Server(n, step)
    BY <1>13 DEF PreviousAttempt, Reserve, Load, UploadSteps
  <2>4. uploads' \in Seq(UploadRow)
    <3>1. [uploads[n] EXCEPT !.at = step] \in UploadRow
      BY <1>0 DEF UploadRow
    <3>2. uploads' = [uploads EXCEPT ![n] = [uploads[n] EXCEPT !.at = step]]
      BY <2>3 DEF Server
    <3>3. QED
      BY <3>1, <3>2
  <2>5. online' = online \/ \E s \in OnlineStatuses, c \in Nat : OnlineRow(uploads[n].import, s, c)
    BY <1>13, <2>1 DEF PreviousAttempt, Reserve, Load, OnlineStatuses
  <2>6. online' \in [Imports -> [status : OnlineStatuses, copy : Nat]]
    <3>1. CASE online' = online
      BY <3>1
    <3>2. ASSUME NEW s \in OnlineStatuses, NEW c \in Nat, OnlineRow(uploads[n].import, s, c)
          PROVE  online' \in [Imports -> [status : OnlineStatuses, copy : Nat]]
      BY <2>1, <3>2 DEF OnlineRow
    <3>3. QED
      BY <2>5, <3>1, <3>2
  <2>7. QED
    BY <2>2, <2>4, <2>6
<1>14. CASE ApiStops
  <2>1. uploads' \in Seq(UploadRow)
    <3>1. \A n \in 1 .. Len(uploads) : uploads'[n] \in UploadRow
      BY <1>0, <1>14 DEF ApiStops, UploadSteps, UploadRow
    <3>2. uploads' = [n \in 1 .. Len(uploads) |-> uploads'[n]] /\ Len(uploads) \in Nat
      BY <1>0, <1>14 DEF ApiStops
    <3>3. uploads' \in [1 .. Len(uploads) -> UploadRow]
      BY <3>1, <3>2
    <3>4. QED
      BY <1>0, <3>3
  <2>2. QED
    BY <1>14, <2>1 DEF ApiStops, localCopy
<1>15. ASSUME NEW i \in Imports, DeleteOnline(i) PROVE MoveTypes'
  <2>1. online[i] \in [status : OnlineStatuses, copy : Nat]
    OBVIOUS
  <2>2. \E s \in OnlineStatuses, c \in Nat : OnlineRow(i, s, c)
    BY <1>15, <2>1 DEF DeleteOnline, OnlineStatuses
  <2>3. QED
    BY <1>15, <2>2 DEF DeleteOnline, OnlineRow, localCopy
<1>16. QED
  BY <1>1, <1>2, <1>3, <1>4, <1>5, <1>6, <1>7, <1>8, <1>9, <1>10, <1>11, <1>12, <1>13, <1>14, <1>15 DEF MoveNext, ServerStep


\* What the copy here may do while it is moved, and that the server has one upload of an import.
LEMMA MoveKept ==
    ASSUME MoveInv, [MoveNext]_moveVars
    PROVE  MoveInv'
<1>1. MoveTypes /\ MoveTypes'
  BY MoveTypesKept DEF MoveInv
<1>2. excuses \subseteq excuses'
  BY DEF MoveNext, moveVars, Ask, Commit, Fail, BeginMove, Pause, Export, Upload, Unanswered, Refused, Accepted, Unreadable, Finish,
      SwitchToOnline, Cancel, AppStops, ServerStep, PreviousAttempt, Reserve, Load, ApiStops, DeleteOnline
<1>3. SUFFICES ASSUME excuses' \cap {"cancelled", "unread"} = {}
               PROVE  /\ PausedWhileMoving' /\ UploadsSound'
                      /\ "late" \notin excuses' => CopyWhole'
                      /\ "misheard" \notin excuses' => OneImport'
  BY <1>1 DEF MoveInv
<1>4. /\ PausedWhileMoving /\ UploadsSound
      /\ "late" \notin excuses' => CopyWhole
      /\ "misheard" \notin excuses' => OneImport
  BY <1>2, <1>3 DEF MoveInv
<1> DEFINE Goal == /\ PausedWhileMoving' /\ UploadsSound'
                   /\ "late" \notin excuses' => CopyWhole'
                   /\ "misheard" \notin excuses' => OneImport'
<1>a. MaxImports \in Nat /\ NoImport \notin Imports
  BY MoveAssumption DEF MoveAssumption, NoImport, Imports
<1>b. DOMAIN uploads = 1 .. Len(uploads) /\ Len(uploads) \in Nat /\ \A n \in DOMAIN uploads : uploads[n] \in UploadRow
  BY <1>1 DEF MoveTypes
<1>c. NoMove.at = "idle"
  BY DEF NoMove
<1>d. \A at \in MoveSteps : [move EXCEPT !.at = at].at = at
  BY <1>1 DEF MoveTypes
<1>5. CASE UNCHANGED moveVars
  BY <1>4, <1>5 DEF moveVars, PausedWhileMoving, UploadsSound, CopyWhole, OneImport, Sent, MayHave, UnderWay
<1>6. ASSUME Commit \/ Fail \/ \E kind \in {"work", "open", "sale", "close"} : Ask(kind) PROVE Goal
  <2>1. UNCHANGED <<status, pending, move, uploads, online, excuses>>
    BY <1>6 DEF Commit, Fail, Ask
  <2>2. PausedWhileMoving' /\ UploadsSound' /\ ("misheard" \notin excuses' => OneImport')
    BY <1>4, <2>1 DEF PausedWhileMoving, UploadsSound, OneImport, Sent, MayHave, UnderWay
  <2>3. ASSUME "late" \notin excuses' PROVE CopyWhole'
    BY <1>4, <1>6, <2>1, <2>3 DEF CopyWhole, PausedWhileMoving, Commit, Fail, Ask
  <2>4. QED
    BY <2>2, <2>3
<1>7. CASE BeginMove \/ Pause
  <2>1. /\ UNCHANGED <<pending, change, work, uploads, online, excuses>>
        /\ status' \in {status, "MIGRATING"} /\ (status' # status => status = "ACTIVE")
    BY <1>4, <1>7 DEF BeginMove, Pause, localCopy, PausedWhileMoving
  <2>2. /\ move'.at \in {"idle", "checked", "paused"}
        /\ move'.at = "checked" => status = "ACTIVE" /\ status' = "ACTIVE"
        /\ move'.at = "paused" => status = "ACTIVE" /\ status' = "MIGRATING"
    BY <1>4, <1>7, <1>c, <1>d DEF BeginMove, Pause, localCopy, At, MoveSteps, PausedWhileMoving
  <2>3. PausedWhileMoving' /\ UploadsSound'
    BY <1>4, <2>1, <2>2 DEF PausedWhileMoving, UploadsSound, Sent
  <2>4. ASSUME "late" \notin excuses' PROVE CopyWhole'
    BY <1>4, <2>1, <2>2, <2>4 DEF CopyWhole
  <2>5. ASSUME "misheard" \notin excuses' PROVE OneImport'
    BY <1>4, <2>1, <2>5 DEF OneImport, MayHave, UnderWay
  <2>6. QED
    BY <2>3, <2>4, <2>5
<1>8. CASE Export
  <2>1. move.at = "paused" /\ status = "MIGRATING" /\ pending = NoImport
    BY <1>4, <1>8 DEF Export, PausedWhileMoving
  <2>2. UNCHANGED <<pending, change, work, uploads, online>>
    BY <1>8 DEF Export
  <2>3. \/ /\ move' = [move EXCEPT !.at = "exported", !.copy = work] /\ status' = status
           /\ change = "none" \/ "late" \in excuses'
        \/ move' = NoMove /\ status' \in {"ACTIVE", "MIGRATING"}
    BY <1>8, <2>1 DEF Export, Abort
  <2>4. \/ move'.at = "exported" /\ move'.copy = work /\ status' = "MIGRATING" /\ (change = "none" \/ "late" \in excuses')
        \/ move'.at = "idle" /\ status' \in {"ACTIVE", "MIGRATING"}
    BY <1>1, <1>c, <2>1, <2>3 DEF MoveTypes
  <2>5. PausedWhileMoving'
    BY <1>4, <2>1, <2>2, <2>4 DEF PausedWhileMoving
  <2>6. UploadsSound'
    BY <1>2, <1>4, <2>2, <2>4 DEF UploadsSound, Sent
  <2>7. ASSUME "late" \notin excuses' PROVE CopyWhole'
    BY <1>4, <2>1, <2>2, <2>4, <2>7 DEF CopyWhole
  <2>8. ASSUME "misheard" \notin excuses' PROVE OneImport'
    <3>1. \A i \in Imports : ~MayHave(i)
      BY <1>4, <1>a, <2>1, <2>8 DEF OneImport
    <3>2. QED
      BY <2>2, <3>1 DEF OneImport, MayHave, UnderWay
  <2>9. QED
    BY <2>5, <2>6, <2>7, <2>8
<1>9. CASE Upload
  <2>1. move.at = "exported" /\ status = "MIGRATING" /\ pending = NoImport
    BY <1>4, <1>9 DEF Upload, PausedWhileMoving
  <2>2. PICK i \in Imports : /\ ~Sent(i) /\ pending' = i
                             /\ uploads' = Append(uploads, [import |-> i, copy |-> move.copy, at |-> "received"])
    BY <1>9, <2>1 DEF Upload
  <2>3. UNCHANGED <<status, change, work, online, excuses>>
    BY <1>9 DEF Upload, localCopy
  <2>4. move'.at = "waiting" /\ move'.upload = Len(uploads) + 1
    BY <1>1, <1>9 DEF MoveTypes, Upload
  <2>5. /\ DOMAIN uploads' = 1 .. (Len(uploads) + 1)
        /\ \A n \in DOMAIN uploads : uploads'[n] = uploads[n]
        /\ uploads'[Len(uploads) + 1].import = i /\ uploads'[Len(uploads) + 1].copy = move.copy
        /\ uploads'[Len(uploads) + 1].at = "received"
    BY <1>1, <1>b, <2>2 DEF MoveTypes
  <2>6. \A n \in DOMAIN uploads' : n \in DOMAIN uploads \/ n = Len(uploads) + 1
    BY <1>b, <2>5
  <2>7. online[i].status = "none" /\ \A n \in DOMAIN uploads : uploads[n].import # i
    BY <1>4, <2>2 DEF UploadsSound, Sent
  <2>8. Len(uploads) + 1 \in DOMAIN uploads' /\ DOMAIN uploads \subseteq DOMAIN uploads'
    BY <1>b, <2>5
  <2>9. \A j \in Imports : Sent(j)' <=> Sent(j) \/ j = i
    BY <2>2, <2>5, <2>6, <2>8 DEF Sent
  <2>10. PausedWhileMoving'
    BY <1>a, <2>1, <2>2, <2>3, <2>4, <2>5, <2>8, <2>9 DEF PausedWhileMoving
  <2>11. UploadsSound'
    BY <1>4, <2>2, <2>3, <2>4, <2>5, <2>6, <2>7, <2>9 DEF UploadsSound, InUse
  <2>12. ASSUME "late" \notin excuses' PROVE CopyWhole'
    BY <1>4, <2>1, <2>2, <2>3, <2>4, <2>5, <2>6, <2>7, <2>12 DEF CopyWhole
  <2>13. ASSUME "misheard" \notin excuses' PROVE OneImport'
    <3>1. \A j \in Imports : ~MayHave(j)
      BY <1>4, <1>a, <2>1, <2>13 DEF OneImport
    <3>2. \A j \in Imports : MayHave(j)' => j = i
      BY <2>3, <2>5, <2>6, <3>1 DEF MayHave, UnderWay
    <3>3. QED
      BY <2>1, <2>2, <2>3, <3>2 DEF OneImport
  <2>14. QED
    BY <2>10, <2>11, <2>12, <2>13
<1>10. CASE Unanswered \/ AppStops \/ Unreadable
  <2>1. /\ UNCHANGED <<status, pending, work, uploads, online, excuses>>
        /\ move'.at = "idle" /\ change' \in {change, "none"}
    BY <1>3, <1>4, <1>10 DEF Unanswered, AppStops, Unreadable, AwaitingAnswer, Abort, PausedWhileMoving, localCopy, NoMove
  <2>2. QED
    BY <1>4, <2>1 DEF PausedWhileMoving, UploadsSound, CopyWhole, OneImport, Sent, MayHave, UnderWay
<1>11. CASE Refused
  <2>1. /\ move.at = "waiting" /\ status = "MIGRATING" /\ pending = uploads[move.upload].import
        /\ move.upload \in DOMAIN uploads /\ pending \in Imports
    BY <1>4, <1>11, <1>b DEF Refused, PausedWhileMoving, UploadRow
  <2>2. /\ UNCHANGED <<change, work, uploads, online>>
        /\ move'.at = "idle" /\ pending' = NoImport /\ status' \in {"ACTIVE", "MIGRATING"}
    BY <1>11, <2>1 DEF Refused, Abort, NoMove
  <2>3. PausedWhileMoving' /\ UploadsSound'
    BY <1>2, <1>4, <2>2 DEF PausedWhileMoving, UploadsSound, Sent
  <2>4. ASSUME "late" \notin excuses' PROVE CopyWhole'
    BY <2>2 DEF CopyWhole
  <2>5. ASSUME "misheard" \notin excuses' PROVE OneImport'
    <3>1. ~MayHave(pending)
      BY <1>11, <2>1, <2>5 DEF Refused
    <3>2. \A j \in Imports : ~MayHave(j)
      BY <1>4, <2>1, <2>5, <3>1 DEF OneImport
    <3>3. QED
      BY <2>2, <3>2 DEF OneImport, MayHave, UnderWay
  <2>6. QED
    BY <2>3, <2>4, <2>5
<1>12. CASE Accepted
  <2>1. /\ UNCHANGED <<status, pending, change, work, uploads, online, excuses>>
        /\ move.at = "waiting" /\ uploads[move.upload].at = "made"
        /\ move'.at = "finishing" /\ move'.upload = move.upload
    BY <1>1, <1>12 DEF MoveTypes, Accepted, AwaitingAnswer, localCopy, At
  <2>2. PausedWhileMoving'
    BY <1>4, <2>1 DEF PausedWhileMoving, Sent
  <2>3. UploadsSound'
    BY <1>4, <2>1 DEF PausedWhileMoving, UploadsSound, Sent
  <2>4. QED
    BY <1>4, <2>1, <2>2, <2>3 DEF CopyWhole, OneImport, MayHave, UnderWay
<1>13. CASE Finish
  <2>1. /\ move.at = "finishing" /\ status = "MIGRATING" /\ pending = uploads[move.upload].import
        /\ move.upload \in DOMAIN uploads /\ pending \in Imports
    BY <1>4, <1>13, <1>b DEF Finish, PausedWhileMoving, UploadRow
  <2>2. /\ UNCHANGED <<change, work, uploads, online, excuses>>
        /\ \/ status' = "ARCHIVED" /\ pending' = NoImport /\ move'.at = "switching"
           \/ UNCHANGED <<status, pending>> /\ move'.at = "idle"
    BY <1>13, <1>c, <1>d DEF Finish, At, MoveSteps
  <2>3. PausedWhileMoving' /\ UploadsSound'
    BY <1>4, <2>1, <2>2 DEF PausedWhileMoving, UploadsSound, Sent
  <2>4. ASSUME "late" \notin excuses' PROVE CopyWhole'
    <3>1. change = "none" /\ uploads[move.upload].copy = work
      BY <1>4, <1>a, <2>1, <2>4 DEF CopyWhole
    <3>2. "erased" \notin excuses => online[pending].status \in InUse /\ online[pending].copy = work
      BY <1>4, <2>1, <3>1 DEF UploadsSound
    <3>3. QED
      BY <1>4, <2>1, <2>2, <2>4, <3>1, <3>2 DEF CopyWhole
  <2>5. ASSUME "misheard" \notin excuses' PROVE OneImport'
    BY <1>4, <2>1, <2>2, <2>5 DEF OneImport, MayHave, UnderWay
  <2>6. QED
    BY <2>3, <2>4, <2>5
<1>14. CASE SwitchToOnline
  <2>1. /\ UNCHANGED <<status, change, work, uploads, online, excuses>> /\ status = "ARCHIVED"
        /\ move'.at = "idle" /\ pending' = NoImport
    BY <1>14 DEF SwitchToOnline, localCopy, NoMove
  <2>2. QED
    BY <1>4, <2>1 DEF PausedWhileMoving, UploadsSound, CopyWhole, OneImport, Sent, MayHave, UnderWay
<1>15. CASE Cancel
  <2>1. /\ status = "MIGRATING" /\ status' = "ACTIVE" /\ ~Sent(pending) /\ move.at = "idle"
        /\ UNCHANGED <<pending, change, work, move, uploads, online, excuses>>
    BY <1>3, <1>15 DEF Cancel
  <2>2. pending = NoImport
    BY <1>4, <2>1 DEF PausedWhileMoving
  <2>3. PausedWhileMoving' /\ UploadsSound' /\ ("late" \notin excuses' => CopyWhole')
    BY <1>4, <2>1, <2>2 DEF PausedWhileMoving, UploadsSound, CopyWhole, Sent
  <2>4. ASSUME "misheard" \notin excuses' PROVE OneImport'
    <3>1. \A j \in Imports : ~MayHave(j)
      BY <1>4, <1>a, <2>1, <2>2, <2>4 DEF OneImport
    <3>2. QED
      BY <2>1, <3>1 DEF OneImport, MayHave, UnderWay
  <2>5. QED
    BY <2>3, <2>4
<1>16. ASSUME NEW n \in DOMAIN uploads, PreviousAttempt(n) \/ Reserve(n) \/ Load(n) PROVE Goal
  <2> DEFINE i == uploads[n].import
  <2>1. i \in Imports
    BY <1>b DEF UploadRow
  <2>2. UNCHANGED <<status, pending, change, work, move, excuses>>
    BY <1>16 DEF PreviousAttempt, Reserve, Load, localCopy
  <2>3. \A m \in DOMAIN uploads : m # n => uploads[m].import # i
    BY <1>4 DEF UploadsSound
  <2>4. \E step \in UploadSteps :
           /\ uploads' = [uploads EXCEPT ![n].at = step]
           /\ \/ step = "unpacking" /\ online[i].status = "none" /\ UNCHANGED online
              \/ step = "loading" /\ online' = [online EXCEPT ![i] = [status |-> "PROVISIONING", copy |-> 0]]
              \/ /\ step = "made" /\ uploads[n].at = "loading"
                 /\ online' = [online EXCEPT ![i] = [status |-> "ACTIVE", copy |-> uploads[n].copy]]
              \/ step = "refused" /\ UNCHANGED online
              \/ step = "refused" /\ online' = [online EXCEPT ![i] = [status |-> "FAILED", copy |-> 0]]
    BY <1>4, <1>16 DEF UploadsSound, PreviousAttempt, Reserve, Load, Server, OnlineRow, UploadSteps, InUse
  <2>5. PICK step \in UploadSteps :
           /\ uploads' = [uploads EXCEPT ![n].at = step]
           /\ \/ step = "unpacking" /\ online[i].status = "none" /\ UNCHANGED online
              \/ step = "loading" /\ online' = [online EXCEPT ![i] = [status |-> "PROVISIONING", copy |-> 0]]
              \/ /\ step = "made" /\ uploads[n].at = "loading"
                 /\ online' = [online EXCEPT ![i] = [status |-> "ACTIVE", copy |-> uploads[n].copy]]
              \/ step = "refused" /\ UNCHANGED online
              \/ step = "refused" /\ online' = [online EXCEPT ![i] = [status |-> "FAILED", copy |-> 0]]
    BY <2>4
  <2>6. /\ DOMAIN uploads' = DOMAIN uploads
        /\ \A m \in DOMAIN uploads : m # n => uploads'[m] = uploads[m]
        /\ uploads'[n].at = step /\ uploads'[n].import = i /\ uploads'[n].copy = uploads[n].copy
    BY <1>b, <2>5 DEF UploadRow
  <2>7. \A j \in Imports : j # i => online'[j] = online[j]
    BY <1>1, <2>5 DEF MoveTypes
  <2>8. UnderWay(n)
    BY <1>16 DEF PreviousAttempt, Reserve, Load, UnderWay
  <2>9. /\ \/ step = "unpacking" /\ online'[i].status = "none"
           \/ step = "loading" /\ online'[i].status = "PROVISIONING"
           \/ step = "made" /\ online'[i].status = "ACTIVE" /\ online'[i].copy = uploads[n].copy
           \/ step = "refused" /\ (online'[i] = online[i] \/ online'[i].status = "FAILED")
    BY <1>1, <2>1, <2>5 DEF MoveTypes
  <2> HIDE DEF i
  <2>10. \A m \in DOMAIN uploads : uploads'[m].import = uploads[m].import /\ uploads'[m].copy = uploads[m].copy
    BY <2>6 DEF i
  <2>11. \A j : Sent(j)' <=> Sent(j)
    BY <2>6, <2>10 DEF Sent
  <2>12. \A j \in Imports : MayHave(j)' => MayHave(j)
    BY <2>1, <2>6, <2>7, <2>8, <2>9, <2>10 DEF MayHave, UnderWay, i
  <2>13. PausedWhileMoving'
    BY <1>4, <2>2, <2>6, <2>10, <2>11 DEF PausedWhileMoving
  <2>14. Sent(i)
    BY DEF Sent, i
  <2>15. online[i].status \notin InUse
    BY <1>4, <2>8 DEF UploadsSound, UnderWay, InUse, i
  <2>16. \A m \in DOMAIN uploads : m # n => /\ uploads[m].import \in Imports /\ uploads[m].import # i
                                            /\ online'[uploads[m].import] = online[uploads[m].import]
    BY <1>b, <2>3, <2>7 DEF UploadRow, i
  <2>17. \A m \in DOMAIN uploads :
            /\ uploads'[m].at \in {"received", "unpacking"} => online'[uploads[m].import].status = "none"
            /\ uploads'[m].at = "loading" => online'[uploads[m].import].status = "PROVISIONING"
            /\ online'[uploads[m].import].status \in InUse => online'[uploads[m].import].copy = uploads[m].copy
            /\ uploads'[m].at = "made" /\ "erased" \notin excuses => online'[uploads[m].import].status \in InUse
    <3>1. /\ step \in {"received", "unpacking"} => online'[i].status = "none"
          /\ step = "loading" => online'[i].status = "PROVISIONING"
          /\ online'[i].status \in InUse => online'[i].copy = uploads[n].copy
          /\ step = "made" => online'[i].status \in InUse
      BY <2>9, <2>15 DEF InUse
    <3>2. QED
      BY <1>4, <2>6, <2>16, <3>1 DEF UploadsSound, i
  <2>18. move.at = "finishing" /\ "erased" \notin excuses => online'[pending].status \in InUse
    <3>1. ASSUME move.at = "finishing", "erased" \notin excuses PROVE online'[pending].status \in InUse
      <4>1. online[pending].status \in InUse /\ pending \in Imports
        BY <1>4, <1>b, <3>1 DEF UploadsSound, PausedWhileMoving, UploadRow
      <4>2. CASE pending = i
        BY <2>15, <4>1, <4>2
      <4>3. QED
        BY <2>7, <4>1, <4>2
    <3>2. QED
      BY <3>1
  <2>19. UploadsSound'
    BY <1>4, <2>2, <2>6, <2>7, <2>10, <2>11, <2>14, <2>17, <2>18 DEF UploadsSound
  <2>20. ASSUME "late" \notin excuses' PROVE CopyWhole'
    <3>1. \A j \in Imports : online[j].status \in InUse => online'[j] = online[j]
      BY <2>7, <2>15
    <3>2. QED
      BY <1>4, <2>2, <2>6, <2>10, <2>20, <3>1 DEF CopyWhole
  <2>21. ASSUME "misheard" \notin excuses' PROVE OneImport'
    BY <1>4, <2>2, <2>12, <2>21 DEF OneImport
  <2>22. QED
    BY <2>13, <2>19, <2>20, <2>21
<1>17. CASE ApiStops
  <2>1. /\ UNCHANGED <<status, pending, change, work, move, online, excuses>>
        /\ DOMAIN uploads' = DOMAIN uploads
        /\ \A n \in DOMAIN uploads : /\ uploads'[n].import = uploads[n].import /\ uploads'[n].copy = uploads[n].copy
                                     /\ uploads'[n].at \in {"refused", "gone"}
    BY <1>17, <1>b DEF ApiStops, localCopy, UploadRow
  <2>2. \A j : Sent(j)' <=> Sent(j)
    BY <2>1 DEF Sent
  <2>3. \A j \in Imports : MayHave(j)' => MayHave(j)
    BY <2>1 DEF MayHave, UnderWay
  <2>4. PausedWhileMoving' /\ UploadsSound'
    BY <1>4, <2>1, <2>2 DEF PausedWhileMoving, UploadsSound
  <2>5. QED
    BY <1>4, <2>1, <2>3, <2>4 DEF CopyWhole, OneImport
<1>18. ASSUME NEW i \in Imports, DeleteOnline(i) PROVE Goal
  <2>1. /\ UNCHANGED <<status, pending, change, work, move, uploads>>
        /\ \A j \in Imports : j # i => online'[j] = online[j]
        /\ \/ /\ online[i].status \in InUse /\ online'[i].status \in InUse /\ online'[i].copy = online[i].copy
              /\ excuses' = excuses
           \/ /\ online[i].status \in InUse /\ online'[i].status = "none"
              /\ excuses' = excuses \cup {"erased"}
    BY <1>1, <1>18 DEF MoveTypes, DeleteOnline, OnlineRow, localCopy, InUse
  <2>2. \A j : Sent(j)' <=> Sent(j)
    BY <2>1 DEF Sent
  <2>3. \A j \in Imports : MayHave(j)' => MayHave(j)
    BY <2>1 DEF MayHave, UnderWay, InUse
  <2>4. PausedWhileMoving'
    BY <1>4, <2>1, <2>2 DEF PausedWhileMoving
  <2>5. UploadsSound'
    BY <1>4, <1>a, <1>b, <2>1, <2>2 DEF UploadsSound, PausedWhileMoving, UploadRow, InUse
  <2>6. ASSUME "late" \notin excuses' PROVE CopyWhole'
    BY <1>4, <2>1, <2>6 DEF CopyWhole
  <2>7. QED
    BY <1>4, <2>1, <2>3, <2>4, <2>5, <2>6 DEF OneImport
<1>19. QED
  BY <1>5, <1>6, <1>7, <1>8, <1>9, <1>10, <1>11, <1>12, <1>13, <1>14, <1>15, <1>16, <1>17, <1>18 DEF MoveNext, ServerStep


\* A business moves online once and whole: when the copy here is archived the online business
\* started with every change made here, and the business is never in use in two places; whichever
\* uploads are repeated, answered late or not at all, and wherever app and servers stop
\* (move-online.ts, import.service.ts), but for the excuses the property names.
THEOREM MovedOnceHolds == MoveSpec => []MovedOnce
<1>1. MoveInv => MovedOnce
  <2> SUFFICES ASSUME MoveInv PROVE MovedOnce
    OBVIOUS
  <2>1. EverythingMoved
    BY DEF MoveInv, EverythingMoved, CopyWhole, InUse
  <2>2. OneBusiness
    <3> DEFINE used == {i \in Imports : online[i].status = "ACTIVE"}
    <3> SUFFICES ASSUME excuses \cap {"misheard", "cancelled", "unread"} = {}
                 PROVE  Cardinality(used) <= 1 /\ (status = "ACTIVE" => \A i \in Imports : online[i].status # "ACTIVE")
      BY DEF OneBusiness
    <3>1. OneImport
      BY DEF MoveInv
    <3>2. \A i \in used : i \in Imports /\ MayHave(i)
      BY DEF MayHave
    <3>3. \A i, j \in used : i = j
      BY <3>1, <3>2 DEF OneImport
    <3>4. used = {} \/ \E i \in used : used = {i}
      BY <3>3
    <3>5. Cardinality(used) <= 1
      <4> HIDE DEF used
      <4>1. CASE used = {}
        BY <4>1, FS_EmptySet
      <4>2. ASSUME NEW i \in used, used = {i} PROVE Cardinality(used) = 1
        BY <4>2, FS_Singleton
      <4>3. QED
        BY <3>4, <4>1, <4>2
    <3>6. QED
      BY <3>1, <3>5 DEF OneImport, MayHave
  <2>3. QED
    BY <2>1, <2>2 DEF MovedOnce
<1>2. QED
  BY <1>1, MoveStarts, MoveKept, PTL DEF MoveSpec

-----------------------------------------------------------------------------
(* Backups.                                                                *)

Changes == Nat \ {0}
Backup == [n : Nat, date : Nat, rows : SUBSET Changes, files : SUBSET Nat]
JobKinds == {"none", "daily", "manual", "start", "restore"}
BackupSteps == {"none", "read", "write", "taken", "migrate"}
Swapping == {"swap", "drop", "uploadFolders", "uploadFolders in"}
RestoreSteps == {"stop", "unpack", "build", "set aside"} \cup Swapping

BackupTypes ==
    /\ date \in Nat /\ made \in Nat \ {0}
    /\ live \in (SUBSET Changes) \cup {NoDatabase}
    /\ aside \in SUBSET Nat /\ built \in SUBSET Nat
    /\ uploadFolders \in [used : SUBSET Nat, waiting : SUBSET Nat, before : SUBSET Nat]
    /\ folder \subseteq Backup
    /\ replaced \in [rows : SUBSET Changes, date : Nat]
    /\ job \in [kind : JobKinds, step : BackupSteps \cup RestoreSteps, file : Backup \cup {NoFile}, rows : SUBSET Changes]

\* What a step of the app's job rests on.
JobSound ==
    /\ job.step \in RestoreSteps => job.kind = "restore"
    /\ job.kind = "restore" => job.file \in Backup /\ job.step \notin {"none", "taken"}
    /\ job.kind = "restore" /\ job.step = "write" => job.rows = replaced.rows
    /\ job.step \in {"unpack", "build", "set aside", "migrate"} \cup Swapping => ~api
    /\ job.kind = "start" => ~api
    /\ job.step \in {"set aside", "swap"} => built = job.file.rows
    /\ job.step = "swap" => aside \in SUBSET Changes
    /\ api => live # NoDatabase

\* What the last restore replaces is in the live database until it is in a backup.
BackedUpFirst ==
    /\ replaced.date <= date
    /\ \/ replaced = NoneReplaced \/ date - replaced.date >= KeepDays
       \/ replaced.rows \subseteq live /\ (job.kind = "restore" => job.step \in {"read", "write"})
       \/ \E b \in folder : b.rows = replaced.rows /\ b.date >= replaced.date

\* The business's first change is in whatever may become its database.
NeverLost ==
    /\ IF job.step = "swap" THEN 1 \in aside ELSE 1 \in live
    /\ \A b \in folder : 1 \in b.rows
    /\ job.step = "write" => 1 \in job.rows
    /\ job.kind = "restore" => 1 \in job.file.rows

\* Rows and the uploads they refer to go together.
FilesThere ==
    /\ job.step \notin Swapping => live \subseteq uploadFolders.used
    /\ job.step = "swap" => aside \subseteq uploadFolders.used
    /\ \A b \in folder : b.rows \subseteq b.files
    /\ job.step = "write" => job.rows \subseteq uploadFolders.used
    /\ job.kind = "restore" => job.file.rows \subseteq job.file.files
    /\ job.step \in {"build", "set aside"} \cup Swapping => uploadFolders.waiting = job.file.files
    /\ job.step \in Swapping \ {"swap"} => live = job.file.rows

BackupsInv ==
    /\ BackupTypes /\ JobSound /\ BackedUpFirst
    /\ "between the databases" \notin mishaps => NeverLost
    /\ mishaps = {} => FilesThere


LEMMA BackupsStart == BackupsInit => BackupsInv
<1> SUFFICES ASSUME BackupsInit PROVE BackupsInv
  OBVIOUS
<1>1. BackupTypes /\ JobSound /\ BackedUpFirst
  BY DEF BackupsInit, BackupTypes, JobSound, BackedUpFirst, NoDatabase, NoFolder, NoJob, NoFile, NoneReplaced, Changes,
      Backup, JobKinds, BackupSteps, RestoreSteps, Swapping
<1>2. NeverLost /\ FilesThere
  BY DEF BackupsInit, NeverLost, FilesThere, NoJob, Swapping
<1>3. QED
  BY <1>1, <1>2 DEF BackupsInv

\* A backup is removed only when it is older than the days kept, and never the newest.
LEMMA KeptFiles ==
    ASSUME NEW files
    PROVE  /\ Kept(files) \subseteq files
           /\ \A b \in files : b.date > date - KeepDays => b \in Kept(files)
           /\ \A b \in files : (\A c \in files : c.n <= b.n) => b \in Kept(files)
BY DEF Kept

LEMMA BackupTypesKept ==
    ASSUME BackupTypes, JobSound, [BackupsNext]_backupVars
    PROVE  BackupTypes'
<1> DEFINE JobType == [kind : JobKinds, step : BackupSteps \cup RestoreSteps, file : Backup \cup {NoFile}, rows : SUBSET Changes]
<1>1. job \in JobType /\ job.rows \in SUBSET Changes
  BY DEF BackupTypes
<1>2. NoJob \in JobType
  BY DEF NoJob, JobKinds, BackupSteps
<1>3. \A step \in BackupSteps \cup RestoreSteps : [job EXCEPT !.step = step] \in JobType
  BY <1>1
<1>4. \A kind \in JobKinds, step \in BackupSteps \cup RestoreSteps : [NoJob EXCEPT !.kind = kind, !.step = step] \in JobType
  BY <1>2
<1>5. \A b \in Backup : b.rows \in SUBSET Changes /\ b.files \in SUBSET Nat /\ b.date \in Nat /\ b.n \in Nat
  BY DEF Backup
<1>6. \A b \in Backup : [NoJob EXCEPT !.kind = "restore", !.step = "read", !.file = b] \in JobType
  BY <1>2 DEF JobKinds, BackupSteps
<1>7. \A s \in SUBSET Changes : s \in SUBSET Nat
  BY DEF Changes
<1>8. NoDatabase \in SUBSET Nat /\ NoFolder \in SUBSET Nat
  BY DEF NoDatabase, NoFolder
<1> HIDE DEF JobType
<1>9. SUFFICES /\ date' \in Nat /\ made' \in Nat \ {0} /\ live' \in (SUBSET Changes) \cup {NoDatabase}
               /\ aside' \in SUBSET Nat /\ built' \in SUBSET Nat
               /\ uploadFolders' \in [used : SUBSET Nat, waiting : SUBSET Nat, before : SUBSET Nat]
               /\ folder' \subseteq Backup /\ replaced' \in [rows : SUBSET Changes, date : Nat] /\ job' \in JobType
  BY DEF BackupTypes, JobType
<1>10. CASE UNCHANGED backupVars
  BY <1>1, <1>10 DEF BackupTypes, backupVars
<1>11. CASE Change
  <2>1. made + 1 \in Changes /\ made + 1 \in Nat
    BY DEF BackupTypes, Changes
  <2>2. live \in SUBSET Changes
    BY <1>11 DEF BackupTypes, JobSound, Change
  <2>3. QED
    BY <1>1, <1>11, <2>1, <2>2 DEF Change, BackupTypes, stored
<1>12. CASE NextDate
  BY <1>1, <1>12 DEF NextDate, BackupTypes, data, stored, history
<1>13. ASSUME NEW kind \in {"daily", "manual", "start"}, BeginBackup(kind) PROVE BackupTypes'
  <2>1. folder' \subseteq Backup
    BY <1>13, KeptFiles DEF BeginBackup, BackupTypes
  <2>2. job' \in JobType
    <3>1. kind \in JobKinds /\ {"taken", "read"} \subseteq BackupSteps \cup RestoreSteps
      BY DEF JobKinds, BackupSteps
    <3>2. job' = [NoJob EXCEPT !.kind = kind, !.step = "taken"] \/ job' = [NoJob EXCEPT !.kind = kind, !.step = "read"]
      BY <1>13 DEF BeginBackup
    <3>3. QED
      BY <1>4, <3>1, <3>2
  <2>3. QED
    BY <1>13, <2>1, <2>2 DEF BeginBackup, BackupTypes, JobType, data, history
<1>14. CASE ReadRows
  <2>1. live \in SUBSET Changes
    BY <1>14 DEF ReadRows, BackupTypes
  <2>2. job' \in JobType
    BY <1>1, <1>14, <2>1 DEF ReadRows, JobType, BackupSteps
  <2>3. replaced' \in [rows : SUBSET Changes, date : Nat]
    BY <1>14, <2>1 DEF ReadRows, BackupTypes
  <2>4. QED
    BY <1>14, <2>2, <2>3 DEF ReadRows, BackupTypes, data, stored
<1>15. CASE WriteFile
  <2>1. PICK n \in 1 .. MaxBackups :
           folder' = Kept(folder \cup {[n |-> n, date |-> date, rows |-> job.rows, files |-> uploadFolders.used]})
    BY <1>15 DEF WriteFile
  <2>2. [n |-> n, date |-> date, rows |-> job.rows, files |-> uploadFolders.used] \in Backup
    BY <1>1, BackupsAssumption DEF BackupsAssumption, BackupTypes, Backup
  <2>3. folder' \subseteq Backup
    BY <2>1, <2>2, KeptFiles DEF BackupTypes
  <2>4. job' \in JobType
    BY <1>3, <1>15 DEF WriteFile, GoesTo, BackupSteps, RestoreSteps
  <2>5. QED
    BY <1>15, <2>3, <2>4 DEF WriteFile, BackupTypes, data, history
<1>16. CASE CopyOffsite \/ BackupDone
  <2>1. job' \in JobType
    BY <1>1, <1>2, <1>3, <1>16 DEF CopyOffsite, BackupDone, GoesTo, BackupSteps
  <2>2. QED
    BY <1>16, <2>1 DEF CopyOffsite, BackupDone, BackupTypes, data, stored, history
<1>17. ASSUME NEW b \in folder, BeginRestore(b) PROVE BackupTypes'
  <2>1. job' \in JobType
    BY <1>6, <1>17 DEF BeginRestore, BackupTypes
  <2>2. QED
    BY <1>17, <2>1 DEF BeginRestore, BackupTypes, JobType, data, stored, history
<1>18. CASE StopApi
  BY <1>3, <1>18 DEF StopApi, GoesTo, BackupTypes, RestoreSteps, data, stored, history
<1>19. ASSUME Unpack \/ Build \/ SetAside \/ SwapIn \/ DropAside PROVE BackupTypes'
  <2>1. job' \in JobType
    BY <1>3, <1>19 DEF Unpack, Build, SetAside, SwapIn, DropAside, GoesTo, RestoreSteps, Swapping
  <2>2. job.file \in Backup
    BY <1>19 DEF Unpack, Build, SetAside, SwapIn, DropAside, Doing, JobSound
  <2>3. built' \in SUBSET Nat
    BY <1>5, <1>7, <1>8, <1>19, <2>2 DEF Unpack, Build, SetAside, SwapIn, DropAside, BackupTypes
  <2>4. aside' \in SUBSET Nat
    BY <1>7, <1>8, <1>19 DEF Unpack, Build, SetAside, SwapIn, DropAside, BackupTypes
  <2>5. live' \in (SUBSET Changes) \cup {NoDatabase}
    <3>1. CASE SwapIn
      <4>1. built = job.file.rows /\ live' = built
        BY <3>1 DEF SwapIn, JobSound, Doing
      <4>2. QED
        BY <1>5, <2>2, <4>1
    <3>2. QED
      BY <1>19, <3>1 DEF Unpack, Build, SetAside, DropAside, BackupTypes
  <2>6. uploadFolders' \in [used : SUBSET Nat, waiting : SUBSET Nat, before : SUBSET Nat]
    BY <1>5, <1>19, <2>2 DEF Unpack, Build, SetAside, SwapIn, DropAside, BackupTypes
  <2>7. UNCHANGED <<date, made, folder, replaced>>
    BY <1>19 DEF Unpack, Build, SetAside, SwapIn, DropAside, stored, history
  <2>8. QED
    BY <2>1, <2>3, <2>4, <2>5, <2>6, <2>7 DEF BackupTypes, JobType
<1>20. CASE SetUploadsAside \/ SwapUploads
  <2>1. job' \in JobType
    <3>1. {"uploadFolders in", "migrate"} \subseteq BackupSteps \cup RestoreSteps
      BY DEF RestoreSteps, Swapping, BackupSteps
    <3>2. job' = [job EXCEPT !.step = "uploadFolders in"] \/ job' = [job EXCEPT !.step = "migrate"]
      BY <1>20 DEF SetUploadsAside, SwapUploads, GoesTo
    <3>3. QED
      BY <1>3, <3>1, <3>2
  <2>2. uploadFolders' \in [used : SUBSET Nat, waiting : SUBSET Nat, before : SUBSET Nat]
    <3>1. /\ uploadFolders \in [used : SUBSET Nat, waiting : SUBSET Nat, before : SUBSET Nat]
          /\ uploadFolders.used \in SUBSET Nat /\ uploadFolders.waiting \in SUBSET Nat
      BY DEF BackupTypes
    <3>2. CASE SetUploadsAside
      <4>1. PICK s \in SUBSET Nat : uploadFolders' = [uploadFolders EXCEPT !.used = NoFolder, !.before = s]
        BY <1>8, <3>1, <3>2 DEF SetUploadsAside
      <4>2. QED
        BY <1>8, <3>1, <4>1
    <3>3. CASE SwapUploads
      BY <1>8, <3>1, <3>3 DEF SwapUploads
    <3>4. QED
      BY <1>20, <3>2, <3>3
  <2>3. QED
    BY <1>20, <2>1, <2>2 DEF SetUploadsAside, SwapUploads, BackupTypes, stored, history
<1>21. CASE RestoreFails
  <2>1. job' \in JobType
    BY <1>2, <1>3, <1>21 DEF RestoreFails, BackupSteps
  <2>2. live' \in (SUBSET Changes) \cup {NoDatabase} /\ aside' \in SUBSET Nat
    <3>1. CASE job.step = "swap"
      BY <1>8, <1>21, <3>1 DEF RestoreFails, BackupTypes, JobSound
    <3>2. QED
      BY <1>21, <3>1 DEF RestoreFails, BackupTypes
  <2>3. uploadFolders' \in [used : SUBSET Nat, waiting : SUBSET Nat, before : SUBSET Nat] /\ built' \in SUBSET Nat
    BY <1>8, <1>21 DEF RestoreFails, BackupTypes
  <2>4. QED
    BY <1>21, <2>1, <2>2, <2>3 DEF RestoreFails, BackupTypes, stored
<1>22. CASE StartApi
  BY <1>2, <1>22 DEF StartApi, BackupTypes, stored, history
<1>23. CASE Stop
  BY <1>2, <1>23 DEF Stop, BackupTypes, data, stored
<1>24. QED
  BY <1>10, <1>11, <1>12, <1>13, <1>14, <1>15, <1>16, <1>17, <1>18, <1>19, <1>20, <1>21, <1>22, <1>23
  DEF BackupsNext, BackupTypes, JobType


LEMMA AfterNat == \A n \in Nat : n + 1 # 0
OBVIOUS

\* One job at a time, and the API does not run while a restore is at its databases.
LEMMA JobKept ==
    ASSUME BackupTypes, JobSound, [BackupsNext]_backupVars
    PROVE  JobSound'
<1> USE DEF JobSound
<1>1. /\ NoJob.kind = "none" /\ NoJob.step = "none"
      /\ \A step \in BackupSteps \cup RestoreSteps :
            LET moved == [job EXCEPT !.step = step]
            IN  moved.step = step /\ moved.kind = job.kind /\ moved.file = job.file /\ moved.rows = job.rows
  BY DEF NoJob, BackupTypes
<1>2. {"stop", "unpack", "build", "set aside", "swap", "drop", "uploadFolders", "uploadFolders in"} = RestoreSteps
  BY DEF RestoreSteps, Swapping
<1>3. BackupSteps = {"none", "read", "write", "taken", "migrate"} /\ BackupSteps \cap RestoreSteps = {}
  BY DEF BackupSteps, RestoreSteps, Swapping
<1>4. Swapping = {"swap", "drop", "uploadFolders", "uploadFolders in"}
  BY DEF Swapping
<1>10. CASE UNCHANGED backupVars
  BY <1>10 DEF backupVars
<1>11. CASE Change
  <2>1. job.step # "swap" /\ job.step \notin {"set aside", "swap"} /\ api
    BY <1>4, <1>11 DEF Change
  <2>2. made + 1 \in live' /\ made + 1 # 0 /\ UNCHANGED <<api, job, built, aside, replaced>>
    <3>0. made \in Nat
      BY DEF BackupTypes
    <3>1. made + 1 # 0
      BY <3>0, AfterNat
    <3>2. QED
      BY <1>11, <3>1 DEF Change
  <2>3. live' # NoDatabase
    BY <2>2 DEF NoDatabase
  <2>4. QED
    BY <2>1, <2>2, <2>3
<1>12. CASE NextDate
  BY <1>12 DEF NextDate, data, stored, history
<1>13. ASSUME NEW kind \in {"daily", "manual", "start"}, BeginBackup(kind) PROVE JobSound'
  <2>1. /\ job'.kind = kind /\ job'.step \in {"taken", "read"} /\ UNCHANGED <<api, live>>
        /\ kind = "start" => ~api
    BY <1>13 DEF BeginBackup, NoJob, data
  <2>2. QED
    BY <1>2, <1>4, <2>1
<1>14. CASE ReadRows
  <2>1. /\ job'.kind = job.kind /\ job'.step = "write" /\ job'.file = job.file /\ job'.rows = live
        /\ job.kind = "restore" => replaced'.rows = live
        /\ UNCHANGED <<api, live>>
    BY <1>14 DEF ReadRows, BackupTypes, data
  <2>2. QED
    BY <1>2, <1>4, <2>1
<1>15. CASE WriteFile
  <2>1. /\ job'.kind = job.kind /\ job'.file = job.file /\ job'.step = (IF job.kind = "restore" THEN "stop" ELSE "taken")
        /\ UNCHANGED <<api, live>>
    <3>1. {"stop", "taken"} \subseteq BackupSteps \cup RestoreSteps
      BY <1>2, <1>3
    <3>2. job' = [job EXCEPT !.step = IF job.kind = "restore" THEN "stop" ELSE "taken"] /\ UNCHANGED <<api, live>>
      BY <1>15 DEF WriteFile, GoesTo, data
    <3>3. QED
      BY <1>1, <3>1, <3>2
  <2>2. QED
    BY <1>2, <1>4, <2>1
<1>16. CASE CopyOffsite \/ BackupDone
  <2>1. /\ \/ UNCHANGED job
           \/ job' = NoJob
           \/ job.kind = "start" /\ job'.kind = "start" /\ job'.step = "migrate"
        /\ UNCHANGED <<api, live, built, aside, replaced>>
    BY <1>1, <1>3, <1>16 DEF CopyOffsite, BackupDone, Doing, GoesTo, data, history
  <2>2. QED
    BY <1>1, <1>2, <1>4, <2>1
<1>17. ASSUME NEW b \in folder, BeginRestore(b) PROVE JobSound'
  <2>1. /\ job'.kind = "restore" /\ job'.step = "read" /\ job'.file = b /\ b \in Backup
        /\ UNCHANGED <<api, live>>
    BY <1>17 DEF BeginRestore, BackupTypes, NoJob, data
  <2>2. QED
    BY <1>2, <1>4, <2>1
<1>18. CASE StopApi
  <2>1. job.file \in Backup /\ job'.kind = "restore" /\ job'.step = "unpack" /\ job'.file = job.file /\ ~api' /\ UNCHANGED live
    BY <1>1, <1>2, <1>18 DEF StopApi, Doing, GoesTo, data
  <2>2. QED
    BY <1>2, <1>4, <2>1
<1>19. CASE Unpack
  <2>1. job.file \in Backup /\ job'.kind = "restore" /\ job'.step = "build" /\ job'.file = job.file /\ ~api'
    BY <1>1, <1>2, <1>19 DEF Unpack, Doing, GoesTo
  <2>2. QED
    BY <1>2, <1>4, <2>1
<1>20. CASE Build
  <2>1. job.file \in Backup /\ job'.kind = "restore" /\ job'.step = "set aside" /\ job'.file = job.file /\ ~api' /\ built' = job.file.rows
    BY <1>1, <1>2, <1>20 DEF Build, Doing, GoesTo
  <2>2. QED
    BY <1>2, <1>4, <2>1
<1>21. CASE SetAside
  <2>1. /\ job.file \in Backup /\ job'.kind = "restore" /\ job'.step = "swap" /\ job'.file = job.file /\ ~api' /\ built' = job.file.rows
        /\ aside' \in SUBSET Changes
    BY <1>1, <1>2, <1>21 DEF SetAside, Doing, GoesTo, BackupTypes
  <2>2. QED
    BY <1>2, <1>4, <2>1
<1>22. CASE SwapIn \/ DropAside \/ SetUploadsAside
  <2>0. /\ job.kind = "restore" /\ ~api /\ job.file \in Backup
        /\ \E step \in {"drop", "uploadFolders", "uploadFolders in"} : job' = [job EXCEPT !.step = step]
    BY <1>4, <1>22 DEF SwapIn, DropAside, SetUploadsAside, Doing, GoesTo
  <2>1. /\ job.file \in Backup /\ job'.kind = "restore" /\ job'.step \in {"drop", "uploadFolders", "uploadFolders in"}
        /\ job'.file = job.file /\ ~api'
    <3>1. PICK step \in {"drop", "uploadFolders", "uploadFolders in"} : job' = [job EXCEPT !.step = step]
      BY <2>0
    <3>2. step \in BackupSteps \cup RestoreSteps
      BY <1>2
    <3>3. UNCHANGED api
      BY <1>22 DEF SwapIn, DropAside, SetUploadsAside
    <3>4. QED
      BY <1>1, <2>0, <3>1, <3>2, <3>3
  <2>2. QED
    BY <1>2, <1>4, <2>1
<1>23. CASE SwapUploads
  <2>1. job.file \in Backup /\ job'.kind = "restore" /\ job'.step = "migrate" /\ job'.file = job.file /\ ~api'
    BY <1>1, <1>3, <1>4, <1>23 DEF SwapUploads, Doing
  <2>2. QED
    BY <1>2, <1>4, <2>1
<1>24. CASE RestoreFails
  <2>1. /\ UNCHANGED api
        /\ job.step \notin {"read", "write", "stop"} => job' = [job EXCEPT !.step = "migrate"]
        /\ job.step \in {"read", "write", "stop"} => job' = NoJob /\ UNCHANGED live
    BY <1>24 DEF RestoreFails
  <2>2. job.kind = "restore" /\ job.file \in Backup /\ job.step \notin {"none", "taken"}
    BY <1>24 DEF RestoreFails
  <2>3. CASE job.step \in {"read", "write", "stop"}
    BY <1>1, <1>2, <1>4, <2>1, <2>3
  <2>4. CASE job.step \notin {"read", "write", "stop"}
    <3>1. ~api
      BY <1>2, <1>3, <1>4, <2>2, <2>4 DEF BackupTypes
    <3>2. job'.kind = "restore" /\ job'.step = "migrate" /\ job'.file = job.file
      <4>1. "migrate" \in BackupSteps \cup RestoreSteps
        BY <1>3
      <4>2. QED
        BY <1>1, <2>1, <2>2, <2>4, <4>1
    <3>3. QED
      BY <1>2, <1>4, <2>1, <2>2, <3>1, <3>2
  <2>5. QED
    BY <2>3, <2>4
<1>25. CASE StartApi
  BY <1>1, <1>2, <1>4, <1>25 DEF StartApi, NoDatabase
<1>26. CASE Stop
  BY <1>1, <1>2, <1>4, <1>26 DEF Stop
<1>27. QED
  BY <1>10, <1>11, <1>12, <1>13, <1>14, <1>15, <1>16, <1>17, <1>18, <1>19, <1>20, <1>21, <1>22, <1>23, <1>24, <1>25, <1>26
  DEF BackupsNext


\* What a restore replaces is backed up first, and kept while backups are.
LEMMA BackedUpKept ==
    ASSUME BackupTypes, JobSound, BackedUpFirst, [BackupsNext]_backupVars
    PROVE  BackedUpFirst'
<1>1. /\ date \in Nat /\ KeepDays \in Nat /\ replaced.date \in Nat /\ replaced.rows \in SUBSET Changes
      /\ \A b \in folder : b.date \in Nat
  BY BackupsAssumption DEF BackupsAssumption, BackupTypes, Backup
<1>2. date' \in Nat /\ date' >= date
  <2>1. date' = date \/ date' = date + 1
    BY DEF BackupsNext, backupVars, Change, NextDate, BeginBackup, ReadRows, WriteFile, CopyOffsite, BackupDone, BeginRestore,
        StopApi, Unpack, Build, SetAside, SwapIn, DropAside, SetUploadsAside, SwapUploads, RestoreFails, StartApi, Stop
  <2>2. QED
    BY <1>1, <2>1
<1> DEFINE Unneeded == replaced = NoneReplaced \/ date - replaced.date >= KeepDays
           InLive == replaced.rows \subseteq live /\ (job.kind = "restore" => job.step \in {"read", "write"})
           InFolder == \E b \in folder : b.rows = replaced.rows /\ b.date >= replaced.date
<1>3. replaced.date <= date /\ (Unneeded \/ InLive \/ InFolder)
  BY DEF BackedUpFirst
\* A round of pruning.
<1>4. ASSUME NEW more, folder \subseteq more, more \subseteq Backup, folder' = Kept(more), UNCHANGED <<date, replaced>>, InFolder
      PROVE  Unneeded \/ InFolder'
  <2>1. PICK b \in folder : b.rows = replaced.rows /\ b.date >= replaced.date
    BY <1>4
  <2>2. b.date \in Nat /\ b \in more
    BY <1>1, <1>4
  <2>3. CASE b.date > date - KeepDays
    BY <1>4, <2>1, <2>2, <2>3, KeptFiles
  <2>4. CASE ~(b.date > date - KeepDays)
    BY <1>1, <2>1, <2>2, <2>4
  <2>5. QED
    BY <2>3, <2>4
\* A step of another kind: nothing is lost, and a job is begun or goes on.
<1>5. ASSUME UNCHANGED <<replaced, folder>>, live \subseteq live' \/ live = NoDatabase,
             job'.kind = "restore" => job'.step \in {"read", "write"} \/ ~InLive
      PROVE  BackedUpFirst'
  <2>1. replaced'.date <= date'
    BY <1>1, <1>2, <1>3, <1>5
  <2>2. CASE Unneeded
    <3>1. Unneeded'
      BY <1>1, <1>2, <1>5, <2>2
    <3>2. QED
      BY <2>1, <3>1 DEF BackedUpFirst
  <2>3. CASE InLive
    <3>1. replaced.rows \subseteq live'
      <4>1. CASE live \subseteq live'
        BY <2>3, <4>1
      <4>2. CASE live = NoDatabase
        BY <1>1, <2>3, <4>2 DEF NoDatabase, Changes
      <4>3. QED
        BY <1>5, <4>1, <4>2
    <3>2. QED
      BY <1>5, <2>1, <2>3, <3>1 DEF BackedUpFirst
  <2>4. CASE InFolder
    BY <1>5, <2>1, <2>4 DEF BackedUpFirst
  <2>5. QED
    BY <1>3, <2>2, <2>3, <2>4
<1>6. /\ NoJob.kind = "none"
      /\ \A step \in BackupSteps \cup RestoreSteps : [job EXCEPT !.step = step].step = step /\ [job EXCEPT !.step = step].kind = job.kind
  BY DEF NoJob, BackupTypes
<1>7. RestoreSteps = {"stop", "unpack", "build", "set aside", "swap", "drop", "uploadFolders", "uploadFolders in"}
  BY DEF RestoreSteps, Swapping
<1>8. BackupSteps = {"none", "read", "write", "taken", "migrate"}
  BY DEF BackupSteps
<1>9. CASE UNCHANGED backupVars
  BY <1>3, <1>9 DEF backupVars, BackedUpFirst
<1>10. CASE Change
  <2>1. UNCHANGED <<replaced, folder, job>> /\ live \subseteq live'
    BY <1>10 DEF Change, stored
  <2>2. QED
    BY <1>5, <2>1
<1>11. CASE NextDate
  <2>1. UNCHANGED <<replaced, folder, job, live>>
    BY <1>11 DEF NextDate, data, stored, history
  <2>2. QED
    BY <1>5, <2>1
<1>12. ASSUME NEW kind \in {"daily", "manual", "start"}, BeginBackup(kind) PROVE BackedUpFirst'
  <2>1. /\ folder' = Kept(folder) \/ UNCHANGED folder
        /\ job'.kind # "restore" /\ UNCHANGED <<date, replaced, live>>
    BY <1>12 DEF BeginBackup, NoJob, data, history
  <2>2. CASE UNCHANGED folder
    BY <1>5, <2>1, <2>2
  <2>3. CASE folder' = Kept(folder)
    <3>1. InFolder => Unneeded \/ InFolder'
      BY <1>4, <2>1, <2>3 DEF BackupTypes
    <3>2. QED
      BY <1>3, <2>1, <3>1 DEF BackedUpFirst
  <2>4. QED
    BY <2>1, <2>2, <2>3
<1>13. CASE ReadRows
  <2>1. /\ UNCHANGED <<date, live, folder>> /\ job'.kind = job.kind /\ job'.step = "write"
        /\ IF job.kind = "restore" THEN replaced'.rows = live /\ replaced'.date = date ELSE replaced' = replaced
    BY <1>13 DEF ReadRows, BackupTypes, data, stored
  <2>2. CASE job.kind = "restore"
    BY <1>1, <2>1, <2>2 DEF BackedUpFirst
  <2>3. CASE job.kind # "restore"
    BY <1>5, <2>1, <2>3
  <2>4. QED
    BY <2>2, <2>3
<1>14. CASE WriteFile
  <2>1. PICK n \in 1 .. MaxBackups :
           /\ \A b \in folder : b.n < n
           /\ folder' = Kept(folder \cup {[n |-> n, date |-> date, rows |-> job.rows, files |-> uploadFolders.used]})
    BY <1>14 DEF WriteFile
  <2> DEFINE new == [n |-> n, date |-> date, rows |-> job.rows, files |-> uploadFolders.used]
             more == folder \cup {new}
  <2>2. /\ UNCHANGED <<date, live, replaced>> /\ job.step = "write"
        /\ job.kind = "restore" => job.rows = replaced.rows
        /\ job'.kind = job.kind
    <3>1. {"stop", "taken"} \subseteq BackupSteps \cup RestoreSteps
      BY <1>7, <1>8
    <3>2. QED
      BY <1>6, <1>14, <3>1 DEF WriteFile, GoesTo, JobSound, data, history
  <2>3. new \in Backup
    BY BackupsAssumption DEF BackupsAssumption, BackupTypes, Backup
  <2>4. InFolder => Unneeded \/ InFolder'
    <3>1. folder \subseteq more /\ more \subseteq Backup /\ folder' = Kept(more)
      BY <2>1, <2>3 DEF BackupTypes
    <3> HIDE DEF more
    <3>2. QED
      BY <1>4, <2>2, <3>1
  <2>5. CASE job.kind = "restore"
    <3>1. \A c \in more : c.n <= new.n
      BY <2>1, BackupsAssumption DEF BackupsAssumption, BackupTypes, Backup
    <3>2. new \in folder'
      BY <2>1, <3>1, KeptFiles
    <3>3. new.rows = replaced'.rows /\ new.date >= replaced'.date
      BY <1>1, <1>3, <2>2, <2>5
    <3>4. QED
      BY <1>3, <2>2, <3>2, <3>3 DEF BackedUpFirst
  <2>6. CASE job.kind # "restore"
    BY <1>3, <2>2, <2>4, <2>6 DEF BackedUpFirst
  <2>7. QED
    BY <2>5, <2>6
<1>15. CASE CopyOffsite \/ BackupDone
  <2>1. UNCHANGED <<replaced, folder, live>> /\ (UNCHANGED job \/ job' = NoJob \/ (job.kind = "start" /\ job' = [job EXCEPT !.step = "migrate"]))
    BY <1>15 DEF CopyOffsite, BackupDone, Doing, GoesTo, data, stored, history
  <2>2. job' # job => job'.kind # "restore"
    BY <1>6, <1>8, <2>1
  <2>3. QED
    BY <1>5, <2>1, <2>2
<1>16. ASSUME NEW b \in folder, BeginRestore(b) PROVE BackedUpFirst'
  <2>1. UNCHANGED <<replaced, folder, live>> /\ job'.step = "read"
    BY <1>16 DEF BeginRestore, NoJob, data, stored, history
  <2>2. QED
    BY <1>5, <2>1
<1>17. CASE StopApi \/ Unpack \/ Build \/ SetAside \/ SwapIn \/ DropAside \/ SetUploadsAside \/ SwapUploads
  <2>1. UNCHANGED <<date, replaced, folder>> /\ job.kind = "restore" /\ job.step \in RestoreSteps
    BY <1>7, <1>17 DEF StopApi, Unpack, Build, SetAside, SwapIn, DropAside, SetUploadsAside, SwapUploads, Doing, data, stored, history
  <2>2. ~InLive
    BY <1>7, <2>1
  <2>3. QED
    BY <1>3, <2>1, <2>2 DEF BackedUpFirst
<1>18. CASE RestoreFails
  <2>1. UNCHANGED <<replaced, folder>> /\ job.kind = "restore"
    BY <1>18 DEF RestoreFails, stored
  <2>2. CASE InLive
    <3>1. job' = NoJob /\ UNCHANGED live
      BY <1>18, <2>1, <2>2 DEF RestoreFails
    <3>2. QED
      BY <1>5, <1>6, <2>1, <3>1
  <2>3. CASE ~InLive
    <3>1. UNCHANGED date
      BY <1>18 DEF RestoreFails
    <3>2. QED
      BY <1>3, <2>1, <2>3, <3>1 DEF BackedUpFirst
  <2>4. QED
    BY <2>2, <2>3
<1>19. CASE StartApi
  <2>1. UNCHANGED <<replaced, folder>> /\ job' = NoJob /\ (live' = live \/ live = NoDatabase)
    BY <1>19 DEF StartApi, stored, history
  <2>2. QED
    BY <1>5, <1>6, <2>1
<1>20. CASE Stop
  <2>1. UNCHANGED <<replaced, folder, live>> /\ job' = NoJob
    BY <1>20 DEF Stop, data, stored
  <2>2. QED
    BY <1>5, <1>6, <2>1
<1>21. QED
  BY <1>9, <1>10, <1>11, <1>12, <1>13, <1>14, <1>15, <1>16, <1>17, <1>18, <1>19, <1>20 DEF BackupsNext


LEMMA FirstChange == 1 \notin NoDatabase
BY DEF NoDatabase

\* The first change is in every backup and in whatever is or becomes the database.
LEMMA NeverLostKept ==
    ASSUME BackupTypes, JobSound, "between the databases" \notin mishaps => NeverLost, [BackupsNext]_backupVars,
           "between the databases" \notin mishaps'
    PROVE  NeverLost'
<1>1. /\ NoJob.kind = "none" /\ NoJob.step = "none"
      /\ \A step \in BackupSteps \cup RestoreSteps :
            LET moved == [job EXCEPT !.step = step]
            IN  moved.step = step /\ moved.kind = job.kind /\ moved.file = job.file /\ moved.rows = job.rows
  BY DEF NoJob, BackupTypes
<1>2. RestoreSteps = {"stop", "unpack", "build", "set aside", "swap", "drop", "uploadFolders", "uploadFolders in"}
  BY DEF RestoreSteps, Swapping
<1>3. BackupSteps = {"none", "read", "write", "taken", "migrate"}
  BY DEF BackupSteps
<1>4. NeverLost
  BY DEF BackupsNext, backupVars, Change, NextDate, BeginBackup, ReadRows, WriteFile, CopyOffsite, BackupDone, BeginRestore,
      StopApi, Unpack, Build, SetAside, SwapIn, DropAside, SetUploadsAside, SwapUploads, RestoreFails, StartApi, Stop, data, history
<1>5. job.step = "swap" => job.kind = "restore" /\ ~api
  BY <1>2 DEF JobSound, Swapping
<1> USE DEF NeverLost
<1>9. CASE UNCHANGED backupVars
  BY <1>4, <1>9 DEF backupVars
<1>10. CASE Change
  BY <1>4, <1>5, <1>10 DEF Change, stored
<1>11. CASE NextDate
  BY <1>4, <1>11 DEF NextDate, data, stored
<1>12. ASSUME NEW kind \in {"daily", "manual", "start"}, BeginBackup(kind) PROVE NeverLost'
  <2>1. folder' \subseteq folder /\ job'.kind = kind /\ job'.step \in {"read", "taken"}
    BY <1>12, KeptFiles DEF BeginBackup, NoJob
  <2>2. job.step # "swap" /\ UNCHANGED live
    BY <1>1, <1>12 DEF BeginBackup, Free, data
  <2>3. QED
    BY <1>4, <2>1, <2>2
<1>13. CASE ReadRows
  <2>1. /\ job'.kind = job.kind /\ job'.step = "write" /\ job'.file = job.file /\ job'.rows = live
        /\ job.step # "swap" /\ UNCHANGED <<live, folder>>
    BY <1>13 DEF ReadRows, BackupTypes, data, stored
  <2>2. QED
    BY <1>4, <2>1
<1>14. CASE WriteFile
  <2>1. /\ job'.kind = job.kind /\ job'.file = job.file /\ job'.step \in {"stop", "taken"} /\ UNCHANGED live
        /\ job.step = "write"
    <3>1. {"stop", "taken"} \subseteq BackupSteps \cup RestoreSteps
      BY <1>2, <1>3
    <3>2. QED
      BY <1>1, <1>14, <3>1 DEF WriteFile, GoesTo, data
  <2>2. \A b \in folder' : b \in folder \/ b.rows = job.rows
    <3>1. PICK n \in 1 .. MaxBackups :
             folder' = Kept(folder \cup {[n |-> n, date |-> date, rows |-> job.rows, files |-> uploadFolders.used]})
      BY <1>14 DEF WriteFile
    <3> DEFINE new == [n |-> n, date |-> date, rows |-> job.rows, files |-> uploadFolders.used]
    <3>2. folder' \subseteq folder \cup {new}
      BY <3>1, KeptFiles
    <3>3. new.rows = job.rows /\ new.files = uploadFolders.used
      OBVIOUS
    <3> HIDE DEF new
    <3>4. QED
      BY <3>2, <3>3
  <2>3. QED
    BY <1>4, <2>1, <2>2
<1>15. CASE CopyOffsite \/ BackupDone
  <2>1. /\ UNCHANGED <<folder, live, aside>>
        /\ UNCHANGED job \/ job' = NoJob \/ (job.kind = "start" /\ job' = [job EXCEPT !.step = "migrate"])
        /\ job' # job => job.kind # "restore"
    BY <1>15 DEF CopyOffsite, BackupDone, Doing, GoesTo, data, stored
  <2>2. job' # job => job'.kind # "restore" /\ job'.step \in {"none", "migrate"}
    <3>1. "migrate" \in BackupSteps \cup RestoreSteps
      BY <1>3
    <3>2. QED
      BY <1>1, <2>1, <3>1
  <2>3. QED
    BY <1>4, <1>5, <2>1, <2>2
<1>16. ASSUME NEW b \in folder, BeginRestore(b) PROVE NeverLost'
  <2>1. /\ UNCHANGED <<folder, live>> /\ job'.step = "read" /\ job'.file = b /\ job.step # "swap"
    BY <1>1, <1>16 DEF BeginRestore, NoJob, Free, data, stored
  <2>2. QED
    BY <1>4, <2>1
<1>17. CASE StopApi \/ Unpack \/ Build \/ DropAside \/ SetUploadsAside \/ SwapUploads
  <2>1. \E step \in {"unpack", "build", "set aside", "uploadFolders", "uploadFolders in", "migrate"} : job' = [job EXCEPT !.step = step]
    BY <1>17 DEF StopApi, Unpack, Build, DropAside, SetUploadsAside, SwapUploads, GoesTo
  <2>2. job'.step \notin {"swap", "write"} /\ job'.kind = job.kind /\ job'.file = job.file
    <3>1. PICK step \in {"unpack", "build", "set aside", "uploadFolders", "uploadFolders in", "migrate"} : job' = [job EXCEPT !.step = step]
      BY <2>1
    <3>2. step \in BackupSteps \cup RestoreSteps
      BY <1>2, <1>3
    <3>3. QED
      BY <1>1, <3>1, <3>2
  <2>3. UNCHANGED <<folder, live>> /\ job.step # "swap"
    BY <1>17 DEF StopApi, Unpack, Build, DropAside, SetUploadsAside, SwapUploads, Doing, data, stored
  <2>4. QED
    BY <1>4, <2>2, <2>3
<1>18. CASE SetAside
  <2>1. "swap" \in BackupSteps \cup RestoreSteps
    BY <1>2
  <2>2. job'.step = "swap" /\ job'.kind = job.kind /\ job'.file = job.file
    BY <1>1, <1>18, <2>1 DEF SetAside, GoesTo
  <2>3. UNCHANGED folder /\ aside' = live /\ job.step = "set aside"
    BY <1>18 DEF SetAside, Doing, stored
  <2>4. QED
    BY <1>4, <2>2, <2>3
<1>19. CASE SwapIn
  <2>1. "drop" \in BackupSteps \cup RestoreSteps
    BY <1>2
  <2>2. job'.step = "drop" /\ job'.kind = job.kind /\ job'.file = job.file
    BY <1>1, <1>19, <2>1 DEF SwapIn, GoesTo
  <2>3. UNCHANGED folder /\ live' = job.file.rows /\ job.kind = "restore"
    BY <1>19 DEF SwapIn, Doing, stored, JobSound
  <2>4. QED
    BY <1>4, <2>2, <2>3
<1>20. CASE RestoreFails
  <2>1. /\ UNCHANGED folder /\ job.kind = "restore"
        /\ IF job.step = "swap" THEN live' = aside ELSE live' = live
        /\ job' = NoJob \/ job' = [job EXCEPT !.step = "migrate"]
    BY <1>20 DEF RestoreFails, stored
  <2>2. job'.step \in {"none", "migrate"} /\ (job'.kind = "restore" => job'.file = job.file)
    <3>1. "migrate" \in BackupSteps \cup RestoreSteps
      BY <1>3
    <3>2. QED
      BY <1>1, <2>1, <3>1
  <2>3. QED
    BY <1>4, <2>1, <2>2
<1>21. CASE StartApi
  <2>1. live # NoDatabase
    <3>1. 1 \in live
      BY <1>4, <1>21 DEF StartApi
    <3>2. 1 \notin NoDatabase
      BY FirstChange
    <3>3. QED
      BY <3>1, <3>2
  <2>2. QED
    BY <1>1, <1>4, <1>21, <2>1 DEF StartApi, stored
<1>22. CASE Stop
  <2>1. job.step # "swap"
    BY <1>22 DEF Stop, Halfway
  <2>2. QED
    BY <1>1, <1>4, <1>22, <2>1 DEF Stop, data, stored
<1>23. QED
  BY <1>9, <1>10, <1>11, <1>12, <1>13, <1>14, <1>15, <1>16, <1>17, <1>18, <1>19, <1>20, <1>21, <1>22 DEF BackupsNext


\* Rows never go without the uploads they refer to.
LEMMA FilesKept ==
    ASSUME BackupTypes, JobSound, "between the databases" \notin mishaps => NeverLost,
           mishaps = {} => FilesThere, [BackupsNext]_backupVars, mishaps' = {}
    PROVE  FilesThere'
<1>1. /\ NoJob.kind = "none" /\ NoJob.step = "none"
      /\ \A step \in BackupSteps \cup RestoreSteps :
            LET moved == [job EXCEPT !.step = step]
            IN  moved.step = step /\ moved.kind = job.kind /\ moved.file = job.file /\ moved.rows = job.rows
  BY DEF NoJob, BackupTypes
<1>2. RestoreSteps = {"stop", "unpack", "build", "set aside", "swap", "drop", "uploadFolders", "uploadFolders in"}
  BY DEF RestoreSteps, Swapping
<1>3. BackupSteps = {"none", "read", "write", "taken", "migrate"}
  BY DEF BackupSteps
<1>4. Swapping = {"swap", "drop", "uploadFolders", "uploadFolders in"}
  BY DEF Swapping
<1>5. mishaps \subseteq mishaps'
  BY DEF BackupsNext, backupVars, Change, NextDate, BeginBackup, ReadRows, WriteFile, CopyOffsite, BackupDone, BeginRestore,
      StopApi, Unpack, Build, SetAside, SwapIn, DropAside, SetUploadsAside, SwapUploads, RestoreFails, StartApi, Stop, data, history
<1>6. FilesThere /\ NeverLost
  BY <1>5
<1>7. uploadFolders \in [used : SUBSET Nat, waiting : SUBSET Nat, before : SUBSET Nat]
  BY DEF BackupTypes
<1>8. job.step \in Swapping => job.kind = "restore" /\ ~api
  BY <1>2, <1>4 DEF JobSound
<1> USE DEF FilesThere
<1>9. CASE UNCHANGED backupVars
  BY <1>6, <1>9 DEF backupVars
<1>10. CASE Change
  <2>1. /\ UNCHANGED <<job, folder>> /\ live' = live \cup {made + 1} /\ uploadFolders'.used = uploadFolders.used \cup {made + 1}
        /\ uploadFolders'.waiting = uploadFolders.waiting /\ api
    BY <1>7, <1>10 DEF Change, stored
  <2>2. job.step \notin Swapping
    BY <1>8, <2>1
  <2>3. job.step \in {"build", "set aside"} => ~api
    BY DEF JobSound
  <2>4. QED
    BY <1>4, <1>6, <2>1, <2>2, <2>3
<1>11. CASE NextDate
  BY <1>6, <1>11 DEF NextDate, data, stored
<1>12. ASSUME NEW kind \in {"daily", "manual", "start"}, BeginBackup(kind) PROVE FilesThere'
  <2>1. folder' \subseteq folder /\ job'.kind = kind /\ job'.step \in {"read", "taken"}
    BY <1>12, KeptFiles DEF BeginBackup, NoJob
  <2>2. job.step \notin Swapping /\ UNCHANGED <<live, uploadFolders>>
    BY <1>1, <1>4, <1>12 DEF BeginBackup, Free, data
  <2>3. QED
    BY <1>4, <1>6, <2>1, <2>2
<1>13. CASE ReadRows
  <2>1. /\ job'.kind = job.kind /\ job'.step = "write" /\ job'.file = job.file /\ job'.rows = live
        /\ job.step \notin Swapping /\ UNCHANGED <<live, folder, uploadFolders>>
    BY <1>4, <1>13 DEF ReadRows, BackupTypes, data, stored
  <2>2. QED
    BY <1>4, <1>6, <2>1
<1>14. CASE WriteFile
  <2>1. /\ job'.kind = job.kind /\ job'.file = job.file /\ job'.step \in {"stop", "taken"} /\ UNCHANGED <<live, uploadFolders>>
        /\ job.step = "write"
    <3>1. {"stop", "taken"} \subseteq BackupSteps \cup RestoreSteps
      BY <1>2, <1>3
    <3>2. QED
      BY <1>1, <1>14, <3>1 DEF WriteFile, GoesTo, data
  <2>2. \A b \in folder' : b \in folder \/ (b.rows = job.rows /\ b.files = uploadFolders.used)
    <3>1. PICK n \in 1 .. MaxBackups :
             folder' = Kept(folder \cup {[n |-> n, date |-> date, rows |-> job.rows, files |-> uploadFolders.used]})
      BY <1>14 DEF WriteFile
    <3> DEFINE new == [n |-> n, date |-> date, rows |-> job.rows, files |-> uploadFolders.used]
    <3>2. folder' \subseteq folder \cup {new}
      BY <3>1, KeptFiles
    <3>3. new.rows = job.rows /\ new.files = uploadFolders.used
      OBVIOUS
    <3> HIDE DEF new
    <3>4. QED
      BY <3>2, <3>3
  <2>3. QED
    BY <1>4, <1>6, <2>1, <2>2
<1>15. CASE CopyOffsite \/ BackupDone
  <2>1. /\ UNCHANGED <<folder, live, aside, uploadFolders>>
        /\ UNCHANGED job \/ job' = NoJob \/ (job.kind = "start" /\ job' = [job EXCEPT !.step = "migrate"])
        /\ job' # job => job.kind # "restore"
    BY <1>15 DEF CopyOffsite, BackupDone, Doing, GoesTo, data, stored
  <2>2. job' # job => job'.kind # "restore" /\ job'.step \in {"none", "migrate"}
    <3>1. "migrate" \in BackupSteps \cup RestoreSteps
      BY <1>3
    <3>2. QED
      BY <1>1, <2>1, <3>1
  <2>3. QED
    BY <1>4, <1>6, <1>8, <2>1, <2>2
<1>16. ASSUME NEW b \in folder, BeginRestore(b) PROVE FilesThere'
  <2>1. /\ UNCHANGED <<folder, live, uploadFolders>> /\ job'.step = "read" /\ job'.file = b /\ job.step \notin Swapping
    BY <1>1, <1>4, <1>16 DEF BeginRestore, NoJob, Free, data, stored
  <2>2. QED
    BY <1>4, <1>6, <2>1
<1>17. CASE StopApi \/ Unpack \/ Build
  <2>1. \/ job.step = "stop" /\ job' = [job EXCEPT !.step = "unpack"] /\ UNCHANGED uploadFolders
        \/ job.step = "unpack" /\ job' = [job EXCEPT !.step = "build"] /\ uploadFolders' = [uploadFolders EXCEPT !.waiting = job.file.files]
        \/ job.step = "build" /\ job' = [job EXCEPT !.step = "set aside"] /\ UNCHANGED uploadFolders
    BY <1>17 DEF StopApi, Unpack, Build, Doing, GoesTo, data
  <2>2. UNCHANGED <<folder, live>> /\ job.kind = "restore"
    BY <1>17 DEF StopApi, Unpack, Build, Doing, data, stored
  <2>3. /\ job'.kind = job.kind /\ job'.file = job.file
        /\ \/ job.step = "stop" /\ job'.step = "unpack"
           \/ job.step = "unpack" /\ job'.step = "build"
           \/ job.step = "build" /\ job'.step = "set aside"
    <3>1. {"unpack", "build", "set aside"} \subseteq BackupSteps \cup RestoreSteps
      BY <1>2
    <3>2. \A step \in {"unpack", "build", "set aside"} :
             job' = [job EXCEPT !.step = step] => job'.step = step /\ job'.kind = job.kind /\ job'.file = job.file
      BY <1>1, <3>1
    <3>3. QED
      BY <2>1, <3>2
  <2>4. /\ uploadFolders'.used = uploadFolders.used
        /\ uploadFolders'.waiting = IF job.step = "unpack" THEN job.file.files ELSE uploadFolders.waiting
    BY <1>7, <2>1
  <2>5. QED
    BY <1>4, <1>6, <2>2, <2>3, <2>4
<1>18. CASE SetAside
  <2>1. "swap" \in BackupSteps \cup RestoreSteps
    BY <1>2
  <2>2. job'.step = "swap" /\ job'.kind = job.kind /\ job'.file = job.file
    BY <1>1, <1>18, <2>1 DEF SetAside, GoesTo
  <2>3. UNCHANGED <<folder, uploadFolders>> /\ aside' = live /\ job.step = "set aside"
    BY <1>18 DEF SetAside, Doing, stored
  <2>4. QED
    BY <1>4, <1>6, <2>2, <2>3
<1>19. CASE SwapIn
  <2>1. "drop" \in BackupSteps \cup RestoreSteps
    BY <1>2
  <2>2. job'.step = "drop" /\ job'.kind = job.kind /\ job'.file = job.file
    BY <1>1, <1>19, <2>1 DEF SwapIn, GoesTo
  <2>3. UNCHANGED <<folder, uploadFolders>> /\ live' = job.file.rows /\ job.kind = "restore" /\ job.step = "swap"
    BY <1>19 DEF SwapIn, Doing, stored, JobSound
  <2>4. QED
    BY <1>4, <1>6, <2>2, <2>3
<1>20. CASE DropAside \/ SetUploadsAside
  <2>1. \/ job.step = "drop" /\ job' = [job EXCEPT !.step = "uploadFolders"]
        \/ job.step = "uploadFolders" /\ job' = [job EXCEPT !.step = "uploadFolders in"]
    BY <1>20 DEF DropAside, SetUploadsAside, Doing, GoesTo
  <2>2. /\ job'.kind = job.kind /\ job'.file = job.file /\ job'.step \in {"uploadFolders", "uploadFolders in"}
        /\ job.step \in {"drop", "uploadFolders"}
    <3>1. {"uploadFolders", "uploadFolders in"} \subseteq BackupSteps \cup RestoreSteps
      BY <1>2
    <3>2. \A step \in {"uploadFolders", "uploadFolders in"} :
             job' = [job EXCEPT !.step = step] => job'.step = step /\ job'.kind = job.kind /\ job'.file = job.file
      BY <1>1, <3>1
    <3>3. QED
      BY <2>1, <3>2
  <2>3. UNCHANGED <<folder, live>> /\ uploadFolders'.waiting = uploadFolders.waiting
    BY <1>7, <1>20 DEF DropAside, SetUploadsAside, stored
  <2>4. QED
    BY <1>4, <1>6, <2>2, <2>3
<1>21. CASE SwapUploads
  <2>1. "migrate" \in BackupSteps \cup RestoreSteps
    BY <1>3
  <2>2. job'.step = "migrate" /\ job'.kind = job.kind /\ job'.file = job.file
    BY <1>1, <1>21, <2>1 DEF SwapUploads
  <2>3. /\ UNCHANGED <<folder, live>> /\ uploadFolders'.used = uploadFolders.waiting
        /\ job.step = "uploadFolders in" /\ job.kind = "restore"
    BY <1>21 DEF SwapUploads, Doing, stored
  <2>4. QED
    BY <1>4, <1>6, <2>2, <2>3
<1>22. CASE RestoreFails
  <2>1. /\ UNCHANGED folder /\ job.kind = "restore"
        /\ IF job.step = "swap" THEN live' = aside ELSE live' = live
        /\ uploadFolders'.used = uploadFolders.used
        /\ job' = NoJob \/ job' = [job EXCEPT !.step = "migrate"]
    BY <1>7, <1>22 DEF RestoreFails, stored
  <2>2. job'.step \in {"none", "migrate"} /\ (job'.kind = "restore" => job'.file = job.file)
    <3>1. "migrate" \in BackupSteps \cup RestoreSteps
      BY <1>3
    <3>2. QED
      BY <1>1, <2>1, <3>1
  <2>3. job.step \notin {"drop", "uploadFolders", "uploadFolders in"}
    <3>1. ASSUME job.step \in {"drop", "uploadFolders", "uploadFolders in"} PROVE FALSE
      <4>1. Halfway = {"before the uploadFolders"}
        BY <3>1 DEF Halfway
      <4>2. "before the uploadFolders" \in mishaps'
        <5>1. mishaps' = mishaps \cup (Halfway \ {"between the databases"})
          BY <1>22 DEF RestoreFails
        <5>2. "before the uploadFolders" \in Halfway \ {"between the databases"}
          BY ONLY <4>1
        <5>3. QED
          BY ONLY <5>1, <5>2
      <4>3. QED
        BY <4>2
    <3>2. QED
      BY <3>1
  <2>4. QED
    BY <1>4, <1>6, <2>1, <2>2, <2>3
<1>23. CASE StartApi
  <2>1. job' = NoJob /\ UNCHANGED <<folder, uploadFolders>> /\ (live' = live \/ live' = {}) /\ job.step = "migrate"
    BY <1>23 DEF StartApi, stored
  <2>2. QED
    BY <1>1, <1>4, <1>6, <2>1
<1>24. CASE Stop
  <2>1. job.step \notin Swapping
    BY <1>4, <1>24 DEF Stop, Halfway
  <2>2. job' = NoJob /\ UNCHANGED <<folder, uploadFolders, live>>
    BY <1>24 DEF Stop, data, stored
  <2>3. QED
    BY <1>1, <1>4, <1>6, <2>1, <2>2
<1>25. QED
  BY <1>9, <1>10, <1>11, <1>12, <1>13, <1>14, <1>15, <1>16, <1>17, <1>18, <1>19, <1>20, <1>21, <1>22, <1>23, <1>24 DEF BackupsNext

\* Whatever fails and wherever the app stops, a restore can be undone for as long as backups are
\* kept, and a business at work has its database and the uploads it refers to, but for a stop
\* between the renames the property names (backups.ts restore, backup/database.ts).
THEOREM BusinessKeptHolds == BackupsSpec => []BusinessKept
<1>1. BackupsInv /\ [BackupsNext]_backupVars => BackupsInv'
  BY BackupTypesKept, JobKept, BackedUpKept, NeverLostKept, FilesKept DEF BackupsInv
<1>2. BackupsInv => BusinessKept
  <2> SUFFICES ASSUME BackupsInv PROVE BusinessKept
    OBVIOUS
  <2>1. api => job.step \notin Swapping
    BY DEF BackupsInv, JobSound
  <2>2. api => job.step # "swap"
    BY <2>1 DEF Swapping
  <2>3. QED
    BY <2>1, <2>2 DEF BackupsInv, BusinessKept, JobSound, BackedUpFirst, NeverLost, FilesThere
<1>3. QED
  BY <1>1, <1>2, BackupsStart, PTL DEF BackupsSpec
==============================================================================
