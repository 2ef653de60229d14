------------------------------ MODULE StockBook ------------------------------
(***************************************************************************)
(* What the stock ledger promises, one operation at a time: counts, stock  *)
(* taken out of and put back into batches, and the documents that move it  *)
(* (sales and their returns, purchases and what goes back to the supplier, *)
(* transfers between branches).  Stock.tla has the transactions.           *)
(*                                                                         *)
(* Quantities are whole multiples of an item's least count.  The goods a   *)
(* line moves are a function from the item's batches (NoBatch: its stock   *)
(* without one) to quantities; rows of one line and batch are added up.    *)
(***************************************************************************)
EXTENDS Integers, Sequences, FiniteSetsExt, Functions, Sums

CONSTANTS
    Branches,
    Items,        \* numbers, in the order of the items' ids
    Batches,
    NoBatch,      \* an item's stock without a batch (a null batchId)
    ItemOf,       \* the item of each batch
    Expiry,       \* the last day a batch may be sold
    Documents,    \* ids sales, purchases and transfers can get
    NoDocument,
    Ops,          \* the requests the clients may send
    MaxDay,       \* bound: the last business day
    MaxSwitches,  \* bound: times an item is switched to or from batches
    MaxDone       \* bound: operations carried out

\* What the clients may ask for: a line's item and quantity, and for goods
\* coming in their batch, which is one of the item's.
Sources == Batches \cup {NoBatch}
Positive == Nat \ {0}
Goods == [item : Items, qty : Positive]
BatchFits(g) == g.batch = NoBatch \/ ItemOf[g.batch] = g.item
GoodsIn == {g \in [item : Items, batch : Sources, qty : Positive] : BatchFits(g)}
CountOps ==
    {op \in [kind : {"opening", "reopening", "adjustIn", "adjustOut"}, branch : Branches,
             item : Items, batch : Sources, qty : Positive] : BatchFits(op)}
SaleOps == [kind : {"sale"}, doc : Documents, branch : Branches, past : BOOLEAN, paid : BOOLEAN, lines : Seq(Goods)]
TransferOps == [kind : {"transfer"}, doc : Documents, branch : Branches, to : Branches, lines : Seq(Goods)]
PurchaseOps == [kind : {"purchase"}, doc : Documents, branch : Branches, lines : Seq(GoodsIn)]
\* Some of a line comes back; `free`: what comes back is worth nothing (a full discount, rounding).
LineOps == [kind : {"return", "sendBack"}, doc : Documents, line : Positive, qty : Positive, free : BOOLEAN]
DocOps == [kind : {"cancel", "receive", "callBack"}, doc : Documents]

\* A document: its lines, what each sent out (or took in) and what came back,
\* by source.  A bill stays a DRAFT when goods worth nothing come back: it is "draftReturned",
\* and "cancelledReturned" when it is then cancelled.
States ==
    {"draft", "draftReturned", "settled", "cancelled", "cancelledReturned", "open", "received", "calledBack"}
Doc == [kind : {"sale", "purchase", "transfer"}, branch : Branches, to : Branches,
        lines : Seq(Goods \cup GoodsIn), out : Seq([Sources -> Int]), back : Seq([Sources -> Int]),
        day : Int, state : States]

ASSUME StockAssumption ==
    /\ Items \subseteq Nat
    /\ NoBatch \notin Batches /\ NoDocument \notin Doc
    /\ IsFiniteSet(Branches) /\ IsFiniteSet(Batches) /\ IsFiniteSet(Documents)
    /\ ItemOf \in [Batches -> Items]
    /\ Expiry \in [Batches -> Nat]
    /\ \A a, b \in Batches : Expiry[a] = Expiry[b] => a = b
    /\ \A op \in Ops : \/ op \in CountOps \/ op \in SaleOps \/ op \in TransferOps
                        \/ op \in PurchaseOps \/ op \in LineOps \/ op \in DocOps
    /\ \A a, b \in Ops : {a.kind, b.kind} \subseteq {"sale", "purchase", "transfer"} /\ a.kind # b.kind => a.doc # b.doc
    /\ MaxDay \in Nat /\ MaxSwitches \in Nat /\ MaxDone \in Nat

VARIABLES
    onHand,    \* ItemStock, per branch and item
    inBatch,   \* BatchStock, per branch and batch
    ledger,    \* the sum of the StockLedger rows, per branch, item and batch
    opening,   \* the OPENING row, per branch, item and batch (NoOpening: none)
    moved,     \* <<branch, item>> with rows other than OPENING
    counted,   \* per item: what counts and corrections of counts have added
    docs,      \* the documents made so far
    tracked,   \* items kept by batch
    switched,  \* how often each item was switched to or from batches
    past,      \* <<branch, item>> sold past the stock count
    today,     \* the business day
    done       \* operations carried out

bookVars == <<onHand, inBatch, ledger, opening, moved, counted, docs, tracked, switched, past, today, done>>

NoOpening == -1
Nothing == [s \in Sources |-> 0]
Least(a, b) == IF a < b THEN a ELSE b
AtLeast0(n) == IF n < 0 THEN 0 ELSE n
SourcesOf(i) == {NoBatch} \cup {s \in Batches : ItemOf[s] = i}

TypeOK ==
    /\ onHand \in [Branches \X Items -> Int]
    /\ inBatch \in [Branches \X Batches -> Int]
    /\ ledger \in [Branches \X Items \X Sources -> Int]
    /\ opening \in [Branches \X Items \X Sources -> Nat \cup {NoOpening}]
    /\ moved \subseteq Branches \X Items /\ past \subseteq Branches \X Items
    /\ counted \in [Items -> Int]
    /\ tracked \subseteq Items /\ switched \in [Items -> 0..MaxSwitches]
    /\ today \in 0..MaxDay /\ done \in 0..MaxDone
    /\ docs \in [Documents -> Doc \cup {NoDocument}]
    /\ \A d \in Documents : docs[d] # NoDocument =>
          DOMAIN docs[d].out = DOMAIN docs[d].lines /\ DOMAIN docs[d].back = DOMAIN docs[d].lines

Init ==
    /\ onHand = [p \in Branches \X Items |-> 0]
    /\ inBatch = [p \in Branches \X Batches |-> 0]
    /\ ledger = [p \in Branches \X Items \X Sources |-> 0]
    /\ opening = [p \in Branches \X Items \X Sources |-> NoOpening]
    /\ moved = {} /\ past = {}
    /\ counted = [i \in Items |-> 0]
    /\ docs = [d \in Documents |-> NoDocument]
    /\ tracked \in {{}, {ItemOf[b] : b \in Batches}}
    /\ switched = [i \in Items |-> 0]
    /\ today = 0 /\ done = 0

-----------------------------------------------------------------------------
\* Mutant of Expired: a batch may not be sold on its last day, and may after.
ExpiredLate(s, day) == s # NoBatch /\ Expiry[s] < day - 1
Expired(s, day) == s # NoBatch /\ Expiry[s] < day

\* takenOrder: without a batch first, then by expiry date.  (Batches of one
\* expiry date, told apart by age, are not modelled.)
Sooner(s, t) == t # NoBatch /\ (s = NoBatch \/ Expiry[s] < Expiry[t])
\* pickBatches: the same, with expired batches after the rest.
PickedBefore(s, t, day) ==
    IF Expired(s, day) = Expired(t, day) THEN Sooner(s, t) ELSE Expired(t, day)

\* lotsOf: each batch's stock here, and the item's stock without one.
Lots(b, i) ==
    [s \in SourcesOf(i) |->
        IF s = NoBatch
        THEN onHand[<<b, i>>] - Total([t \in SourcesOf(i) \ {NoBatch} |-> inBatch[<<b, t>>]])
        ELSE inBatch[<<b, s>>]]

\* pickBatches: each source gives what those before it leave wanting.
Pick(lots, qty, day, includeExpired) ==
    LET there(s) == IF Expired(s, day) /\ ~includeExpired THEN 0 ELSE AtLeast0(lots[s])
        before(s) == Total([t \in {u \in DOMAIN lots : PickedBefore(u, s, day)} |-> there(t)])
    IN  [s \in Sources |->
            IF s \in DOMAIN lots THEN Least(there(s), AtLeast0(qty - before(s))) ELSE 0]

\* takeFromBatches for one item: what its sources give, in every way they
\* can (none: refused).  What is missing goes without a batch, when selling past
\* the count is allowed and it can't all be expired stock on the shelf.
TakeFromBatches(b, i, qty, day, allowShort, includeExpired) ==
    LET expired(lots) ==
            IF includeExpired THEN 0
            ELSE Total([s \in {t \in DOMAIN lots : Expired(t, day)} |-> AtLeast0(lots[s])])
        mayTake(lots, short) == short > 0 => allowShort /\ ~(expired(lots) > 0 /\ short <= expired(lots))
    IN  UNION {{pick \in {Pick(lots, qty, day, includeExpired)} : mayTake(lots, qty - Total(pick))} :
                  lots \in {Lots(b, i)}}

\* splitOverShares: the lines of an item take its shares one after the other;
\* line n wants the units from `from` on, and share s holds those after the
\* shares picked before it.
SplitOverShares(lines, n, pick, day) ==
    LET item == lines[n].item
        from == Total([m \in {k \in 1..(n-1) : lines[k].item = item} |-> lines[m].qty])
        upto == from + lines[n].qty
        start(s) == Total([t \in {u \in SourcesOf(item) : PickedBefore(u, s, day)} |-> pick[t]])
        part(s) == AtLeast0(Least(upto, start(s) + pick[s]) - (IF from > start(s) THEN from ELSE start(s)))
        covered == Total([s \in SourcesOf(item) |-> part(s)])
    IN  [s \in Sources |->
            (IF s \in SourcesOf(item) THEN part(s) ELSE 0)
              + (IF s = NoBatch THEN lines[n].qty - covered ELSE 0)]

\* Mutant of PutBack: what already came back to a batch is forgotten.
PutBackForgetting(out, back, qty) ==
    LET before(s) == Total([t \in {u \in Sources : Sooner(u, s)} |-> out[t]])
        into == [s \in Sources |-> Least(out[s], AtLeast0(qty - before(s)))]
    IN  [into EXCEPT ![NoBatch] = @ + qty - Total(into)]

\* putBack: into the batches the goods left from, in that order, up to what
\* each sent out less what came back to it; the rest without a batch.
PutBack(out, back, qty) ==
    LET room(s) == AtLeast0(out[s] - back[s])
        before(s) == Total([t \in {u \in Sources : Sooner(u, s)} |-> room(t)])
        into == [s \in Sources |-> Least(room(s), AtLeast0(qty - before(s)))]
    IN  [into EXCEPT ![NoBatch] = @ + qty - Total(into)]

-----------------------------------------------------------------------------
Made(d) == docs[d] # NoDocument
Is(d, kind) == Made(d) /\ docs[d].kind = kind
ItemsOf(lines) == {lines[n].item : n \in DOMAIN lines}
Wanted(lines, i) == Total([n \in {m \in DOMAIN lines : lines[m].item = i} |-> lines[n].qty])
Whole(qty, s) == [Nothing EXCEPT ![s] = qty]

\* In what follows `kept` is the items kept by batch, as the request found them.

\* The batch goods come in to: the one named, for items kept by batch.
Into(op, kept) == IF op.item \in kept THEN op.batch ELSE NoBatch
BatchGiven(op, kept) == op.item \in kept => op.batch # NoBatch

\* What a sale or a transfer takes of each item (none: refused).
TakenOf(op, i, day, kept, allowShort) ==
    IF onHand[<<op.branch, i>>] < Wanted(op.lines, i) /\ ~allowShort THEN {}
    ELSE IF i \in kept THEN TakeFromBatches(op.branch, i, Wanted(op.lines, i), day, allowShort, FALSE)
    ELSE {Whole(Wanted(op.lines, i), NoBatch)}

TakenOut(op, day, kept, allowShort) ==
    LET takes == {[i \in ItemsOf(op.lines) |-> TakenOf(op, i, day, kept, allowShort)]} IN
    {[n \in DOMAIN op.lines |-> SplitOverShares(op.lines, n, CHOOSE pick \in take[op.lines[n].item] : TRUE, day)] :
        take \in {t \in takes : \A i \in DOMAIN t : t[i] # {}}}

\* The OPENING rows an opening count would be checked against or corrects.
Openings(op, kept) ==
    {s \in Sources : /\ opening[<<op.branch, op.item, s>>] # NoOpening
                     /\ op.item \in kept => s = op.batch}

\* createStockAdjustment OUT: of the batch named, else the earliest expiry
\* first, expired stock included.
AdjustedOut(op, day, kept) ==
    IF onHand[<<op.branch, op.item>>] < op.qty THEN {}
    ELSE IF op.item \notin kept THEN {<<Whole(op.qty, NoBatch)>>}
    ELSE IF op.batch # NoBatch
         THEN IF inBatch[<<op.branch, op.batch>>] < op.qty THEN {} ELSE {<<Whole(op.qty, op.batch)>>}
    ELSE {<<pick>> : pick \in TakeFromBatches(op.branch, op.item, op.qty, day, FALSE, TRUE)}

\* What a line of a purchase came in to.
CameInto(doc, n) == CHOOSE s \in Sources : doc.out[n][s] > 0

\* createReturn of a purchase: no more than was bought, and it must be here
\* (in its batch, for goods that came in one).
SentBack(op) ==
    LET doc == docs[op.doc]
        into == CameInto(doc, op.line)
        item == doc.lines[op.line].item
        there == IF into = NoBatch THEN onHand[<<doc.branch, item>>] ELSE inBatch[<<doc.branch, into>>]
    IN  IF Total(doc.back[op.line]) + op.qty > doc.lines[op.line].qty \/ there < op.qty
        THEN {} ELSE {<<Whole(op.qty, into)>>}

\* createPurchase: each line comes in to its batch, no batch listed twice.
Bought(op, kept) ==
    LET into(n) == <<op.lines[n].item, Into(op.lines[n], kept)>> IN
    IF /\ \A n \in DOMAIN op.lines : BatchGiven(op.lines[n], kept)
       /\ \A m, n \in DOMAIN op.lines : m # n => into(m) # into(n)
    THEN {[n \in DOMAIN op.lines |-> Whole(op.lines[n].qty, into(n)[2])]}
    ELSE {}

\* What operation `op` moves, line by line, in every way it can (none: it is
\* refused), when the business's day is `day`.
Outcome(op, day, kept) ==
    CASE op.kind = "opening" ->
            IF BatchGiven(op, kept) /\ Openings(op, kept) = {} THEN {<<Whole(op.qty, Into(op, kept))>>} ELSE {}
      [] op.kind = "reopening" ->
            IF BatchGiven(op, kept) /\ <<op.branch, op.item>> \notin moved
            THEN {<<Whole(op.qty, s)>> : s \in Openings(op, kept)} ELSE {}
      [] op.kind = "adjustIn" -> IF BatchGiven(op, kept) THEN {<<Whole(op.qty, Into(op, kept))>>} ELSE {}
      [] op.kind = "adjustOut" -> AdjustedOut(op, day, kept)
      [] op.kind = "sale" -> TakenOut(op, day, kept, op.past)
      [] op.kind = "transfer" -> TakenOut(op, day, kept, FALSE)
      [] op.kind = "purchase" -> Bought(op, kept)
      [] op.kind = "sendBack" -> SentBack(op)
      [] op.kind = "cancel" ->
            IF docs[op.doc].state \in {"draft", "draftReturned"} /\ docs[op.doc].day = day THEN {docs[op.doc].out} ELSE {}
      [] op.kind = "return" ->
            LET doc == docs[op.doc] IN
            IF doc.state \in {"cancelled", "cancelledReturned"} \/ Total(doc.back[op.line]) + op.qty > doc.lines[op.line].qty
            THEN {} ELSE {<<PutBack(doc.out[op.line], doc.back[op.line], op.qty)>>}
      [] op.kind \in {"receive", "callBack"} -> IF docs[op.doc].state = "open" THEN {docs[op.doc].out} ELSE {}

-----------------------------------------------------------------------------
\* Where the goods move, and which way.
Place(op) ==
    IF op.kind \in {"opening", "reopening", "adjustIn", "adjustOut", "sale", "transfer", "purchase"} THEN op.branch
    ELSE IF op.kind = "receive" THEN docs[op.doc].to ELSE docs[op.doc].branch
ItemsMoved(op) ==
    IF op.kind \in {"opening", "reopening", "adjustIn", "adjustOut"} THEN <<op.item>>
    ELSE IF op.kind \in {"sale", "transfer", "purchase"} THEN [n \in DOMAIN op.lines |-> op.lines[n].item]
    ELSE IF op.kind \in {"sendBack", "return"} THEN <<docs[op.doc].lines[op.line].item>>
    ELSE [n \in DOMAIN docs[op.doc].lines |-> docs[op.doc].lines[n].item]
Sign(op) == IF op.kind \in {"adjustOut", "sale", "transfer", "sendBack"} THEN -1 ELSE 1

\* What the lines of item i move of its stock in s.
Moves(items, took, i, s) == Total([n \in {m \in DOMAIN took : items[m] = i} |-> took[n][s]])

\* Mutant of RecordStock: the sum of a batch's entries is lost but for one line's.
RecordLastLine(b, items, took, sign) ==
    LET last == Len(items) IN
    /\ ledger' = [p \in DOMAIN ledger |-> ledger[p] + IF p[1] = b THEN sign * Moves(items, took, p[2], p[3]) ELSE 0]
    /\ onHand' = [p \in DOMAIN onHand |->
          onHand[p] + IF p[1] = b THEN sign * Total([s \in Sources |-> Moves(items, took, p[2], s)]) ELSE 0]
    /\ inBatch' = [p \in DOMAIN inBatch |->
          inBatch[p] + IF p[1] = b /\ ItemOf[p[2]] = items[last] THEN sign * took[last][p[2]] ELSE 0]

\* recordStock: writes the rows, and moves each (branch, item) and each
\* (branch, batch) once, by the sum of their rows.
RecordStock(b, items, took, sign) ==
    /\ ledger' = [p \in DOMAIN ledger |-> ledger[p] + IF p[1] = b THEN sign * Moves(items, took, p[2], p[3]) ELSE 0]
    /\ onHand' = [p \in DOMAIN onHand |->
          onHand[p] + IF p[1] = b THEN sign * Total([s \in Sources |-> Moves(items, took, p[2], s)]) ELSE 0]
    /\ inBatch' = [p \in DOMAIN inBatch |->
          inBatch[p] + IF p[1] = b THEN sign * Moves(items, took, ItemOf[p[2]], p[2]) ELSE 0]

\* updateStockOpening: the row and both sums take the corrected count.
CorrectOpening(op, s) ==
    LET change == op.qty - opening[<<op.branch, op.item, s>>] IN
    /\ opening' = [opening EXCEPT ![<<op.branch, op.item, s>>] = op.qty]
    /\ ledger' = [ledger EXCEPT ![<<op.branch, op.item, s>>] = @ + change]
    /\ onHand' = [onHand EXCEPT ![<<op.branch, op.item>>] = @ + change]
    /\ inBatch' = IF s = NoBatch THEN inBatch ELSE [inBatch EXCEPT ![<<op.branch, s>>] = @ + change]
    /\ counted' = [counted EXCEPT ![op.item] = @ + change]

Added(f, g) == [s \in Sources |-> f[s] + g[s]]

\* The document a request makes, or as it leaves it.
Document(op, took, day) ==
    CASE op.kind \in {"sale", "purchase", "transfer"} ->
            [kind |-> op.kind, branch |-> op.branch, lines |-> op.lines, out |-> took, day |-> day,
             to |-> IF op.kind = "transfer" THEN op.to ELSE op.branch,
             back |-> [n \in DOMAIN op.lines |-> Nothing],
             state |-> CASE op.kind = "sale" -> IF op.paid THEN "settled" ELSE "draft"
                         [] op.kind = "transfer" -> "open"
                         [] OTHER -> "settled"]
      [] op.kind = "cancel" ->
            [docs[op.doc] EXCEPT !.state = IF @ = "draftReturned" THEN "cancelledReturned" ELSE "cancelled"]
      [] op.kind \in {"return", "sendBack"} ->
            [docs[op.doc] EXCEPT !.back[op.line] = Added(@, took[1]),
                                 !.state = IF op.free /\ @ \in {"draft", "draftReturned"} THEN "draftReturned" ELSE "settled"]
      [] op.kind = "receive" -> [docs[op.doc] EXCEPT !.state = "received"]
      [] op.kind = "callBack" -> [docs[op.doc] EXCEPT !.state = "calledBack"]

\* A sale past the count: of more than is here.
SoldPast(op) ==
    IF op.kind # "sale" THEN {}
    ELSE {<<op.branch, i>> : i \in {j \in ItemsOf(op.lines) : Wanted(op.lines, j) > onHand[<<op.branch, j>>]}}

\* What an operation writes once it was found that it moves `took`.
Apply(op, took, day) ==
    LET b == Place(op)
        isCount == op.kind \in {"opening", "adjustIn", "adjustOut"}
    IN
    /\ docs' = IF isCount \/ op.kind = "reopening" THEN docs
               ELSE [docs EXCEPT ![op.doc] = Document(op, took, day)]
    /\ past' = past \cup SoldPast(op)
    /\ done' = done + 1
    /\ UNCHANGED <<tracked, switched, today>>
    /\ IF op.kind = "reopening"
       THEN \E s \in Sources : took[1] = Whole(op.qty, s) /\ CorrectOpening(op, s) /\ UNCHANGED moved
       ELSE /\ RecordStock(b, ItemsMoved(op), took, Sign(op))
            /\ moved' = IF op.kind = "opening" THEN moved
                        ELSE moved \cup {<<b, ItemsMoved(op)[n]>> : n \in DOMAIN took}
            /\ opening' = IF op.kind = "opening"
                          THEN [p \in DOMAIN opening |->
                                  IF p[1] = b /\ p[2] = op.item /\ took[1][p[3]] > 0 THEN op.qty ELSE opening[p]]
                          ELSE opening
            /\ counted' = IF isCount THEN [counted EXCEPT ![op.item] = @ + Sign(op) * op.qty] ELSE counted

\* The document is there to work on, or is not there yet.
Possible(op) ==
    CASE op.kind \in {"sale", "purchase", "transfer"} -> ~Made(op.doc)
      [] op.kind = "cancel" -> Is(op.doc, "sale")
      [] op.kind = "return" -> Is(op.doc, "sale") /\ op.line \in DOMAIN docs[op.doc].lines
      [] op.kind = "sendBack" -> Is(op.doc, "purchase") /\ op.line \in DOMAIN docs[op.doc].lines
      [] op.kind \in {"receive", "callBack"} -> Is(op.doc, "transfer")
      [] OTHER -> TRUE

\* An operation alone.  Around midnight it may go by the day before, and
\* while an item is switched by how it was kept before.  (The second conjunct
\* says what Apply does, to spare TLC the operations that don't fit a step.)
Do(op) ==
    /\ done < MaxDone /\ done' = done + 1
    /\ \A d \in Documents : docs'[d] # docs[d] => "doc" \in DOMAIN op /\ d = op.doc
    /\ Possible(op)
    /\ \E day \in {today - 1, today}, old \in SUBSET {i \in Items : switched[i] > 0} :
          LET kept == (tracked \ old) \cup (old \ tracked) IN
          \E took \in Outcome(op, day, kept) : Apply(op, took, day)

\* An item is switched to or from being kept by batch; its stock stays where it is.
SwitchBatches(i) ==
    /\ switched[i] < MaxSwitches
    /\ tracked' = IF i \in tracked THEN tracked \ {i} ELSE tracked \cup {i}
    /\ switched' = [switched EXCEPT ![i] = @ + 1]
    /\ UNCHANGED <<onHand, inBatch, ledger, opening, moved, counted, docs, past, today, done>>

NextDay ==
    /\ today < MaxDay
    /\ today' = today + 1
    /\ UNCHANGED <<onHand, inBatch, ledger, opening, moved, counted, docs, tracked, switched, past, done>>

Next == NextDay \/ (\E i \in Items : SwitchBatches(i)) \/ (\E op \in Ops : Do(op))

\* (The same as [][Next]_bookVars; quicker to check of a step that changes none of them.)
Spec == Init /\ [][bookVars' # bookVars /\ Next]_bookVars

-----------------------------------------------------------------------------
(***************************************************************************)
(* stock.service.ts:65 "on-hand stock always equals the sum of the ledger" *)
(* and schema.prisma's BatchStock "is the sum of its batch's entries".     *)
(***************************************************************************)
OnHandIsLedger ==
    /\ TypeOK
    /\ \A b \in Branches, i \in Items :
          onHand[<<b, i>>] = Total([s \in Sources |-> ledger[<<b, i, s>>]])
    /\ \A b \in Branches, s \in Batches : inBatch[<<b, s>>] = ledger[<<b, ItemOf[s], s>>]

OnTheWay(d, i) ==
    LET doc == docs[d]
        lines == {m \in DOMAIN doc.lines : doc.lines[m].item = i}
        gone == Total([n \in lines |-> doc.lines[n].qty - Total(doc.back[n])])
    IN  CASE doc.kind = "purchase" -> gone
          [] doc.kind = "sale" ->
                IF doc.state = "cancelled" THEN 0
                ELSE IF doc.state = "cancelledReturned" THEN Total([n \in lines |-> Total(doc.back[n])])
                ELSE -gone
          [] doc.kind = "transfer" -> IF doc.state = "open" THEN -gone ELSE 0

(***************************************************************************)
(* No unit appears or is lost: what the branches hold of an item is what   *)
(* was counted and bought, less what went back to suppliers, what was sold *)
(* and not cancelled or returned, and what is between branches.  A         *)
(* transfer's goods arrive at one branch, once; a sale's goods come back   *)
(* at most once, into the batches they left.  But goods worth nothing that *)
(* came back from an unpaid bill are put back again when it is cancelled   *)
(* (returns.service.ts:214, sales.service.ts:322): those are counted twice.*)
(***************************************************************************)
GoodsAccountedFor ==
    /\ OnHandIsLedger
    /\ \A i \in Items :
          Total([b \in Branches |-> onHand[<<b, i>>]])
            = counted[i] + Total([d \in Documents |-> IF Made(d) THEN OnTheWay(d, i) ELSE 0])
    /\ \A d \in Documents : Made(d) =>
          \A n \in DOMAIN docs[d].lines :
             /\ Total(docs[d].back[n]) <= docs[d].lines[n].qty
             /\ \A s \in Batches : docs[d].back[n][s] <= docs[d].out[n][s]
=============================================================================
