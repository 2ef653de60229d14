----------------------------- MODULE GstReturns -----------------------------
(***************************************************************************)
(* GST returns and sales reports over the bills of one GSTIN: GSTR-1,      *)
(* GSTR-3B, the composition return and the reports screen, each worked out *)
(* anew from the rows whenever it is asked for, while bills are made,      *)
(* paid, cancelled and returned, what was sold, paid and returned offline  *)
(* arrives, and the business changes its time zone or GST registration.    *)
(* Time is counted in parts of a day; a return covers whole local days.    *)
(* Amounts are whole; a bill has no round-off.                             *)
(***************************************************************************)
EXTENDS Sums, Sequences, FiniteSets, SequencesExt

CONSTANTS
    Forms,          \* bills customers ask for: buyer, away, lines of item, supply, rate, coded, value, tax
    Threshold,      \* B2CL_THRESHOLD
    Types,          \* registrations: REGULAR, COMPOSITION, UNREGISTERED
    Zones,          \* time zones, each its offset in parts of a day
    DayParts,       \* parts of a day
    PeriodDays,     \* days of a filing period
    LastPeriod, LastTime,   \* bounds: periods, the clock
    MaxBills, MaxOffline,   \* bounds: bills, those of them made offline
    MaxEvents       \* bound: what happens to bills and to the business

\* A line as it is asked for: an item that isn't taxable has a rate of 0 (supplyTypeProblem).
SupplyTypes == {"TAXABLE", "NIL_RATED", "EXEMPT", "NON_GST"}
LineForms ==
    {l \in [item : STRING, supply : SupplyTypes, rate : Nat, value : Nat, tax : Nat, coded : BOOLEAN] :
        l.supply # "TAXABLE" => l.tax = 0}

ASSUME GstAssumption ==
    /\ DayParts \in Nat \ {0} /\ PeriodDays \in Nat \ {0}
    /\ Zones \subseteq 0 .. DayParts - 1 /\ 0 \in Zones
    /\ Forms \subseteq [buyer : BOOLEAN, away : BOOLEAN, lines : Seq(LineForms)]
    /\ "REGULAR" \in Types /\ Types \subseteq {"REGULAR", "COMPOSITION", "UNREGISTERED"}
    /\ Threshold \in Int /\ LastPeriod \in Nat /\ LastTime \in Nat /\ MaxBills \in Nat
    /\ MaxOffline \in Nat /\ MaxEvents \in Nat

VARIABLES
    clock, zone, events,
    changes,   \* taxpayerTypeChange rows: type, date, from
    sales,     \* sale invoices: lines, grandTotal, buyer, away, type, at, offline, arrived, status, paidAt
    credits,   \* return invoices: bill, line, value, tax, at
    filed      \* returns taken for a closed period: period, figures, and what befell it since

gstVars == <<clock, zone, events, changes, sales, credits, filed>>

Periods == 0 .. LastPeriod
Never == -1
Only(S) == CHOOSE x \in S : TRUE

-----------------------------------------------------------------------------
(* The shop's calendar.                                                    *)

LocalDay(at, z) == (at + z) \div DayParts
StartOfLocalDay(day, z) == day * DayParts - z

InPeriod(at, p) ==
    /\ StartOfLocalDay(p * PeriodDays, zone) <= at
    /\ at < StartOfLocalDay((p + 1) * PeriodDays, zone)

\* The type in force: the latest change at or before `at`.
TaxpayerAt(known, at) ==
    LET begun == {i \in DOMAIN known : known[i].from <= at}
        \* Of two that took effect together the later entered counts.
        latest == CHOOSE i \in begun : \A j \in begun \ {i} :
                     known[j].from < known[i].from \/ (known[j].from = known[i].from /\ j < i)
    IN  IF begun = {} THEN "REGULAR" ELSE known[latest].type

-----------------------------------------------------------------------------
(* What one return or report is worked out from: the lines of the bills    *)
(* and of the credit notes dated in the period.                            *)

IsB2b(bill) == bill.buyer
IsB2cl(bill) == ~IsB2b(bill) /\ bill.away /\ bill.grandTotal > Threshold

Known == {b \in DOMAIN sales : sales[b].arrived}
Invoices(p, types) ==
    {b \in Known : InPeriod(sales[b].at, p) /\ sales[b].type \in types /\ sales[b].status # "CANCELLED"}
Notes(p, types) ==
    {r \in DOMAIN credits : InPeriod(credits[r].at, p) /\ sales[credits[r].bill].type \in types}

Entry(doc, b, i, value, tax) ==
    [doc |-> doc, no |-> i, line |-> sales[b].lines[i], value |-> value, tax |-> tax,
     b2b |-> IsB2b(sales[b]), b2cl |-> IsB2cl(sales[b]), away |-> sales[b].away]
SoldLines(bills) ==
    UNION {{Entry(b, b, i, sales[b].lines[i].value, sales[b].lines[i].tax) : i \in DOMAIN sales[b].lines} : b \in bills}
BackLines(notes) == {Entry(r, credits[r].bill, credits[r].line, credits[r].value, credits[r].tax) : r \in notes}

Taxed(entries) == {e \in entries : e.line.supply = "TAXABLE"}
Untaxed(entries) == {e \in entries : e.line.supply # "TAXABLE"}
Amounts(entries) == [txval |-> Total([e \in entries |-> e.value]), tax |-> Total([e \in entries |-> e.tax])]
Less(a, b) == [txval |-> a.txval - b.txval, tax |-> a.tax - b.tax]
Plus(a, b) == [txval |-> a.txval + b.txval, tax |-> a.tax + b.tax]

\* Rows of a table, by key: what was sold less what came back.
Rows(sold, back, Key(_)) ==
    [k \in {Key(e) : e \in sold \cup back} |->
        Less(Amounts({e \in sold : Key(e) = k}), Amounts({e \in back : Key(e) = k}))]
RowsSum(rows) == [txval |-> Total([k \in DOMAIN rows |-> rows[k].txval]), tax |-> Total([k \in DOMAIN rows |-> rows[k].tax])]

-----------------------------------------------------------------------------
(* GSTR-1.                                                                 *)

\* Bills to registered buyers and large ones to other states are listed one by one, and so are
\* their credit notes; the rest is summed by kind, state and rate.
ByDocument(e) == <<e.doc, e.line.rate>>
ByStateAndRate(e) == <<e.away, e.line.rate>>
ByHsn(e) == <<e.b2b, e.line.item, e.line.rate>>
ByNilKind(e) == <<e.b2b, e.away, e.line.supply>>

\* Mutant of NilSection: a large bill's goods without tax are left to its own section.
NilSectionSmall(sold, back) ==
    Rows(Untaxed({e \in sold : ~e.b2cl}), Untaxed(back), ByNilKind)

\* Goods without tax, of whatever bill.
NilSection(sold, back) ==
    Rows(Untaxed(sold), Untaxed(back), ByNilKind)

Counts(p) ==
    LET made == {b \in Known : InPeriod(sales[b].at, p) /\ sales[b].type = "REGULAR"}
    IN  [documents |-> Cardinality(made), cancelled |-> Cardinality({b \in made : sales[b].status = "CANCELLED"}),
         notes |-> Cardinality(Notes(p, {"REGULAR"}))]

Sections(sold, back, counts) ==
    LET Listed(entries) == Rows(Taxed({e \in entries : e.b2b}), {}, ByDocument)
        Large(entries) == Rows(Taxed({e \in entries : ~e.b2b /\ e.b2cl}), {}, ByDocument)
        Small(entries) == Taxed({e \in entries : ~e.b2b /\ ~e.b2cl})
        Net(rows) == [k \in {k \in DOMAIN rows : rows[k].txval # 0 \/ rows[k].tax # 0} |-> rows[k]]
        Coded(entries) == {e \in entries : e.line.coded}
    IN  [b2b |-> Listed(sold), cdnr |-> Listed(back), b2cl |-> Large(sold), cdnur |-> Large(back),
         b2cs |-> Net(Rows(Small(sold), Small(back), ByStateAndRate)),
         nil |-> NilSection(sold, back),
         hsn |-> Rows(Coded(sold), Coded(back), ByHsn),
         uncoded |-> \E e \in sold \cup back : ~e.line.coded,
         counts |-> counts]

Gstr1(p) ==
    Only({Sections(sold, back, Counts(p)) :
              sold \in {SoldLines(Invoices(p, {"REGULAR"}))}, back \in {BackLines(Notes(p, {"REGULAR"}))}})

\* GSTR-3B: taxable supplies, nil rated and exempt, and what went to other states' consumers.
Gstr3b(g) ==
    [taxable |-> Less(Plus(Plus(RowsSum(g.b2b), RowsSum(g.b2cs)), RowsSum(g.b2cl)), Plus(RowsSum(g.cdnr), RowsSum(g.cdnur))),
     nilExempt |-> Total([k \in {k \in DOMAIN g.nil : k[3] # "NON_GST"} |-> g.nil[k].txval]),
     nonGst |-> Total([k \in {k \in DOMAIN g.nil : k[3] = "NON_GST"} |-> g.nil[k].txval]),
     interState |-> Total([k \in {k \in DOMAIN g.b2cs : k[1]} |-> g.b2cs[k].txval])
                      + RowsSum(g.b2cl).txval - RowsSum(g.cdnur).txval]

\* CMP-08: turnover of what was sold as a composition taxpayer.
Composition(p) ==
    LET sold == SoldLines(Invoices(p, {"COMPOSITION"}))
        back == BackLines(Notes(p, {"COMPOSITION"}))
    IN  [turnover |-> Less(Amounts(sold), Amounts(back)).txval,
         taxableTurnover |-> Less(Amounts(Taxed(sold)), Amounts(Taxed(back))).txval]

-----------------------------------------------------------------------------
(* The reports screen, over every bill whatever it was made as.            *)

\* Sales by item: the period's bills less what came back in it, and what came back only.
Items(sold, back) ==
    LET items == {e.line.item : e \in sold}
        Of(entries, i) == Amounts({e \in entries : e.line.item = i})
        only == {e \in back : e.line.item \notin items}
    IN  [i \in items \cup {e.line.item : e \in only} |->
            IF i \in items THEN Less(Of(sold, i), Of(back, i)) ELSE Less(Amounts({}), Of(only, i))]

\* Sales of a period count when made, paid or not; money when it is taken.
Summary(p) ==
    LET bills == Invoices(p, Types)
        notes == {r \in Notes(p, Types) : sales[credits[r].bill].status # "CANCELLED"}
        gross == Total([b \in bills |-> sales[b].grandTotal])
        tax == Amounts(SoldLines(bills)).tax
        back == Amounts(BackLines(notes))
    IN  [count |-> Cardinality(bills), gross |-> gross, tax |-> tax, returnsGross |-> back.txval + back.tax,
         net |-> gross - tax - back.txval,
         collected |-> Total([b \in {b \in Known : sales[b].paidAt # Never /\ InPeriod(sales[b].paidAt, p)} |-> sales[b].grandTotal])]

Figures(p) ==
    Only({[gstr1 |-> g, gstr3b |-> Gstr3b(g), composition |-> Composition(p), summary |-> Summary(p),
           items |-> Items(sold, back)] :
              g \in {Gstr1(p)}, sold \in {SoldLines(Invoices(p, Types))}, back \in {BackLines(Notes(p, Types))}})

-----------------------------------------------------------------------------
GstInit ==
    /\ clock = 0 /\ zone = 0 /\ events = 0
    /\ changes = <<>> /\ sales = <<>> /\ credits = <<>> /\ filed = {}

BillLines(form, type) ==
    [i \in DOMAIN form.lines |-> [form.lines[i] EXCEPT !.tax = IF type = "REGULAR" THEN @ ELSE 0]]

Bill(form, type, arrived) ==
    [buyer |-> form.buyer, away |-> form.away /\ type = "REGULAR", type |-> type, at |-> clock,
     offline |-> ~arrived, arrived |-> arrived,
     status |-> "DRAFT", paidAt |-> Never, lines |-> BillLines(form, type),
     grandTotal |-> Total([i \in DOMAIN form.lines |-> BillLines(form, type)[i].value + BillLines(form, type)[i].tax])]

MakeSale(form) ==
    /\ Len(sales) < MaxBills
    /\ sales' = Append(sales, Bill(form, TaxpayerAt(changes, clock), TRUE))
    /\ UNCHANGED <<clock, zone, events, changes, credits, filed>>

\* At the fallback counter, whose copy may lack the latest changes of registration.
SellOffline(form) ==
    /\ Len(sales) < MaxBills /\ Cardinality({b \in DOMAIN sales : sales[b].offline}) < MaxOffline
    /\ \E n \in 0 .. Len(changes) :
          sales' = Append(sales, Bill(form, TaxpayerAt(SubSeq(changes, 1, n), clock), FALSE))
    /\ UNCHANGED <<clock, zone, events, changes, credits, filed>>

\* What was made offline is taken as it was made, dated when it was: these dates' returns may be filed.
Late(dates) == {[f EXCEPT !.late = @ \/ \E at \in dates : InPeriod(at, f.period)] : f \in filed}

\* A bill made offline arrives, paid there or not.
SyncArrives(b, paidAt) ==
    /\ paidAt # Never => events < MaxEvents
    /\ events' = IF paidAt = Never THEN events ELSE events + 1
    /\ ~sales[b].arrived
    /\ paidAt = Never \/ paidAt \in sales[b].at .. clock
    /\ sales' = [sales EXCEPT ![b].arrived = TRUE, ![b].paidAt = paidAt,
                              ![b].status = IF paidAt = Never THEN @ ELSE "SETTLED"]
    /\ filed' = Late({sales[b].at, paidAt} \ {Never})
    /\ UNCHANGED <<clock, zone, changes, credits>>

PayBill(b) ==
    /\ events < MaxEvents /\ events' = events + 1
    /\ sales[b].arrived /\ sales[b].status = "DRAFT"
    /\ \A r \in DOMAIN credits : credits[r].bill # b
    /\ sales' = [sales EXCEPT ![b].status = "SETTLED", ![b].paidAt = clock]
    /\ UNCHANGED <<clock, zone, changes, credits, filed>>

\* Mutant of Cancellable: of any day.
CancellableLater(b) == sales[b].status = "DRAFT" /\ \A r \in DOMAIN credits : credits[r].bill # b

\* An unpaid bill, on the day it was made.
Cancellable(b) ==
    /\ sales[b].status = "DRAFT"
    /\ \A r \in DOMAIN credits : credits[r].bill # b
    /\ LocalDay(sales[b].at, zone) = LocalDay(clock, zone)

CancelSale(b) ==
    /\ events < MaxEvents /\ events' = events + 1
    /\ sales[b].arrived
    /\ Cancellable(b)
    /\ sales' = [sales EXCEPT ![b].status = "CANCELLED"]
    /\ UNCHANGED <<clock, zone, changes, credits, filed>>

\* Some of a line comes back, with its share of the tax (all that is left, when all comes back).
TakeBack(b, i, value, at) ==
    LET before == {r \in DOMAIN credits : credits[r].bill = b /\ credits[r].line = i}
        line == sales[b].lines[i]
        left == line.value - Total([r \in before |-> credits[r].value])
        taxLeft == line.tax - Total([r \in before |-> credits[r].tax])
    IN  /\ value \in 1 .. left
        /\ credits' = Append(credits, [bill |-> b, line |-> i, value |-> value, at |-> at,
                                       tax |-> IF value = left THEN taxLeft ELSE (line.tax * value) \div line.value])

CreateReturn(b, i, value) ==
    /\ sales[b].arrived /\ sales[b].status # "CANCELLED"
    /\ events < MaxEvents /\ events' = events + 1
    /\ TakeBack(b, i, value, clock)
    /\ UNCHANGED <<clock, zone, changes, sales, filed>>

\* Goods taken back offline, of a bill made offline too or of a paid one that came with the copy.
SyncReturn(b, i, value, at) ==
    /\ sales[b].arrived
    /\ \/ sales[b].status = "SETTLED" /\ at \in sales[b].paidAt .. clock
       \/ sales[b].status = "DRAFT" /\ sales[b].offline /\ at \in sales[b].at .. clock
    /\ events < MaxEvents /\ events' = events + 1
    /\ TakeBack(b, i, value, at)
    /\ filed' = Late({at})
    /\ UNCHANGED <<clock, zone, changes, sales>>

Scheduled == {i \in DOMAIN changes : changes[i].from > clock}

\* From a day not before today; one for today starts now.
ChangeTaxpayerType(type, date) ==
    LET today == LocalDay(clock, zone)
    IN  /\ events < MaxEvents /\ date >= today
        /\ Scheduled = {} /\ TaxpayerAt(changes, clock) # type
        /\ changes' = Append(changes, [type |-> type, date |-> date,
                                       from |-> IF date = today THEN clock ELSE StartOfLocalDay(date, zone)])
        /\ events' = events + 1
        /\ UNCHANGED <<clock, zone, sales, credits, filed>>

CancelTaxpayerTypeChange ==
    /\ Scheduled # {}
    /\ changes' = Front(changes)
    /\ UNCHANGED <<clock, zone, events, sales, credits, filed>>

\* The zone moves midnight, a waiting change with it, and which period a bill falls in.
ChangeTimezone(z) ==
    /\ events < MaxEvents /\ z # zone
    /\ zone' = z /\ events' = events + 1
    /\ changes' = [i \in DOMAIN changes |->
                     IF i \in Scheduled
                     THEN [changes[i] EXCEPT !.from = Max({clock, StartOfLocalDay(changes[i].date, z)})]
                     ELSE changes[i]]
    /\ filed' = {[f EXCEPT !.moved = TRUE] : f \in filed}
    /\ UNCHANGED <<clock, sales, credits>>

\* The returns of a period that is over are taken.
File(p) ==
    /\ StartOfLocalDay((p + 1) * PeriodDays, zone) <= clock
    /\ \A f \in filed : f.period # p
    /\ \E figures \in {Figures(p)} :
          filed' = filed \cup {[period |-> p, moved |-> FALSE, late |-> FALSE, figures |-> figures]}
    /\ UNCHANGED <<clock, zone, events, changes, sales, credits>>

Tick ==
    /\ clock < LastTime
    /\ clock' = clock + 1
    /\ UNCHANGED <<zone, events, changes, sales, credits, filed>>

GstNext ==
    \/ Tick \/ CancelTaxpayerTypeChange
    \/ \E form \in Forms : MakeSale(form) \/ SellOffline(form)
    \/ \E b \in DOMAIN sales : PayBill(b) \/ CancelSale(b) \/ \E paidAt \in {Never} \cup 0 .. clock : SyncArrives(b, paidAt)
    \/ \E b \in DOMAIN sales : \E i \in DOMAIN sales[b].lines : \E value \in 1 .. sales[b].lines[i].value :
          CreateReturn(b, i, value) \/ \E at \in 0 .. clock : SyncReturn(b, i, value, at)
    \/ \E type \in Types, day \in 0 .. LastPeriod * PeriodDays : ChangeTaxpayerType(type, day)
    \/ \E z \in Zones : ChangeTimezone(z)
    \/ \E p \in Periods : File(p)

GstSpec == GstInit /\ [][GstNext]_gstVars

-----------------------------------------------------------------------------
\* Every line of the period's bills and credit notes is in the returns exactly once, whatever
\* the buyer, the state, the size of the bill or the goods: GSTR-1's sections, its HSN summary,
\* GSTR-3B, the composition return and the sales report come to the same.
TablesAgree ==
    \A p \in Periods : \A f \in {Figures(p)} : \A g \in {f.gstr1} :
    \A taxable \in {f.gstr3b.taxable} :
    \A all \in {taxable.txval + RowsSum(g.nil).txval}, items \in {RowsSum(f.items)} :
        /\ f.gstr3b.nilExempt + f.gstr3b.nonGst + taxable.txval = all
        /\ ~g.uncoded => RowsSum(g.hsn) = [txval |-> all, tax |-> taxable.tax]
        /\ f.summary.net = items.txval
        /\ f.summary.gross - f.summary.returnsGross = items.txval + items.tax
        /\ (\A b \in DOMAIN sales : sales[b].type # "UNREGISTERED") =>
              items = [txval |-> all + f.composition.turnover, tax |-> taxable.tax]

\* A period that is over keeps its figures, whatever is paid, cancelled or returned afterwards:
\* what was filed still holds. Only what was done offline in it and arrives after it was filed
\* (a bill, a payment, goods taken back), and a change of time zone, which moves bills between
\* periods, may alter them.
FiledStands ==
    \A f \in filed : f.moved \/ f.late \/ Figures(f.period) = f.figures
=============================================================================
