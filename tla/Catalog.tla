------------------------------- MODULE Catalog -------------------------------
(***************************************************************************)
(* The items a business sells: their codes and barcodes, sale units,       *)
(* prices and MRPs, a branch's own prices, and products whose sizes are    *)
(* items of their own; changed by several managers at a time, imported     *)
(* from a spreadsheet, and sold from tills that may be out of date.        *)
(*                                                                         *)
(* A request first looks at the catalogue and checks itself (Check), then  *)
(* writes (Write).  Only changes to one item (its row) and new sizes of    *)
(* one product (the group's row) wait for each other.  A price is a pair   *)
(* of what is asked and the MRP (0: none); GST on top of it is 1.          *)
(***************************************************************************)
EXTENDS Integers, FiniteSets, Functions

CONSTANTS
    Items,      \* ids items can get (numbers)
    Codes,      \* what can be an item's code or barcode, as it is spelled
    Key,        \* a code in lower case: what a scan finds it by
    Product,    \* a product sold in sizes
    Sizes,
    Single,     \* the size of an item that is no product's
    Amounts,    \* amounts of money
    NoItem,
    NoPrice,
    Ops,        \* requests the managers may send
    Requests,   \* requests that can be under way at once
    MaxDone     \* bound: requests carried out

Units == {"piece", "box"}   \* "piece" is the base unit
Prices == [ask : Amounts, mrp : Amounts]

UnitPrices == UNION {[some -> Prices] : some \in SUBSET Units}

\* An item: its list has a price for each unit it is sold in.
Lists == UNION {[some \cup {"piece"} -> Prices] : some \in SUBSET Units}
Item == [code : Codes, list : Lists, gst : BOOLEAN, size : Sizes \cup {Single}, active : BOOLEAN]

\* The requests the API takes: an item's, a product's sizes, a branch's prices, a
\* spreadsheet's rows and sales (each barcode listed once, in any case).
OncePerScan(codes) == \A c, d \in codes : Key[c] = Key[d] => c = d
ItemOps == [kind : {"create"}, code : Codes, price : Prices, units : UnitPrices, gst : BOOLEAN, size : Sizes \cup {Single}]
           \cup [kind : {"update"}, item : Items, price : Prices, units : UnitPrices, gst : BOOLEAN]
           \cup [kind : {"delete"}, item : Items]
BarcodesOps == {op \in [kind : {"barcodes"}, item : Items, codes : UNION {[some -> Units] : some \in SUBSET Codes}] :
                   OncePerScan(DOMAIN op.codes)}
ProductOps == [kind : {"addSize"}, code : Codes, price : Prices, units : UnitPrices, gst : BOOLEAN, size : Sizes]
              \cup [kind : {"priceAll"}, price : Prices]
BranchPricesOps == [kind : {"branchPrices"}, item : Items, prices : UnitPrices]
ImportOps == [kind : {"import"}, code : Codes, price : Prices, units : UnitPrices, gst : BOOLEAN,
              size : Sizes \cup {Single}, barcodes : SUBSET Codes]
SaleOps == [kind : {"sell"}, item : Items, unit : Units, ask : Amounts, gst : BOOLEAN]

ASSUME CatalogAssumption ==
    /\ Ops \subseteq ItemOps \cup BarcodesOps \cup ProductOps \cup BranchPricesOps \cup ImportOps \cup SaleOps
    /\ Key \in [Codes -> Codes]
    /\ Items \subseteq Nat /\ Amounts \subseteq Nat /\ Single \notin Sizes /\ IsFiniteSet(Requests)
    /\ NoItem \notin Items \cup Item \cup (Items \X Units) /\ NoPrice \notin Prices
    /\ MaxDone \in Nat

VARIABLES
    items,        \* Item, with its ItemSaleUom rows: list is the price per unit
    barcodes,     \* ItemBarcode: the item (and unit) each barcode sells
    branchPrices, \* ItemBranchPrice at the branch, per item and unit
    charged,      \* the business charges GST
    sold,         \* sale lines made
    reqs,         \* each request: where it is, what it planned, what changed since its check
    raced,        \* kinds of data some request wrote on a check that no longer held
    carried          \* requests carried out

catalogue == <<items, barcodes, branchPrices>>
vars == <<items, barcodes, branchPrices, charged, sold, reqs, raced, carried>>

There(i) == items[i] # NoItem
\* mrpProblem: GST is part of what an MRP covers, when it is charged on top.
WithinMrp(price, gst, charges) == price.mrp = 0 \/ price.ask + (IF gst /\ charges THEN 1 ELSE 0) <= price.mrp

NoRequest == [at |-> "idle"]
Busy(r) == reqs[r].at # "idle"

TypeOK ==
    /\ items \in [Items -> Item \cup {NoItem}]
    /\ barcodes \in [Codes -> (Items \X Units) \cup {NoItem}]
    /\ branchPrices \in [Items \X Units -> Prices \cup {NoPrice}]
    /\ charged \in BOOLEAN /\ raced \subseteq {"codes", "prices", "sizes"} /\ carried \in 0..MaxDone

Init ==
    /\ items = [i \in Items |-> NoItem]
    /\ barcodes = [c \in Codes |-> NoItem]
    /\ branchPrices = [p \in Items \X Units |-> NoPrice]
    /\ charged \in BOOLEAN
    /\ sold = {}
    /\ reqs = [r \in Requests |-> NoRequest]
    /\ raced = {} /\ carried = 0

-----------------------------------------------------------------------------
ItemCoded(c) == {i \in Items : There(i) /\ Key[items[i].code] = Key[c]}
Owner(c) == IF barcodes[c] = NoItem THEN NoItem ELSE barcodes[c][1]
BarcodesOf(i) == IF i = NoItem THEN {} ELSE {c \in Codes : Owner(c) = i}

\* insertItem: the code may not be some item's barcode, in any case.
CodeFree(c) == \A d \in Codes : Key[d] = Key[c] => barcodes[d] = NoItem
\* Mutant of BarcodeFree: other items' codes aren't looked at.
BarcodeUnused(c, i) == Owner(c) \in {NoItem, i}
\* replaceBarcodes: not another item's code in any case, nor its barcode as spelled.
BarcodeFree(c, i) == ItemCoded(c) \subseteq {i} /\ Owner(c) \in {NoItem, i}

\* assertCodesFree: a new variant's code is no item's and no barcode.
VariantCodeFree(c) == ItemCoded(c) = {} /\ CodeFree(c)
SizesThere == {i \in Items : There(i) /\ items[i].size \in Sizes}
\* addValues: a new size copies the product's first item.
Completed(op) ==
    IF op.kind # "addSize" \/ SizesThere = {} THEN op
    ELSE LET first == CHOOSE i \in SizesThere : \A j \in SizesThere : i <= j
         IN  [op EXCEPT !.price = items[first].list["piece"], !.gst = items[first].gst]
SizeTaken(s) == \E i \in Items : There(i) /\ items[i].size = s

\* normalizeItemSaleUoms: the base unit at the item's price, then the other units.
SaleUnits(op) == [u \in {"piece"} \cup DOMAIN op.units |-> IF u = "piece" THEN op.price ELSE op.units[u]]
\* The item as createItem or insertVariants saves it.
NewItem(op) == [code |-> op.code, list |-> SaleUnits(op), gst |-> op.gst, size |-> op.size, active |-> TRUE]
\* prepareNewItem: each unit's price within its MRP.
ListWithinMrp(list, gst) == \A u \in DOMAIN list : WithinMrp(list[u], gst, charged)

\* syncBranchPriceUnits: own prices of units no longer sold are dropped.
KeptBranchPrices(i, list) ==
    [p \in DOMAIN branchPrices |-> IF p[1] = i /\ p[2] \notin DOMAIN list THEN NoPrice ELSE branchPrices[p]]
\* applyItemUpdate: and their barcodes.
KeptBarcodes(i, list) ==
    [c \in Codes |-> IF c \in BarcodesOf(i) /\ barcodes[c][2] \notin DOMAIN list THEN NoItem ELSE barcodes[c]]
\* applyItemUpdate: the branches' own prices too, as they now are.
BranchPricesWithinMrp(i, list, gst) ==
    \A u \in Units : branchPrices[<<i, u>>] # NoPrice /\ u \in DOMAIN list => WithinMrp(branchPrices[<<i, u>>], gst, charged)

\* replaceBarcodes: item i's barcodes become those given.
Replaced(codes, i, given) ==
    [c \in Codes |-> IF c \in DOMAIN given THEN <<i, given[c]>>
                     ELSE IF codes[c] # NoItem /\ codes[c][1] = i THEN NoItem ELSE codes[c]]

\* The item a spreadsheet row is about: the one with its code in any case.
RowItem(op) == IF ItemCoded(op.code) = {} THEN NoItem ELSE CHOOSE i \in ItemCoded(op.code) : TRUE
\* import: the item's barcodes as they were read, with the file's.
RowBarcodes(op, i) ==
    [c \in op.barcodes \cup BarcodesOf(i) |-> IF c \in BarcodesOf(i) THEN barcodes[c][2] ELSE "piece"]

\* What a request is checked for when it looks at the catalogue.
Acceptable(op) ==
    CASE op.kind = "create" ->
            /\ ListWithinMrp(SaleUnits(op), op.gst)
            /\ IF op.size \in Sizes THEN SizesThere = {} /\ VariantCodeFree(op.code) ELSE CodeFree(op.code)
      [] op.kind = "addSize" ->
            /\ SizesThere # {}
            /\ ~SizeTaken(op.size) /\ VariantCodeFree(op.code) /\ ListWithinMrp(SaleUnits(op), op.gst)
      [] op.kind = "import" ->
            LET i == RowItem(op) IN
            /\ \A c \in op.barcodes : \A d \in Codes : Key[d] = Key[c] =>
                  /\ Owner(d) \in {NoItem, i}
                  /\ ItemCoded(d) \subseteq {i}
            /\ i = NoItem => CodeFree(op.code) /\ ListWithinMrp(SaleUnits(op), op.gst)
                              /\ (op.size \in Sizes => ~SizeTaken(op.size))
            /\ i # NoItem => WithinMrp(op.price, op.gst, charged)
      [] op.kind = "update" -> There(op.item) /\ ListWithinMrp(SaleUnits(op), op.gst)
                                /\ BranchPricesWithinMrp(op.item, SaleUnits(op), op.gst)
      [] op.kind = "barcodes" ->
            There(op.item) /\ \A c \in DOMAIN op.codes : BarcodeFree(c, op.item) /\ op.codes[c] \in DOMAIN items[op.item].list
      [] op.kind = "branchPrices" ->
            There(op.item) /\ \A u \in DOMAIN op.prices :
                u \in DOMAIN items[op.item].list /\ WithinMrp(op.prices[u], items[op.item].gst, charged)
      [] op.kind = "priceAll" -> \A i \in SizesThere : WithinMrp(op.price, items[i].gst, charged)
      [] op.kind = "delete" -> There(op.item) /\ ~\E line \in sold : line.item = op.item
      [] op.kind = "sell" -> There(op.item) /\ items[op.item].active

\* The price a till asks at the branch (withBranchPrices, resolveLinePricing).
PriceAt(i, u) == IF branchPrices[<<i, u>>] # NoPrice THEN branchPrices[<<i, u>>] ELSE items[i].list[u]
\* Mutant of Saleable: the list price is taken to be within the MRP.
SaleableAtList(op, price, gst) == op.ask <= price.ask /\ op.gst = gst
\* resolveLinePricing: at most the list price, the item's tax, never above the MRP.
Saleable(op, price, gst) == op.ask <= price.ask /\ op.gst = gst /\ WithinMrp([price EXCEPT !.ask = op.ask], gst, charged)

\* What is kept of a check for the write.
Plan(op) ==
    CASE op.kind = "import" -> [item |-> RowItem(op), barcodes |-> RowBarcodes(op, RowItem(op))]
      [] op.kind = "priceAll" -> SizesThere
      [] op.kind = "sell" -> [price |-> PriceAt(op.item, op.unit), gst |-> items[op.item].gst, charged |-> charged]
      [] OTHER -> <<>>

-----------------------------------------------------------------------------
\* The row a request holds from its check to its write, if any.
Row(op) ==
    CASE op.kind \in {"update", "barcodes"} -> {<<"item", op.item>>}
      [] op.kind = "addSize" -> {<<"product", Product>>}
      [] OTHER -> {}
\* The kinds of data a request's check and write are about.
Kinds(op) ==
    CASE op.kind = "create" -> {"codes"} \cup IF op.size \in Sizes THEN {"sizes"} ELSE {}
      [] op.kind = "barcodes" -> {"codes"}
      [] op.kind \in {"import", "addSize"} -> {"codes", "sizes", "prices"}
      [] op.kind \in {"update", "branchPrices", "priceAll"} -> {"prices"}
      [] OTHER -> {}

Finish(r) ==
    /\ reqs' = [q \in Requests |->
                  IF q = r THEN NoRequest
                  ELSE IF Busy(q) THEN [reqs[q] EXCEPT !.stale = @ \cup Kinds(reqs[r].op)] ELSE reqs[q]]
    /\ raced' = raced \cup (reqs[r].stale \cap Kinds(reqs[r].op))
    /\ carried' = carried + 1

Refuse(r) == reqs' = [reqs EXCEPT ![r] = NoRequest] /\ UNCHANGED <<catalogue, charged, sold, raced, carried>>

Room == carried + Cardinality({q \in Requests : Busy(q)}) < MaxDone

\* Looks at the catalogue and checks the request.
Check(r, op) ==
    /\ ~Busy(r) /\ Room
    /\ \A q \in Requests : Busy(q) => Row(reqs[q].op) \cap Row(op) = {}
    /\ Acceptable(Completed(op))
    /\ op.kind = "sell" => op.unit \in DOMAIN items[op.item].list /\ Saleable(op, PriceAt(op.item, op.unit), items[op.item].gst)
    /\ reqs' = [reqs EXCEPT ![r] = [at |-> "checked", op |-> Completed(op), plan |-> Plan(op), stale |-> {}]]
    /\ UNCHANGED <<catalogue, charged, sold, raced, carried>>

Holds(r, kind) == Busy(r) /\ reqs[r].op.kind = kind
CodeUnused(c) == \A j \in Items : There(j) => items[j].code # c
Full == \A i \in Items : There(i)
Slot == IF Full THEN NoItem ELSE CHOOSE i \in Items : ~There(i)

\* createItem, create, addValues: the new item's row (its code's unique index and, for a
\* new product, its name's allowing).
InsertItem(r) ==
    /\ Holds(r, "create") \/ Holds(r, "addSize")
    /\ LET op == reqs[r].op IN
       IF CodeUnused(op.code) /\ ~Full /\ (op.kind = "create" /\ op.size \in Sizes => SizesThere = {})
       THEN items' = [items EXCEPT ![Slot] = NewItem(op)] /\ UNCHANGED <<barcodes, branchPrices, charged, sold>> /\ Finish(r)
       ELSE Refuse(r)

\* applyItemUpdate: units and prices.
UpdateItem(r) ==
    /\ Holds(r, "update")
    /\ LET op == reqs[r].op IN
       /\ items' = [items EXCEPT ![op.item].list = SaleUnits(op), ![op.item].gst = op.gst]
       /\ branchPrices' = KeptBranchPrices(op.item, SaleUnits(op))
       /\ barcodes' = KeptBarcodes(op.item, SaleUnits(op))
    /\ UNCHANGED <<charged, sold>>
    /\ Finish(r)

\* applyItemUpdate: barcodes (their unique index allowing).
UpdateBarcodes(r) ==
    /\ Holds(r, "barcodes")
    /\ LET op == reqs[r].op IN
       IF \A c \in DOMAIN op.codes : Owner(c) \in {NoItem, op.item}
       THEN barcodes' = Replaced(barcodes, op.item, op.codes) /\ UNCHANGED <<items, branchPrices, charged, sold>> /\ Finish(r)
       ELSE Refuse(r)

\* setPrices: one size after the other, each an update of its own with its
\* checks; one that is refused leaves those before it priced.
PriceSize(r) ==
    /\ Holds(r, "priceAll")
    /\ \A q \in Requests : Busy(q) => \A i \in reqs[r].plan : <<"item", i>> \notin Row(reqs[q].op)
    /\ IF reqs[r].plan = {} THEN Refuse(r)
       ELSE LET op == reqs[r].op
                i == CHOOSE j \in reqs[r].plan : \A k \in reqs[r].plan : j <= k
                list == [items[i].list EXCEPT !["piece"] = op.price]
            IN  IF ListWithinMrp(list, items[i].gst) /\ BranchPricesWithinMrp(i, list, items[i].gst)
                THEN /\ items' = [items EXCEPT ![i].list = list]
                     /\ UNCHANGED <<barcodes, branchPrices, charged, sold>>
                     /\ IF reqs[r].plan = {i} THEN Finish(r)
                        ELSE /\ reqs' = [q \in Requests |->
                                   IF q = r THEN [reqs[q] EXCEPT !.plan = @ \ {i}]
                                   ELSE IF Busy(q) THEN [reqs[q] EXCEPT !.stale = @ \cup {"prices"}] ELSE reqs[q]]
                             /\ UNCHANGED <<raced, carried>>
                ELSE Refuse(r)

\* setBranchPrices: replaces the branch's own prices.
SetBranchPrices(r) ==
    /\ Holds(r, "branchPrices")
    /\ LET op == reqs[r].op IN
       branchPrices' = [p \in DOMAIN branchPrices |->
           IF p[1] # op.item THEN branchPrices[p] ELSE IF p[2] \in DOMAIN op.prices THEN op.prices[p[2]] ELSE NoPrice]
    /\ UNCHANGED <<items, barcodes, charged, sold>>
    /\ Finish(r)

\* import, in its transaction: a new item is inserted and a known one updated
\* as by those requests, with their checks, and with barcodes as they were read.
ImportRow(r) ==
    /\ Holds(r, "import")
    /\ LET op == reqs[r].op
           plan == reqs[r].plan
           i == IF plan.item = NoItem THEN Slot ELSE plan.item
           list == IF plan.item = NoItem THEN SaleUnits(op) ELSE [items[i].list EXCEPT !["piece"] = op.price]
       IN  IF /\ \A q \in Requests : Busy(q) => <<"item", i>> \notin Row(reqs[q].op)
              /\ plan.item = NoItem => ~Full /\ CodeUnused(op.code) /\ CodeFree(op.code)
              /\ plan.item # NoItem => ListWithinMrp(list, op.gst) /\ BranchPricesWithinMrp(i, list, op.gst)
              /\ \A c \in DOMAIN plan.barcodes : BarcodeFree(c, i) /\ plan.barcodes[c] \in DOMAIN list
           THEN /\ items' = [items EXCEPT ![i] = IF plan.item = NoItem THEN NewItem(op)
                                                 ELSE [@ EXCEPT !.list = list, !.gst = op.gst]]
                /\ barcodes' = IF plan.barcodes = << >> THEN barcodes ELSE Replaced(barcodes, i, plan.barcodes)
                /\ UNCHANGED <<branchPrices, charged, sold>>
                /\ Finish(r)
           ELSE Refuse(r)

\* deleteItem: no longer for sale.
DeleteItem(r) ==
    /\ Holds(r, "delete")
    /\ items' = [items EXCEPT ![reqs[r].op.item].active = FALSE]
    /\ UNCHANGED <<barcodes, branchPrices, charged, sold>>
    /\ Finish(r)

\* createSale: the line as it was priced.
Sell(r) ==
    /\ Holds(r, "sell")
    /\ LET op == reqs[r].op
           plan == reqs[r].plan IN
       sold' = sold \cup {[item |-> op.item, price |-> [plan.price EXCEPT !.ask = op.ask], gst |-> plan.gst, charged |-> plan.charged]}
    /\ UNCHANGED <<catalogue, charged>>
    /\ Finish(r)

\* The request's transaction fails or its caller is gone.
GiveUp(r) == Busy(r) /\ Refuse(r)

\* The business starts or stops charging GST (its taxpayer type changes).
ChangeTaxpayer ==
    /\ Room
    /\ charged' = ~charged
    /\ raced' = raced \cup IF charged THEN {} ELSE {"prices"}
    /\ carried' = carried + 1
    /\ UNCHANGED <<catalogue, sold, reqs>>

Next ==
    \/ \E r \in Requests :
        \/ \E op \in Ops : Check(r, op)
        \/ InsertItem(r) \/ UpdateItem(r) \/ UpdateBarcodes(r) \/ SetBranchPrices(r) \/ PriceSize(r)
        \/ ImportRow(r) \/ DeleteItem(r) \/ Sell(r) \/ GiveUp(r)
    \/ ChangeTaxpayer

Spec == Init /\ [][Next]_vars

-----------------------------------------------------------------------------
\* What a scan finds an item by, with how it is kept.
Names(i) == IF There(i) THEN {<<"code", items[i].code>>} \cup {<<"barcode", c>> : c \in BarcodesOf(i)} ELSE {}

(***************************************************************************)
(* schema.prisma, ItemBarcode: "Unique across items, and never another     *)
(* item's code".  What is scanned (in any case) finds one item, unless two *)
(* managers' checks overlapped, or two codes, or two barcodes, differ in   *)
(* case only: those are told apart by their indexes but not by a scan.     *)
(* No size of a product is added twice, unless requests overlapped.        *)
(***************************************************************************)
ScansFindOneItem ==
    /\ TypeOK
    /\ \A i, j \in Items : i # j =>
          /\ \A a \in Names(i), b \in Names(j) :
                Key[a[2]] = Key[b[2]] => "codes" \in raced \/ (a[1] = b[1] /\ a[2] # b[2])
          /\ There(i) /\ There(j) /\ items[i].size = items[j].size => items[i].size = Single \/ "sizes" \in raced

(***************************************************************************)
(* items.service.ts:107 "Goods may never be sold above their MRP": at no   *)
(* price, whatever the till showed and whoever changed the item meanwhile. *)
(* The prices asked are within it too, the branches' own included, unless  *)
(* changes overlapped or GST was charged only later.                       *)
(***************************************************************************)
NeverSoldAboveMrp ==
    /\ \A line \in sold : WithinMrp(line.price, line.gst, line.charged)
    /\ \A i \in Items : There(i) /\ "prices" \notin raced =>
          \A u \in DOMAIN items[i].list : WithinMrp(PriceAt(i, u), items[i].gst, charged)
=============================================================================
