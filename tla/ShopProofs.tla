----------------------------- MODULE ShopProofs -----------------------------
(***************************************************************************)
(* Of selling, for all constants: a scan finds one item                    *)
(* (ScansFindOneItem) and nothing is sold above its MRP                    *)
(* (NeverSoldAboveMrp), from an invariant that keeps, per request under    *)
(* way, what its checks still tell; a cart the till's tabs hold, save,     *)
(* restore and check out is billed once (CartBilledOnce); and a customer's *)
(* payment entered again or sent twice is recorded once                    *)
(* (PaymentRecordedOnce), from where a key, or a payment's ID, can be.     *)
(* And of the registers sales are rung up on (Registers), from what each   *)
(* request under way has seen under its locks, and who holds them.         *)
(***************************************************************************)
EXTENDS Catalog, Till, Settling, Registers, FiniteSetTheorems, SequenceTheorems, WellFoundedInduction, TLAPS

(***************************************************************************)
(* The catalogue (Catalog).                                                *)
(***************************************************************************)

Data == {"codes", "prices", "sizes"}
Requested == ItemOps \cup BarcodesOps \cup ProductOps \cup BranchPricesOps \cup ImportOps \cup SaleOps
Barcodes == UNION {[some -> Units] : some \in SUBSET Codes}

\* How a request under way is kept.
Shaped(r) ==
    Busy(r) => /\ reqs[r] = [at |-> "checked", op |-> reqs[r].op, plan |-> reqs[r].plan, stale |-> reqs[r].stale]
               /\ reqs[r].op \in Requested /\ reqs[r].stale \subseteq Data

Stored ==
    /\ items \in [Items -> Item \cup {NoItem}]
    /\ barcodes \in [Codes -> (Items \X Units) \cup {NoItem}]
    /\ branchPrices \in [Items \X Units -> Prices \cup {NoPrice}]
    /\ charged \in BOOLEAN /\ raced \subseteq Data

UnderWay ==
    /\ reqs = [r \in Requests |-> reqs[r]] /\ \A r \in Requests : Shaped(r)
    /\ carried \in Nat /\ carried + Cardinality({r \in Requests : Busy(r)}) <= MaxDone

\* An item's code is no other item's, as it is spelled, nor another's barcode, and barcodes are
\* of items there are.
CodesApart ==
    /\ \A i, j \in Items : There(i) /\ There(j) /\ items[i].code = items[j].code => i = j
    /\ \A c \in Codes, i \in Items : Owner(c) = i => There(i)
    /\ "codes" \notin raced =>
          \A i \in Items, c \in Codes : There(i) /\ Key[c] = Key[items[i].code] => Owner(c) \in {NoItem, i}

SizesApart ==
    "sizes" \notin raced =>
        \A i, j \in Items : There(i) /\ There(j) /\ items[i].size = items[j].size => i = j \/ items[i].size = Single

\* The list prices are within the MRPs whether or not the branch has its own.
PricesFit ==
    /\ \A i \in Items, u \in Units : branchPrices[<<i, u>>] # NoPrice => There(i)
    /\ "prices" \notin raced => \A i \in Items : There(i) =>
          ListWithinMrp(items[i].list, items[i].gst) /\ BranchPricesWithinMrp(i, items[i].list, items[i].gst)

\* What still holds of what request r was checked for.
ItemsStay(r) ==
    LET op == reqs[r].op IN
    /\ op.kind \in {"update", "barcodes", "branchPrices", "delete", "sell"} => There(op.item)
    /\ op.kind = "priceAll" => reqs[r].plan \subseteq Items /\ \A i \in reqs[r].plan : There(i)
    /\ op.kind = "import" => /\ reqs[r].plan \in [item : Items \cup {NoItem}, barcodes : Barcodes]
                             /\ reqs[r].plan.item # NoItem => There(reqs[r].plan.item)
SaleStands(r) ==
    LET op == reqs[r].op
        plan == reqs[r].plan
    IN  op.kind = "sell" => WithinMrp([plan.price EXCEPT !.ask = op.ask], plan.gst, plan.charged)
CodesStand(r) ==
    LET op == reqs[r].op IN
    "codes" \notin reqs[r].stale =>
        /\ op.kind \in {"create", "addSize"} => CodeFree(op.code)
        /\ op.kind = "barcodes" => \A c \in DOMAIN op.codes : ItemCoded(c) \subseteq {op.item}
SizesStand(r) ==
    LET op == reqs[r].op IN
    "sizes" \notin reqs[r].stale =>
        /\ op.kind = "addSize" => ~SizeTaken(op.size)
        /\ op.kind = "import" => (reqs[r].plan.item = NoItem /\ op.size \in Sizes => ~SizeTaken(op.size))
PricesStand(r) ==
    LET op == reqs[r].op IN
    "prices" \notin raced =>
        /\ op.kind \in {"create", "addSize"} => ListWithinMrp(SaleUnits(op), op.gst)
        /\ op.kind = "import" => (reqs[r].plan.item = NoItem => ListWithinMrp(SaleUnits(op), op.gst))
        /\ op.kind = "update" => ("prices" \notin reqs[r].stale =>
              ListWithinMrp(SaleUnits(op), op.gst) /\ BranchPricesWithinMrp(op.item, SaleUnits(op), op.gst))
        /\ op.kind = "branchPrices" => ("prices" \notin reqs[r].stale =>
              \A u \in DOMAIN op.prices : WithinMrp(op.prices[u], items[op.item].gst, charged))
Stands(r) == ItemsStay(r) /\ SaleStands(r) /\ CodesStand(r) /\ SizesStand(r) /\ PricesStand(r)

ChecksStand == \A r \in Requests : Busy(r) => Stands(r)
SoldWithinMrp == \A line \in sold : WithinMrp(line.price, line.gst, line.charged)

CatalogInv == Stored /\ UnderWay /\ CodesApart /\ SizesApart /\ PricesFit /\ ChecksStand /\ SoldWithinMrp

-----------------------------------------------------------------------------
LEMMA RequestForms ==
    ASSUME NEW op \in Requested
    PROVE  /\ op.kind \in {"create", "update", "delete", "barcodes", "addSize", "priceAll", "branchPrices", "import", "sell"}
           /\ op.kind \in {"create", "addSize", "import", "update"} => op.price \in Prices /\ op.units \in UnitPrices /\ op.gst \in BOOLEAN
           /\ op.kind \in {"create", "addSize", "import"} => op.code \in Codes /\ op.size \in Sizes \cup {Single}
           /\ op.kind = "addSize" => /\ op.size \in Sizes
                                     /\ op = [kind |-> op.kind, code |-> op.code, price |-> op.price, units |-> op.units,
                                              gst |-> op.gst, size |-> op.size]
           /\ op.kind \in {"update", "barcodes", "branchPrices", "delete", "sell"} => op.item \in Items
           /\ op.kind = "barcodes" => op.codes \in Barcodes
           /\ op.kind = "branchPrices" => op.prices \in UnitPrices
           /\ op.kind = "priceAll" => op.price \in Prices
           /\ op.kind = "import" => op.barcodes \subseteq Codes
           /\ op.kind = "sell" => op.unit \in Units /\ op.ask \in Amounts
<1>1. CASE op \in ItemOps
  BY <1>1 DEF ItemOps
<1>2. CASE op \in BarcodesOps
  BY <1>2 DEF BarcodesOps, Barcodes
<1>3. CASE op \in ProductOps
  BY <1>3 DEF ProductOps
<1>4. CASE op \in BranchPricesOps
  BY <1>4 DEF BranchPricesOps
<1>5. CASE op \in ImportOps
  BY <1>5 DEF ImportOps
<1>6. CASE op \in SaleOps
  BY <1>6 DEF SaleOps
<1>7. QED
  BY <1>1, <1>2, <1>3, <1>4, <1>5, <1>6 DEF Requested

LEMMA AboutData == \A op : Kinds(op) \subseteq Data
BY DEF Kinds, Data

LEMMA ListFacts ==
    ASSUME NEW list \in Lists
    PROVE  /\ list = [u \in DOMAIN list |-> list[u]]
           /\ "piece" \in DOMAIN list /\ DOMAIN list \subseteq Units
           /\ \A u \in DOMAIN list : list[u] \in Prices
<1>1. PICK some \in SUBSET Units : list \in [some \cup {"piece"} -> Prices]
  BY DEF Lists
<1>2. QED
  BY <1>1 DEF Units

LEMMA ListMade ==
    ASSUME NEW D \in SUBSET Units, "piece" \in D, NEW list \in [D -> Prices]
    PROVE  list \in Lists
<1>1. D = D \cup {"piece"}
  OBVIOUS
<1>2. list \in [D \cup {"piece"} -> Prices]
  BY <1>1
<1>3. QED
  BY <1>2 DEF Lists

LEMMA UnitPricesFacts ==
    ASSUME NEW prices \in UnitPrices
    PROVE  /\ DOMAIN prices \subseteq Units
           /\ \A u \in DOMAIN prices : prices[u] \in Prices
<1>1. PICK some \in SUBSET Units : prices \in [some -> Prices]
  BY DEF UnitPrices
<1>2. QED
  BY <1>1

LEMMA SaleUnitsTyped ==
    ASSUME NEW op, op.price \in Prices, op.units \in UnitPrices
    PROVE  SaleUnits(op) \in Lists
<1> DEFINE D == {"piece"} \cup DOMAIN op.units
<1>1. D \in SUBSET Units /\ "piece" \in D
  BY UnitPricesFacts DEF Units
<1>2. SaleUnits(op) \in [D -> Prices]
  BY UnitPricesFacts DEF SaleUnits
<1>3. QED
  BY <1>1, <1>2, ListMade

LEMMA Repriced ==
    ASSUME NEW list \in Lists, NEW price \in Prices
    PROVE  [list EXCEPT !["piece"] = price] \in Lists /\ DOMAIN [list EXCEPT !["piece"] = price] = DOMAIN list
<1>1. [list EXCEPT !["piece"] = price] \in [DOMAIN list -> Prices]
  BY ListFacts
<1>2. QED
  BY <1>1, ListFacts, ListMade

LEMMA ItemThere ==
    ASSUME Stored, NEW i \in Items, There(i)
    PROVE  /\ items[i] \in Item /\ items[i].list \in Lists /\ items[i].code \in Codes
           /\ items[i].gst \in BOOLEAN /\ items[i].size \in Sizes \cup {Single} /\ items[i].active \in BOOLEAN
           /\ items[i] = [code |-> items[i].code, list |-> items[i].list, gst |-> items[i].gst,
                          size |-> items[i].size, active |-> items[i].active]
<1>1. items[i] \in Item
  BY DEF Stored, There
<1>2. QED
  BY <1>1 DEF Item

LEMMA ItemIsThere ==
    ASSUME NEW code \in Codes, NEW list \in Lists, NEW gst \in BOOLEAN, NEW size \in Sizes \cup {Single}, NEW shown \in BOOLEAN
    PROVE  LET item == [code |-> code, list |-> list, gst |-> gst, size |-> size, active |-> shown]
           IN  item \in Item /\ item # NoItem
<1>1. [code |-> code, list |-> list, gst |-> gst, size |-> size, active |-> shown] \in Item
  BY DEF Item
<1>2. QED
  BY <1>1, CatalogAssumption

LEMMA CheaperWithoutGst ==
    ASSUME NEW price \in Prices, NEW gst \in BOOLEAN, WithinMrp(price, gst, TRUE)
    PROVE  WithinMrp(price, gst, FALSE)
<1>1. price.ask \in Nat /\ price.mrp \in Nat
  BY CatalogAssumption DEF Prices
<1>2. QED
  BY <1>1 DEF WithinMrp

-----------------------------------------------------------------------------
LEMMA CatalogStarts == Init => CatalogInv
<1> SUFFICES ASSUME Init PROVE CatalogInv
  OBVIOUS
<1>1. \A r \in Requests : ~Busy(r)
  BY DEF Init, Busy, NoRequest
<1>2. \A i \in Items : ~There(i)
  BY DEF Init, There
<1>3. UnderWay
  <2>1. {r \in Requests : Busy(r)} = {}
    BY <1>1
  <2>2. carried = 0 /\ reqs = [r \in Requests |-> reqs[r]]
    BY DEF Init
  <2>3. Cardinality({}) = 0
    BY FS_EmptySet
  <2>4. carried + Cardinality({r \in Requests : Busy(r)}) <= MaxDone
    <3>1. carried + Cardinality({}) <= MaxDone
      BY <2>2, <2>3, CatalogAssumption
    <3>2. QED
      BY <2>1, <3>1
  <2>5. QED
    BY <1>1, <2>2, <2>4 DEF UnderWay, Shaped
<1>4. Stored
  BY DEF Init, Stored
<1>5. CodesApart
  BY <1>2, CatalogAssumption DEF Init, CodesApart, Owner
<1>6. SizesApart
  BY <1>2 DEF SizesApart
<1>7. PricesFit
  <2>1. \A i \in Items, u \in Units : branchPrices[<<i, u>>] = NoPrice
    BY DEF Init
  <2>2. QED
    BY <1>2, <2>1 DEF PricesFit
<1>8. ChecksStand /\ SoldWithinMrp
  BY <1>1 DEF ChecksStand, SoldWithinMrp, Init
<1>9. QED
  BY <1>3, <1>4, <1>5, <1>6, <1>7, <1>8 DEF CatalogInv

\* A request that is done leaves one fewer under way, the others with what it changed.
LEMMA OneLess ==
    ASSUME UnderWay, NEW r \in Requests, Busy(r), NEW kinds \in SUBSET Data, ~Busy(r)',
           reqs' = [q \in Requests |-> reqs'[q]],
           \A q \in Requests \ {r} : IF Busy(q) THEN reqs'[q] = [reqs[q] EXCEPT !.stale = @ \cup kinds] ELSE reqs'[q] = reqs[q],
           carried' \in {carried, carried + 1}
    PROVE  /\ UnderWay'
           /\ \A q \in Requests : Busy(q)' => q # r /\ Busy(q)
           /\ \A q \in Requests \ {r} : Busy(q) =>
                 reqs'[q] = [at |-> "checked", op |-> reqs[q].op, plan |-> reqs[q].plan, stale |-> reqs[q].stale \cup kinds]
<1> DEFINE busy == {q \in Requests : Busy(q)}
<1>1. \A q \in Requests \ {r} : Busy(q) =>
         reqs'[q] = [at |-> "checked", op |-> reqs[q].op, plan |-> reqs[q].plan, stale |-> reqs[q].stale \cup kinds]
  BY DEF UnderWay, Shaped
<1>2. \A q \in Requests : Busy(q)' <=> q # r /\ Busy(q)
  BY <1>1 DEF Busy
<1>3. \A q \in Requests : Shaped(q)'
  <2>1. SUFFICES ASSUME NEW q \in Requests, Busy(q)' PROVE Shaped(q)'
    BY DEF Shaped
  <2>2. reqs'[q] = [at |-> "checked", op |-> reqs[q].op, plan |-> reqs[q].plan, stale |-> reqs[q].stale \cup kinds]
    BY <1>1, <1>2, <2>1
  <2>3. reqs[q].op \in Requested /\ reqs[q].stale \cup kinds \subseteq Data
    BY <1>2, <2>1 DEF UnderWay, Shaped
  <2>4. QED
    BY <2>2, <2>3 DEF Shaped
<1>4. Cardinality(busy \ {r}) = Cardinality(busy) - 1 /\ Cardinality(busy) \in Nat
  <2>1. IsFiniteSet(busy)
    BY CatalogAssumption, FS_Subset
  <2>2. r \in busy
    OBVIOUS
  <2>3. QED
    BY <2>1, <2>2, FS_RemoveElement, FS_CardinalityType
<1>5. busy' = busy \ {r}
  BY <1>2
<1>6. carried \in Nat /\ carried + Cardinality(busy) <= MaxDone
  BY DEF UnderWay
<1>7. carried' \in Nat /\ carried' + Cardinality(busy') <= MaxDone
  <2> HIDE DEF busy
  <2>1. QED
    BY <1>4, <1>5, <1>6, CatalogAssumption
<1>8. UnderWay'
  BY <1>3, <1>7 DEF UnderWay
<1>9. QED
  BY <1>1, <1>2, <1>8

LEMMA Finished ==
    ASSUME UnderWay, NEW r \in Requests, Busy(r), Finish(r)
    PROVE  /\ UnderWay'
           /\ \A q \in Requests : Busy(q)' => q # r /\ Busy(q)
           /\ \A q \in Requests \ {r} : Busy(q) =>
                 reqs'[q] = [at |-> "checked", op |-> reqs[q].op, plan |-> reqs[q].plan,
                             stale |-> reqs[q].stale \cup Kinds(reqs[r].op)]
           /\ raced' = raced \cup (reqs[r].stale \cap Kinds(reqs[r].op))
<1>1. Kinds(reqs[r].op) \in SUBSET Data
  BY AboutData
<1>2. /\ reqs' = [q \in Requests |-> reqs'[q]] /\ ~Busy(r)'
      /\ \A q \in Requests \ {r} : IF Busy(q) THEN reqs'[q] = [reqs[q] EXCEPT !.stale = @ \cup Kinds(reqs[r].op)]
                                   ELSE reqs'[q] = reqs[q]
  BY DEF Finish, Busy, NoRequest
<1>3. carried' \in {carried, carried + 1}
  BY DEF Finish
<1>4. raced' = raced \cup (reqs[r].stale \cap Kinds(reqs[r].op))
  BY DEF Finish
<1> DEFINE kinds == Kinds(reqs[r].op)
<1> HIDE DEF kinds
<1>5. QED
  BY <1>1, <1>2, <1>3, <1>4, OneLess DEF kinds

\* The checks of a request still hold when another changes only kinds of data it then knows of.
LEMMA OthersStand ==
    ASSUME Stored, UnderWay, ChecksStand, NEW kinds \in SUBSET Data, NEW q \in Requests, Busy(q),
           reqs'[q] = [at |-> "checked", op |-> reqs[q].op, plan |-> reqs[q].plan, stale |-> reqs[q].stale \cup kinds],
           \A i \in Items : There(i) => There(i)',
           "codes" \notin kinds => \A c \in Codes : (CodeFree(c) => CodeFree(c)') /\ ItemCoded(c)' \subseteq ItemCoded(c),
           "sizes" \notin kinds => \A s \in Sizes : SizeTaken(s)' => SizeTaken(s),
           "prices" \notin kinds => branchPrices' = branchPrices /\ \A i \in Items : There(i) => items'[i].gst = items[i].gst,
           "prices" \notin raced' => /\ "prices" \notin raced
                                   /\ \A price \in Prices, gst \in BOOLEAN :
                                         WithinMrp(price, gst, charged) => WithinMrp(price, gst, charged')
    PROVE  Stands(q)'
<1> DEFINE op == reqs[q].op
<1>1. op \in Requested /\ reqs'[q].op = op /\ reqs'[q].plan = reqs[q].plan /\ reqs'[q].stale = reqs[q].stale \cup kinds
  BY DEF UnderWay, Shaped
<1>2. Stands(q)
  BY DEF ChecksStand
<1>3. ItemsStay(q)'
  <2>1. op.kind \in {"update", "barcodes", "branchPrices", "delete", "sell"} => op.item \in Items
    BY <1>1, RequestForms
  <2>2. QED
    BY <1>1, <1>2, <2>1 DEF Stands, ItemsStay
<1>4. SaleStands(q)'
  BY <1>1, <1>2 DEF Stands, SaleStands
<1>5. CodesStand(q)'
  <2>1. SUFFICES ASSUME "codes" \notin reqs[q].stale, "codes" \notin kinds PROVE CodesStand(q)'
    BY <1>1 DEF CodesStand
  <2>2. op.kind \in {"create", "addSize"} => CodeFree(op.code)'
    BY <1>1, <1>2, <2>1, RequestForms DEF Stands, CodesStand
  <2>3. op.kind = "barcodes" => \A c \in DOMAIN op.codes : ItemCoded(c)' \subseteq {op.item}
    <3>1. SUFFICES ASSUME op.kind = "barcodes", NEW c \in DOMAIN op.codes PROVE ItemCoded(c)' \subseteq {op.item}
      OBVIOUS
    <3>2. c \in Codes
      BY <1>1, <3>1, RequestForms DEF Barcodes
    <3>3. QED
      BY <1>2, <2>1, <3>1, <3>2 DEF Stands, CodesStand
  <2>4. QED
    BY <1>1, <2>2, <2>3 DEF CodesStand
<1>6. SizesStand(q)'
  <2>1. op.kind = "addSize" => op.size \in Sizes
    BY <1>1, RequestForms
  <2>2. QED
    BY <1>1, <1>2, <2>1 DEF Stands, SizesStand
<1>7. PricesStand(q)'
  <2>1. SUFFICES ASSUME "prices" \notin raced' PROVE PricesStand(q)'
    BY DEF PricesStand
  <2>2. \A list \in Lists, gst \in BOOLEAN : ListWithinMrp(list, gst) => ListWithinMrp(list, gst)'
    BY <2>1, ListFacts DEF ListWithinMrp
  <2>3. op.kind \in {"create", "addSize", "import", "update"} => SaleUnits(op) \in Lists /\ op.gst \in BOOLEAN
    BY <1>1, RequestForms, SaleUnitsTyped
  <2>4. op.kind \in {"create", "addSize"} => ListWithinMrp(SaleUnits(op), op.gst)'
    BY <1>2, <2>1, <2>2, <2>3 DEF Stands, PricesStand
  <2>5. op.kind = "import" => (reqs[q].plan.item = NoItem => ListWithinMrp(SaleUnits(op), op.gst)')
    BY <1>2, <2>1, <2>2, <2>3 DEF Stands, PricesStand
  <2>6. ASSUME op.kind = "update", "prices" \notin reqs[q].stale \cup kinds
        PROVE  ListWithinMrp(SaleUnits(op), op.gst)' /\ BranchPricesWithinMrp(op.item, SaleUnits(op), op.gst)'
    <3>1. ListWithinMrp(SaleUnits(op), op.gst) /\ BranchPricesWithinMrp(op.item, SaleUnits(op), op.gst)
      BY <1>2, <2>1, <2>6 DEF Stands, PricesStand
    <3>2. op.item \in Items
      BY <1>1, <2>6, RequestForms
    <3>3. \A u \in Units : branchPrices[<<op.item, u>>] # NoPrice => branchPrices[<<op.item, u>>] \in Prices
      BY <3>2 DEF Stored
    <3>4. BranchPricesWithinMrp(op.item, SaleUnits(op), op.gst)'
      BY <2>1, <2>3, <2>6, <3>1, <3>3 DEF BranchPricesWithinMrp
    <3>5. QED
      BY <2>2, <2>3, <2>6, <3>1, <3>4
  <2>7. ASSUME op.kind = "branchPrices", "prices" \notin reqs[q].stale \cup kinds, NEW u \in DOMAIN op.prices
        PROVE  WithinMrp(op.prices[u], items'[op.item].gst, charged')
    <3>1. WithinMrp(op.prices[u], items[op.item].gst, charged)
      BY <1>2, <2>1, <2>7 DEF Stands, PricesStand
    <3>2. op.item \in Items /\ There(op.item) /\ op.prices[u] \in Prices
      BY <1>1, <1>2, <2>7, RequestForms, UnitPricesFacts DEF Stands, ItemsStay
    <3>3. items[op.item].gst \in BOOLEAN /\ items'[op.item].gst = items[op.item].gst
      BY <2>7, <3>2, ItemThere
    <3>4. QED
      BY <2>1, <3>1, <3>2, <3>3
  <2>8. QED
    BY <1>1, <2>4, <2>5, <2>6, <2>7 DEF PricesStand
<1>8. QED
  BY <1>3, <1>4, <1>5, <1>6, <1>7 DEF Stands

-----------------------------------------------------------------------------
\* Refused or given up: nothing but the request is gone.
LEMMA RefuseKept ==
    ASSUME CatalogInv, NEW r \in Requests, Busy(r), Refuse(r)
    PROVE  CatalogInv'
<1> USE DEF CatalogInv
<1>1. /\ reqs' = [q \in Requests |-> reqs'[q]] /\ ~Busy(r)'
      /\ \A q \in Requests \ {r} : reqs'[q] = reqs[q]
  BY DEF Refuse, UnderWay, Busy, NoRequest
<1>2. UNCHANGED <<items, barcodes, branchPrices, charged, sold, raced, carried>>
  BY DEF Refuse, catalogue
<1>3. UnderWay' /\ \A q \in Requests : Busy(q)' => q # r /\ Busy(q)
  <2> DEFINE kinds == {}
  <2>1. \A q \in Requests \ {r} : IF Busy(q) THEN reqs'[q] = [reqs[q] EXCEPT !.stale = @ \cup kinds] ELSE reqs'[q] = reqs[q]
    BY <1>1 DEF UnderWay, Shaped
  <2>2. kinds \in SUBSET Data
    OBVIOUS
  <2> HIDE DEF kinds
  <2>3. QED
    BY <1>1, <1>2, <2>1, <2>2, OneLess
<1>4. ChecksStand'
  <2>1. SUFFICES ASSUME NEW q \in Requests, Busy(q)' PROVE Stands(q)'
    BY DEF ChecksStand
  <2>2. Stands(q) /\ reqs'[q] = reqs[q]
    BY <1>1, <1>3, <2>1 DEF ChecksStand
  <2>3. ItemsStay(q)' /\ SaleStands(q)'
    BY <1>2, <2>2 DEF Stands, ItemsStay, SaleStands, There
  <2>4. CodesStand(q)' /\ SizesStand(q)'
    BY <1>2, <2>2 DEF Stands, CodesStand, CodeFree, ItemCoded, There, SizesStand, SizeTaken
  <2>5. PricesStand(q)'
    BY <1>2, <2>2 DEF Stands, PricesStand, ListWithinMrp, BranchPricesWithinMrp
  <2>6. QED
    BY <2>3, <2>4, <2>5 DEF Stands
<1>5. Stored' /\ CodesApart' /\ SizesApart'
  BY <1>2 DEF Stored, CodesApart, SizesApart, There, Owner
<1>6. PricesFit' /\ SoldWithinMrp'
  BY <1>2 DEF PricesFit, There, ListWithinMrp, BranchPricesWithinMrp, SoldWithinMrp
<1>7. QED
  BY <1>3, <1>4, <1>5, <1>6

LEMMA SlotFacts == ~Full => Slot \in Items /\ ~There(Slot)
BY DEF Full, Slot

LEMMA InsertItemKept ==
    ASSUME CatalogInv, NEW r \in Requests, InsertItem(r)
    PROVE  CatalogInv'
<1> DEFINE op == reqs[r].op
           n == Slot
<1> USE DEF CatalogInv
<1>1. Busy(r) /\ op \in Requested /\ op.kind \in {"create", "addSize"}
  BY DEF InsertItem, Holds, UnderWay, Shaped
<1>2. CASE Refuse(r)
  BY <1>1, <1>2, RefuseKept
<1>3. CASE ~Refuse(r)
  <2>1. /\ CodeUnused(op.code) /\ ~Full /\ (op.kind = "create" /\ op.size \in Sizes => SizesThere = {})
        /\ items' = [items EXCEPT ![n] = NewItem(op)]
        /\ UNCHANGED <<barcodes, branchPrices, charged, sold>> /\ Finish(r)
    BY <1>3 DEF InsertItem
  <2>2. n \in Items /\ ~There(n)
    BY <2>1, SlotFacts
  <2>3. op.code \in Codes /\ SaleUnits(op) \in Lists /\ op.gst \in BOOLEAN /\ op.size \in Sizes \cup {Single}
        /\ (op.kind = "addSize" => op.size \in Sizes)
    BY <1>1, RequestForms, SaleUnitsTyped
  <2> DEFINE new == NewItem(op)
  <2>4. new \in Item /\ new # NoItem /\ new.code = op.code /\ new.list = SaleUnits(op) /\ new.gst = op.gst /\ new.size = op.size
    BY <2>3, ItemIsThere DEF NewItem
  <2> HIDE DEF new, n, op
  <2>5. /\ items' \in [Items -> Item \cup {NoItem}]
        /\ items'[n] = new
        /\ \A i \in Items : i # n => items'[i] = items[i]
        /\ \A i \in Items : There(i)' <=> There(i) \/ i = n
    BY <2>1, <2>2, <2>4 DEF Stored, There, new, op
  <2>6. /\ UnderWay'
        /\ \A q \in Requests : Busy(q)' => q # r /\ Busy(q)
        /\ \A q \in Requests \ {r} : Busy(q) =>
              reqs'[q] = [at |-> "checked", op |-> reqs[q].op, plan |-> reqs[q].plan, stale |-> reqs[q].stale \cup Kinds(op)]
        /\ raced' = raced \cup (reqs[r].stale \cap Kinds(op))
    BY <1>1, <2>1, Finished DEF op
  <2>7. "codes" \in Kinds(op) /\ (op.size \in Sizes => "sizes" \in Kinds(op)) /\ Kinds(op) \in SUBSET Data
    BY <1>1, <2>3, AboutData DEF Kinds
  <2>8. Stands(r)
    BY <1>1 DEF ChecksStand
  <2>9. Stored'
    BY <2>1, <2>5, <2>6, <2>7 DEF Stored
  <2>10. CodesApart'
    <3>1. \A i \in Items : There(i) => items[i].code # op.code
      BY <2>1 DEF CodeUnused, op
    <3>2. \A i, j \in Items : There(i)' /\ There(j)' /\ items'[i].code = items'[j].code => i = j
      BY <2>4, <2>5, <3>1 DEF CodesApart
    <3>3. \A c \in Codes : Owner(c)' = Owner(c)
      BY <2>1 DEF Owner
    <3>4. \A c \in Codes, i \in Items : Owner(c)' = i => There(i)'
      BY <2>1, <2>5, <3>3 DEF CodesApart, Owner, Stored
    <3>5. ASSUME "codes" \notin raced', NEW i \in Items, NEW c \in Codes, There(i)', Key[c] = Key[items'[i].code]
          PROVE  Owner(c)' \in {NoItem, i}
      <4>1. CASE i = n
        <5>1. CodeFree(op.code)
          BY <1>1, <2>6, <2>7, <2>8, <3>5 DEF Stands, CodesStand, op
        <5>2. QED
          BY <2>4, <2>5, <3>3, <3>5, <4>1, <5>1 DEF CodeFree, Owner
      <4>2. CASE i # n
        BY <2>5, <2>6, <3>3, <3>5, <4>2 DEF CodesApart
      <4>3. QED
        BY <4>1, <4>2
    <3>6. QED
      BY <3>2, <3>4, <3>5 DEF CodesApart
  <2>11. SizesApart'
    <3>1. SUFFICES ASSUME "sizes" \notin raced' PROVE SizesApart'
      BY DEF SizesApart
    <3>2. op.size \in Sizes => \A i \in Items : There(i) => items[i].size # op.size
      <4>1. CASE op.kind = "create"
        BY <2>1, <4>1 DEF SizesThere, op
      <4>2. CASE op.kind = "addSize"
        BY <2>3, <2>6, <2>7, <2>8, <3>1, <4>2 DEF Stands, SizesStand, SizeTaken, op
      <4>3. QED
        BY <1>1, <4>1, <4>2 DEF op
    <3>3. QED
      BY <2>3, <2>4, <2>5, <2>6, <3>1, <3>2 DEF SizesApart
  <2>12. PricesFit'
    <3>1. SUFFICES ASSUME "prices" \notin raced', NEW i \in Items, There(i)'
                   PROVE  ListWithinMrp(items[i].list, items[i].gst)' /\ BranchPricesWithinMrp(i, items[i].list, items[i].gst)'
      BY <2>1, <2>5 DEF PricesFit
    <3>2. CASE i = n
      <4>1. ListWithinMrp(SaleUnits(op), op.gst)
        BY <1>1, <2>6, <2>8, <3>1 DEF Stands, PricesStand, op
      <4>2. \A u \in Units : branchPrices[<<n, u>>] = NoPrice
        BY <2>2 DEF PricesFit
      <4>3. QED
        BY <2>1, <2>4, <2>5, <3>2, <4>1, <4>2 DEF ListWithinMrp, BranchPricesWithinMrp
    <3>3. CASE i # n
      BY <2>1, <2>5, <2>6, <3>1, <3>3 DEF PricesFit, ListWithinMrp, BranchPricesWithinMrp
    <3>4. QED
      BY <3>2, <3>3
  <2>13. ChecksStand'
    <3>1. SUFFICES ASSUME NEW q \in Requests, Busy(q), q # r PROVE Stands(q)'
      BY <2>6 DEF ChecksStand
    <3>2. \A i \in Items : There(i) => There(i)' /\ items'[i].gst = items[i].gst
      BY <2>2, <2>5
    <3>3. "sizes" \notin Kinds(op) => \A s \in Sizes : SizeTaken(s)' => SizeTaken(s)
      BY <2>4, <2>5, <2>7 DEF SizeTaken
    <3>4. charged' = charged /\ branchPrices' = branchPrices /\ ("prices" \notin raced' => "prices" \notin raced)
      BY <2>1, <2>6
    <3> DEFINE kinds == Kinds(op)
    <3> HIDE DEF kinds
    <3>5. reqs'[q] = [at |-> "checked", op |-> reqs[q].op, plan |-> reqs[q].plan, stale |-> reqs[q].stale \cup kinds]
      BY <2>6, <3>1 DEF kinds
    <3>6. kinds \in SUBSET Data /\ "codes" \in kinds /\ ("sizes" \notin kinds => \A s \in Sizes : SizeTaken(s)' => SizeTaken(s))
      BY <2>7, <3>3 DEF kinds
    <3>7. QED
      BY <3>1, <3>2, <3>4, <3>5, <3>6, OthersStand
  <2>14. SoldWithinMrp'
    BY <2>1 DEF SoldWithinMrp
  <2>15. QED
    BY <2>6, <2>9, <2>10, <2>11, <2>12, <2>13, <2>14
<1>4. QED
  BY <1>2, <1>3

LEMMA ItemListed ==
    ASSUME NEW item \in Item, NEW list
    PROVE  [item EXCEPT !.list = list]
           = [code |-> item.code, list |-> list, gst |-> item.gst, size |-> item.size, active |-> item.active]
BY DEF Item

LEMMA ItemDeactivated ==
    ASSUME NEW item \in Item, NEW shown
    PROVE  [item EXCEPT !.active = shown]
           = [code |-> item.code, list |-> item.list, gst |-> item.gst, size |-> item.size, active |-> shown]
BY DEF Item

LEMMA ItemSet ==
    ASSUME NEW item \in Item, NEW list, NEW gst
    PROVE  [item EXCEPT !.list = list, !.gst = gst]
           = [code |-> item.code, list |-> list, gst |-> gst, size |-> item.size, active |-> item.active]
<1>1. [item EXCEPT !.list = list, !.gst = gst] = [[item EXCEPT !.list = list] EXCEPT !.gst = gst]
  OBVIOUS
<1>2. [item EXCEPT !.list = list]
      = [code |-> item.code, list |-> list, gst |-> item.gst, size |-> item.size, active |-> item.active]
  BY ItemListed
<1>3. [[code |-> item.code, list |-> list, gst |-> item.gst, size |-> item.size, active |-> item.active] EXCEPT !.gst = gst]
      = [code |-> item.code, list |-> list, gst |-> gst, size |-> item.size, active |-> item.active]
  OBVIOUS
<1>4. QED
  BY <1>1, <1>2, <1>3, Zenon

\* An item that keeps its code and size leaves what is found by them as it was.
LEMMA ItemChanged ==
    ASSUME Stored, NEW i \in Items, There(i), NEW list \in Lists, NEW gst \in BOOLEAN, NEW shown \in BOOLEAN,
           items' = [items EXCEPT ![i] = [code |-> items[i].code, list |-> list, gst |-> gst, size |-> items[i].size, active |-> shown]]
    PROVE  /\ items' \in [Items -> Item \cup {NoItem}]
           /\ items'[i].list = list /\ items'[i].gst = gst
           /\ \A j \in Items : /\ There(j)' <=> There(j)
                               /\ j # i => items'[j] = items[j]
                               /\ items'[j].code = items[j].code /\ items'[j].size = items[j].size
           /\ \A c \in Codes : ItemCoded(c)' = ItemCoded(c)
           /\ \A s \in Sizes : SizeTaken(s)' => SizeTaken(s)
<1> DEFINE new == [code |-> items[i].code, list |-> list, gst |-> gst, size |-> items[i].size, active |-> shown]
<1>1. new \in Item /\ new # NoItem
  <2>1. items[i].code \in Codes /\ items[i].size \in Sizes \cup {Single}
    BY ItemThere
  <2>2. QED
    BY <2>1, ItemIsThere
<1>2. new.code = items[i].code /\ new.size = items[i].size /\ new.list = list /\ new.gst = gst
  OBVIOUS
<1>3. items' = [items EXCEPT ![i] = new]
  OBVIOUS
<1> HIDE DEF new
<1>4. items' \in [Items -> Item \cup {NoItem}] /\ items'[i] = new /\ \A j \in Items : j # i => items'[j] = items[j]
  BY <1>1, <1>3 DEF Stored
<1>5. \A j \in Items : /\ There(j)' <=> There(j)
                       /\ items'[j].code = items[j].code /\ items'[j].size = items[j].size
  BY <1>1, <1>2, <1>4 DEF There
<1>6. QED
  BY <1>2, <1>4, <1>5 DEF ItemCoded, SizeTaken

LEMMA KeptCodes ==
    ASSUME CatalogInv, \A j \in Items : (There(j)' <=> There(j)) /\ items'[j].code = items[j].code /\ items'[j].size = items[j].size,
           raced \subseteq raced', \A c \in Codes : Owner(c)' \in {NoItem, Owner(c)}
    PROVE  CodesApart' /\ SizesApart'
<1>1. SizesApart'
  BY DEF CatalogInv, SizesApart
<1>2. \A c \in Codes, i \in Items : Owner(c)' = i => There(i)'
  BY CatalogAssumption DEF CatalogInv, CodesApart
<1>3. \A i, j \in Items : There(i)' /\ There(j)' /\ items'[i].code = items'[j].code => i = j
  BY DEF CatalogInv, CodesApart
<1>4. ASSUME "codes" \notin raced', NEW i \in Items, NEW c \in Codes, There(i)', Key[c] = Key[items'[i].code]
      PROVE  Owner(c)' \in {NoItem, i}
  BY <1>4 DEF CatalogInv, CodesApart
<1>5. QED
  BY <1>1, <1>2, <1>3, <1>4 DEF CodesApart

LEMMA UpdateItemKept ==
    ASSUME CatalogInv, NEW r \in Requests, UpdateItem(r)
    PROVE  CatalogInv'
<1> DEFINE op == reqs[r].op
           n == op.item
           list == SaleUnits(op)
<1> USE DEF CatalogInv
<1>1. Busy(r) /\ op \in Requested /\ op.kind = "update"
  BY DEF UpdateItem, Holds, UnderWay, Shaped
<1>2. n \in Items /\ list \in Lists /\ op.gst \in BOOLEAN
  BY <1>1, RequestForms, SaleUnitsTyped
<1>3. Stands(r)
  BY <1>1 DEF ChecksStand
<1>4. There(n)
  BY <1>1, <1>3 DEF Stands, ItemsStay
<1>5. items' = [items EXCEPT ![n] = [code |-> items[n].code, list |-> list, gst |-> op.gst, size |-> items[n].size, active |-> items[n].active]]
  <2>1. items' = [items EXCEPT ![n] = [@ EXCEPT !.list = list, !.gst = op.gst]]
    <3>1. items' = [items EXCEPT ![n].list = list, ![n].gst = op.gst]
      BY DEF UpdateItem
    <3> HIDE DEF n, list, op
    <3>2. QED
      BY <1>2, <3>1 DEF Stored
  <2>2. [items[n] EXCEPT !.list = list, !.gst = op.gst]
        = [code |-> items[n].code, list |-> list, gst |-> op.gst, size |-> items[n].size, active |-> items[n].active]
    <3>1. items[n] \in Item
      BY <1>2, <1>4, ItemThere
    <3> HIDE DEF list, n, op
    <3>2. QED
      BY <3>1, ItemSet
  <2>3. QED
    BY <2>1, <2>2
<1>6. /\ branchPrices' = KeptBranchPrices(n, list)
      /\ barcodes' = KeptBarcodes(n, list)
      /\ UNCHANGED <<charged, sold>>
      /\ Finish(r)
  BY DEF UpdateItem
<1> HIDE DEF list, n
<1>7. items[n].active \in BOOLEAN
  BY <1>2, <1>4, ItemThere
<1>8. /\ items' \in [Items -> Item \cup {NoItem}]
      /\ items'[n].list = list /\ items'[n].gst = op.gst
      /\ \A j \in Items : /\ There(j)' <=> There(j)
                          /\ j # n => items'[j] = items[j]
                          /\ items'[j].code = items[j].code /\ items'[j].size = items[j].size
      /\ \A c \in Codes : ItemCoded(c)' = ItemCoded(c)
      /\ \A s \in Sizes : SizeTaken(s)' => SizeTaken(s)
  BY <1>2, <1>4, <1>5, <1>7, ItemChanged
<1>9. /\ UnderWay'
      /\ \A q \in Requests : Busy(q)' => q # r /\ Busy(q)
      /\ \A q \in Requests \ {r} : Busy(q) =>
            reqs'[q] = [at |-> "checked", op |-> reqs[q].op, plan |-> reqs[q].plan, stale |-> reqs[q].stale \cup Kinds(op)]
      /\ raced' = raced \cup (reqs[r].stale \cap Kinds(op))
  BY <1>1, <1>6, Finished
<1>10. Kinds(op) = {"prices"}
  BY <1>1 DEF Kinds
<1>11. barcodes' \in [Codes -> (Items \X Units) \cup {NoItem}] /\ \A c \in Codes : barcodes'[c] \in {NoItem, barcodes[c]}
  BY <1>6 DEF KeptBarcodes, Stored
<1>12. \A c \in Codes : Owner(c)' \in {NoItem, Owner(c)}
  BY <1>11 DEF Owner
<1>13. /\ branchPrices' \in [Items \X Units -> Prices \cup {NoPrice}]
       /\ \A j \in Items, u \in Units : branchPrices'[<<j, u>>] = IF j = n /\ u \notin DOMAIN list THEN NoPrice ELSE branchPrices[<<j, u>>]
  BY <1>6 DEF KeptBranchPrices, Stored
<1>14. Stored'
  BY <1>6, <1>8, <1>9, <1>10, <1>11, <1>13 DEF Stored, Data
<1>15. CodesApart' /\ SizesApart'
  BY <1>8, <1>9, <1>12, KeptCodes
<1>16. PricesFit'
  <2>1. \A j \in Items, u \in Units : branchPrices'[<<j, u>>] # NoPrice => There(j)'
    BY <1>8, <1>13 DEF PricesFit
  <2>2. SUFFICES ASSUME "prices" \notin raced', NEW j \in Items, There(j)'
                 PROVE  ListWithinMrp(items[j].list, items[j].gst)' /\ BranchPricesWithinMrp(j, items[j].list, items[j].gst)'
    BY <2>1 DEF PricesFit
  <2>3. CASE j = n
    <3>1. ListWithinMrp(list, op.gst) /\ BranchPricesWithinMrp(n, list, op.gst)
      BY <1>1, <1>3, <1>9, <1>10, <2>2 DEF Stands, PricesStand, list, n
    <3>2. QED
      BY <1>2, <1>6, <1>8, <1>13, <2>3, <3>1 DEF ListWithinMrp, BranchPricesWithinMrp
  <2>4. CASE j # n
    BY <1>6, <1>8, <1>9, <1>13, <2>2, <2>4 DEF PricesFit, ListWithinMrp, BranchPricesWithinMrp
  <2>5. QED
    BY <2>3, <2>4
<1>17. ChecksStand'
  <2>1. SUFFICES ASSUME NEW q \in Requests, Busy(q), q # r PROVE Stands(q)'
    BY <1>9 DEF ChecksStand
  <2> DEFINE kinds == {"prices"}
  <2>2. reqs'[q] = [at |-> "checked", op |-> reqs[q].op, plan |-> reqs[q].plan, stale |-> reqs[q].stale \cup kinds]
    BY <1>9, <1>10, <2>1
  <2>3. kinds \in SUBSET Data /\ "prices" \in kinds
    BY DEF Data
  <2>4. \A c \in Codes : CodeFree(c) => CodeFree(c)'
    BY <1>11 DEF CodeFree
  <2> HIDE DEF kinds
  <2>5. QED
    BY <1>6, <1>8, <1>9, <2>1, <2>2, <2>3, <2>4, OthersStand
<1>18. SoldWithinMrp'
  BY <1>6 DEF SoldWithinMrp
<1>19. QED
  BY <1>9, <1>14, <1>15, <1>16, <1>17, <1>18

LEMMA BarcodesReplaced ==
    ASSUME Stored, NEW n \in Items, NEW given \in Barcodes
    PROVE  /\ Replaced(barcodes, n, given) \in [Codes -> (Items \X Units) \cup {NoItem}]
           /\ \A c \in Codes : Replaced(barcodes, n, given)[c] = IF c \in DOMAIN given THEN <<n, given[c]>>
                                                               ELSE IF Owner(c) = n THEN NoItem ELSE barcodes[c]
<1>1. \A c \in DOMAIN given : given[c] \in Units
  BY DEF Barcodes
<1>2. \A c \in Codes : Owner(c) = n <=> barcodes[c] # NoItem /\ barcodes[c][1] = n
  BY CatalogAssumption DEF Owner
<1>3. \A c \in Codes : Replaced(barcodes, n, given)[c] = IF c \in DOMAIN given THEN <<n, given[c]>>
                                                       ELSE IF Owner(c) = n THEN NoItem ELSE barcodes[c]
  BY <1>2 DEF Replaced
<1>4. QED
  BY <1>1, <1>3 DEF Replaced, Stored

LEMMA UpdateBarcodesKept ==
    ASSUME CatalogInv, NEW r \in Requests, UpdateBarcodes(r)
    PROVE  CatalogInv'
<1> DEFINE op == reqs[r].op
           n == op.item
<1> USE DEF CatalogInv
<1>1. Busy(r) /\ op \in Requested /\ op.kind = "barcodes"
  BY DEF UpdateBarcodes, Holds, UnderWay, Shaped
<1>2. CASE Refuse(r)
  BY <1>1, <1>2, RefuseKept
<1>3. CASE ~Refuse(r)
  <2>1. /\ \A c \in DOMAIN op.codes : Owner(c) \in {NoItem, n}
        /\ barcodes' = Replaced(barcodes, n, op.codes)
        /\ UNCHANGED <<items, branchPrices, charged, sold>> /\ Finish(r)
    BY <1>3 DEF UpdateBarcodes
  <2>2. n \in Items /\ op.codes \in Barcodes
    BY <1>1, RequestForms
  <2>3. Stands(r)
    BY <1>1 DEF ChecksStand
  <2>4. There(n)
    BY <1>1, <2>3 DEF Stands, ItemsStay
  <2>5. /\ UnderWay'
        /\ \A q \in Requests : Busy(q)' => q # r /\ Busy(q)
        /\ \A q \in Requests \ {r} : Busy(q) =>
              reqs'[q] = [at |-> "checked", op |-> reqs[q].op, plan |-> reqs[q].plan, stale |-> reqs[q].stale \cup Kinds(op)]
        /\ raced' = raced \cup (reqs[r].stale \cap Kinds(op))
    BY <1>1, <2>1, Finished
  <2>6. Kinds(op) = {"codes"}
    BY <1>1 DEF Kinds
  <2> HIDE DEF n
  <2>7. /\ barcodes' \in [Codes -> (Items \X Units) \cup {NoItem}]
        /\ \A c \in Codes : barcodes'[c] = IF c \in DOMAIN op.codes THEN <<n, op.codes[c]>> ELSE IF Owner(c) = n THEN NoItem ELSE barcodes[c]
    <3> DEFINE given == op.codes
    <3>1. given \in Barcodes /\ barcodes' = Replaced(barcodes, n, given)
      BY <2>1, <2>2
    <3> HIDE DEF given
    <3>2. Stored
      OBVIOUS
    <3>3. /\ Replaced(barcodes, n, given) \in [Codes -> (Items \X Units) \cup {NoItem}]
          /\ \A c \in Codes : Replaced(barcodes, n, given)[c] = IF c \in DOMAIN given THEN <<n, given[c]>>
                                                              ELSE IF Owner(c) = n THEN NoItem ELSE barcodes[c]
      BY ONLY <2>2, <3>1, <3>2, BarcodesReplaced
    <3>4. QED
      BY <3>1, <3>3 DEF given
  <2>8. \A c \in Codes : Owner(c)' = IF c \in DOMAIN op.codes THEN n ELSE IF Owner(c) = n THEN NoItem ELSE Owner(c)
    <3>1. SUFFICES ASSUME NEW c \in Codes
                   PROVE  Owner(c)' = IF c \in DOMAIN op.codes THEN n ELSE IF Owner(c) = n THEN NoItem ELSE Owner(c)
      OBVIOUS
    <3>2. CASE c \in DOMAIN op.codes
      <4>1. barcodes'[c] = <<n, op.codes[c]>> /\ barcodes'[c] # NoItem
        <5>1. op.codes[c] \in Units
          BY <2>2, <3>2 DEF Barcodes
        <5>2. QED
          BY <2>2, <2>7, <3>2, <5>1, CatalogAssumption
      <4>2. QED
        BY <3>2, <4>1 DEF Owner
    <3>3. CASE c \notin DOMAIN op.codes
      BY <2>7, <3>3 DEF Owner
    <3>4. QED
      BY <3>2, <3>3
  <2>9. Stored'
    BY <2>1, <2>5, <2>6, <2>7 DEF Stored, Data
  <2>10. \A i \in Items : (There(i)' <=> There(i)) /\ items'[i] = items[i]
    BY <2>1 DEF There
  <2>11. CodesApart'
    <3>1. \A i, j \in Items : There(i)' /\ There(j)' /\ items'[i].code = items'[j].code => i = j
      BY <2>10 DEF CodesApart
    <3>2. \A c \in Codes, i \in Items : Owner(c)' = i => There(i)'
      BY <2>4, <2>8, <2>10, CatalogAssumption DEF CodesApart
    <3>3. ASSUME "codes" \notin raced', NEW i \in Items, NEW c \in Codes, There(i)', Key[c] = Key[items'[i].code]
          PROVE  Owner(c)' \in {NoItem, i}
      <4>1. CASE c \in DOMAIN op.codes
        <5>1. ItemCoded(c) \subseteq {n}
          BY <1>1, <2>3, <2>5, <2>6, <3>3, <4>1 DEF Stands, CodesStand, n
        <5>2. i \in ItemCoded(c)
          BY <2>10, <3>3 DEF ItemCoded
        <5>3. QED
          BY <2>8, <4>1, <5>1, <5>2
      <4>2. CASE c \notin DOMAIN op.codes
        BY <2>5, <2>8, <2>10, <3>3, <4>2 DEF CodesApart
      <4>3. QED
        BY <4>1, <4>2
    <3>4. QED
      BY <3>1, <3>2, <3>3 DEF CodesApart
  <2>12. SizesApart'
    BY <2>5, <2>10 DEF SizesApart
  <2>13. PricesFit'
    BY <2>1, <2>5, <2>10 DEF PricesFit, ListWithinMrp, BranchPricesWithinMrp
  <2>14. ChecksStand'
    <3>1. SUFFICES ASSUME NEW q \in Requests, Busy(q), q # r PROVE Stands(q)'
      BY <2>5 DEF ChecksStand
    <3> DEFINE kinds == {"codes"}
    <3>2. reqs'[q] = [at |-> "checked", op |-> reqs[q].op, plan |-> reqs[q].plan, stale |-> reqs[q].stale \cup kinds]
      BY <2>5, <2>6, <3>1
    <3>3. kinds \in SUBSET Data /\ "codes" \in kinds
      BY DEF Data
    <3>4. \A s \in Sizes : SizeTaken(s)' => SizeTaken(s)
      BY <2>10 DEF SizeTaken
    <3>5. /\ \A i \in Items : There(i) => There(i)' /\ items'[i].gst = items[i].gst
          /\ charged' = charged /\ branchPrices' = branchPrices /\ ("prices" \notin raced' => "prices" \notin raced)
      BY <2>1, <2>5, <2>10
    <3> HIDE DEF kinds
    <3>6. QED
      BY <3>1, <3>2, <3>3, <3>4, <3>5, OthersStand
  <2>15. SoldWithinMrp'
    BY <2>1 DEF SoldWithinMrp
  <2>16. QED
    BY <2>5, <2>9, <2>11, <2>12, <2>13, <2>14, <2>15
<1>4. QED
  BY <1>2, <1>3

LEMMA SetBranchPricesKept ==
    ASSUME CatalogInv, NEW r \in Requests, SetBranchPrices(r)
    PROVE  CatalogInv'
<1> DEFINE op == reqs[r].op
           n == op.item
<1> USE DEF CatalogInv
<1>1. Busy(r) /\ op \in Requested /\ op.kind = "branchPrices"
  BY DEF SetBranchPrices, Holds, UnderWay, Shaped
<1>2. n \in Items /\ op.prices \in UnitPrices
  BY <1>1, RequestForms
<1>3. Stands(r)
  BY <1>1 DEF ChecksStand
<1>4. There(n)
  BY <1>1, <1>3 DEF Stands, ItemsStay
<1>5. /\ branchPrices' = [p \in DOMAIN branchPrices |->
             IF p[1] # n THEN branchPrices[p] ELSE IF p[2] \in DOMAIN op.prices THEN op.prices[p[2]] ELSE NoPrice]
      /\ UNCHANGED <<items, barcodes, charged, sold>> /\ Finish(r)
  BY DEF SetBranchPrices
<1>6. /\ UnderWay'
      /\ \A q \in Requests : Busy(q)' => q # r /\ Busy(q)
      /\ \A q \in Requests \ {r} : Busy(q) =>
            reqs'[q] = [at |-> "checked", op |-> reqs[q].op, plan |-> reqs[q].plan, stale |-> reqs[q].stale \cup Kinds(op)]
      /\ raced' = raced \cup (reqs[r].stale \cap Kinds(op))
  BY <1>1, <1>5, Finished
<1>7. Kinds(op) = {"prices"}
  BY <1>1 DEF Kinds
<1> HIDE DEF n
<1>8. /\ branchPrices' \in [Items \X Units -> Prices \cup {NoPrice}]
      /\ \A i \in Items, u \in Units : branchPrices'[<<i, u>>] =
             IF i # n THEN branchPrices[<<i, u>>] ELSE IF u \in DOMAIN op.prices THEN op.prices[u] ELSE NoPrice
  BY <1>2, <1>5, UnitPricesFacts DEF Stored
<1>9. Stored'
  BY <1>5, <1>6, <1>7, <1>8 DEF Stored, Data
<1>10. \A i \in Items : (There(i)' <=> There(i)) /\ items'[i] = items[i]
  BY <1>5 DEF There
<1>11. CodesApart' /\ SizesApart'
  BY <1>5, <1>6, <1>10, KeptCodes DEF Owner
<1>12. PricesFit'
  <2>1. \A i \in Items, u \in Units : branchPrices'[<<i, u>>] # NoPrice => There(i)'
    BY <1>4, <1>8, <1>10 DEF PricesFit
  <2>2. SUFFICES ASSUME "prices" \notin raced', NEW i \in Items, There(i)'
                 PROVE  ListWithinMrp(items[i].list, items[i].gst)' /\ BranchPricesWithinMrp(i, items[i].list, items[i].gst)'
    BY <2>1 DEF PricesFit
  <2>3. ListWithinMrp(items[i].list, items[i].gst) /\ BranchPricesWithinMrp(i, items[i].list, items[i].gst)
    BY <1>6, <1>10, <2>2 DEF PricesFit
  <2>4. ListWithinMrp(items[i].list, items[i].gst)'
    BY <1>5, <2>3 DEF ListWithinMrp
  <2>5. i = n => \A u \in DOMAIN op.prices : WithinMrp(op.prices[u], items[i].gst, charged)
    BY <1>1, <1>3, <1>6, <1>7, <2>2 DEF Stands, PricesStand, n
  <2>6. BranchPricesWithinMrp(i, items[i].list, items[i].gst)'
    BY <1>5, <1>8, <2>3, <2>5 DEF BranchPricesWithinMrp
  <2>7. QED
    BY <2>4, <2>6
<1>13. ChecksStand'
  <2>1. SUFFICES ASSUME NEW q \in Requests, Busy(q), q # r PROVE Stands(q)'
    BY <1>6 DEF ChecksStand
  <2> DEFINE kinds == {"prices"}
  <2>2. reqs'[q] = [at |-> "checked", op |-> reqs[q].op, plan |-> reqs[q].plan, stale |-> reqs[q].stale \cup kinds]
    BY <1>6, <1>7, <2>1
  <2>3. kinds \in SUBSET Data /\ "prices" \in kinds
    BY DEF Data
  <2>4. \A s \in Sizes : SizeTaken(s)' => SizeTaken(s)
    BY <1>10 DEF SizeTaken
  <2>5. \A c \in Codes : (CodeFree(c) => CodeFree(c)') /\ ItemCoded(c)' \subseteq ItemCoded(c)
    BY <1>5 DEF CodeFree, ItemCoded, There
  <2>6. /\ \A i \in Items : There(i) => There(i)'
        /\ charged' = charged /\ ("prices" \notin raced' => "prices" \notin raced)
    BY <1>5, <1>6, <1>10
  <2> HIDE DEF kinds
  <2>7. QED
    BY <2>1, <2>2, <2>3, <2>4, <2>5, <2>6, OthersStand
<1>14. SoldWithinMrp'
  BY <1>5 DEF SoldWithinMrp
<1>15. QED
  BY <1>6, <1>9, <1>11, <1>12, <1>13, <1>14

LEMMA DeleteItemKept ==
    ASSUME CatalogInv, NEW r \in Requests, DeleteItem(r)
    PROVE  CatalogInv'
<1> DEFINE op == reqs[r].op
           n == op.item
<1> USE DEF CatalogInv
<1>1. Busy(r) /\ op \in Requested /\ op.kind = "delete"
  BY DEF DeleteItem, Holds, UnderWay, Shaped
<1>2. n \in Items /\ There(n)
  BY <1>1, RequestForms DEF ChecksStand, Stands, ItemsStay
<1>3. items[n].list \in Lists /\ items[n].gst \in BOOLEAN /\ items[n] \in Item
  BY <1>2, ItemThere
<1>4. items' = [items EXCEPT ![n] = [code |-> items[n].code, list |-> items[n].list, gst |-> items[n].gst, size |-> items[n].size, active |-> FALSE]]
  <2>1. items' = [items EXCEPT ![n].active = FALSE]
    BY DEF DeleteItem
  <2> HIDE DEF n
  <2>2. [items[n] EXCEPT !.active = FALSE]
        = [code |-> items[n].code, list |-> items[n].list, gst |-> items[n].gst, size |-> items[n].size, active |-> FALSE]
    BY <1>3, ItemDeactivated
  <2>3. QED
    BY <2>1, <2>2
<1>5. UNCHANGED <<barcodes, branchPrices, charged, sold>> /\ Finish(r)
  BY DEF DeleteItem
<1>6. /\ UnderWay'
      /\ \A q \in Requests : Busy(q)' => q # r /\ Busy(q)
      /\ \A q \in Requests \ {r} : Busy(q) =>
            reqs'[q] = [at |-> "checked", op |-> reqs[q].op, plan |-> reqs[q].plan, stale |-> reqs[q].stale \cup Kinds(op)]
      /\ raced' = raced \cup (reqs[r].stale \cap Kinds(op))
  BY <1>1, <1>5, Finished
<1>7. Kinds(op) = {} /\ raced' = raced
  BY <1>1, <1>6 DEF Kinds
<1> HIDE DEF n
<1>8. /\ items' \in [Items -> Item \cup {NoItem}]
      /\ \A j \in Items : There(j)' <=> There(j)
      /\ \A j \in Items : items'[j].code = items[j].code /\ items'[j].size = items[j].size
      /\ \A j \in Items : items'[j].list = items[j].list /\ items'[j].gst = items[j].gst
      /\ \A c \in Codes : ItemCoded(c)' = ItemCoded(c)
      /\ \A s \in Sizes : SizeTaken(s)' => SizeTaken(s)
  BY <1>2, <1>3, <1>4, ItemChanged
<1>9. Stored'
  BY <1>5, <1>7, <1>8 DEF Stored
<1>10. CodesApart' /\ SizesApart'
  BY <1>5, <1>7, <1>8, KeptCodes DEF Owner
<1>11. PricesFit'
  BY <1>5, <1>7, <1>8 DEF PricesFit, ListWithinMrp, BranchPricesWithinMrp
<1>12. ChecksStand'
  <2>1. SUFFICES ASSUME NEW q \in Requests, Busy(q), q # r PROVE Stands(q)'
    BY <1>6 DEF ChecksStand
  <2> DEFINE kinds == {}
  <2>2. kinds \in SUBSET Data /\ reqs'[q] = [at |-> "checked", op |-> reqs[q].op, plan |-> reqs[q].plan, stale |-> reqs[q].stale \cup kinds]
    BY <1>6, <1>7, <2>1
  <2>3. \A c \in Codes : (CodeFree(c) => CodeFree(c)') /\ ItemCoded(c)' \subseteq ItemCoded(c)
    BY <1>5, <1>8 DEF CodeFree
  <2> HIDE DEF kinds
  <2>4. QED
    BY <1>5, <1>7, <1>8, <2>1, <2>2, <2>3, OthersStand
<1>13. SoldWithinMrp'
  BY <1>5 DEF SoldWithinMrp
<1>14. QED
  BY <1>6, <1>9, <1>10, <1>11, <1>12, <1>13

\* What a request leaves alone stays as good as it was.
LEMMA CatalogueSame ==
    ASSUME CatalogInv, UNCHANGED <<catalogue, charged, raced>>
    PROVE  /\ Stored' /\ CodesApart' /\ SizesApart' /\ PricesFit'
           /\ \A q \in Requests : Stands(q) /\ reqs'[q] = reqs[q] => Stands(q)'
<1> USE DEF CatalogInv, catalogue
<1>1. Stored' /\ CodesApart' /\ SizesApart'
  BY DEF Stored, CodesApart, SizesApart, There, Owner
<1>2. PricesFit'
  BY DEF PricesFit, There, ListWithinMrp, BranchPricesWithinMrp
<1>3. ASSUME NEW q \in Requests, Stands(q), reqs'[q] = reqs[q]
      PROVE  Stands(q)'
  <2>1. ItemsStay(q)' /\ SaleStands(q)'
    BY <1>3 DEF Stands, ItemsStay, SaleStands, There
  <2>2. CodesStand(q)' /\ SizesStand(q)'
    BY <1>3 DEF Stands, CodesStand, CodeFree, ItemCoded, There, SizesStand, SizeTaken
  <2>3. PricesStand(q)'
    BY <1>3 DEF Stands, PricesStand, ListWithinMrp, BranchPricesWithinMrp
  <2>4. QED
    BY <2>1, <2>2, <2>3 DEF Stands
<1>4. QED
  BY <1>1, <1>2, <1>3

LEMMA SellKept ==
    ASSUME CatalogInv, NEW r \in Requests, Sell(r)
    PROVE  CatalogInv'
<1> DEFINE op == reqs[r].op
           plan == reqs[r].plan
<1> USE DEF CatalogInv
<1>1. Busy(r) /\ op \in Requested /\ op.kind = "sell"
  BY DEF Sell, Holds, UnderWay, Shaped
<1>2. UNCHANGED <<catalogue, charged>> /\ Finish(r)
  BY DEF Sell
<1>3. sold' = sold \cup {[item |-> op.item, price |-> [plan.price EXCEPT !.ask = op.ask], gst |-> plan.gst, charged |-> plan.charged]}
  BY DEF Sell
<1>4. SoldWithinMrp'
  <2>1. WithinMrp([plan.price EXCEPT !.ask = op.ask], plan.gst, plan.charged)
    BY <1>1 DEF ChecksStand, Stands, SaleStands
  <2> DEFINE price == [plan.price EXCEPT !.ask = op.ask]
  <2> HIDE DEF price
  <2>2. QED
    BY <1>3, <2>1 DEF SoldWithinMrp, price
<1>5. /\ UnderWay'
      /\ \A q \in Requests : Busy(q)' => q # r /\ Busy(q)
      /\ \A q \in Requests \ {r} : Busy(q) =>
            reqs'[q] = [at |-> "checked", op |-> reqs[q].op, plan |-> reqs[q].plan, stale |-> reqs[q].stale \cup Kinds(op)]
      /\ raced' = raced \cup (reqs[r].stale \cap Kinds(op))
  BY <1>1, <1>2, Finished
<1>6. Kinds(op) = {} /\ raced' = raced
  BY <1>1, <1>5 DEF Kinds
<1>7. \A q \in Requests \ {r} : Busy(q) => reqs'[q] = reqs[q]
  BY <1>5, <1>6 DEF UnderWay, Shaped
<1>8. ChecksStand'
  BY <1>2, <1>5, <1>6, <1>7, CatalogueSame DEF ChecksStand
<1>9. QED
  BY <1>2, <1>4, <1>5, <1>6, <1>8, CatalogueSame

LEMMA ChangeTaxpayerKept ==
    ASSUME CatalogInv, ChangeTaxpayer
    PROVE  CatalogInv'
<1> USE DEF CatalogInv
<1>1. /\ charged' = ~charged /\ raced' = raced \cup (IF charged THEN {} ELSE {"prices"}) /\ carried' = carried + 1
      /\ UNCHANGED <<items, barcodes, branchPrices, sold, reqs>> /\ Room
  BY DEF ChangeTaxpayer, catalogue
<1>2. UnderWay'
  <2> DEFINE busy == {q \in Requests : Busy(q)}
  <2>1. carried + Cardinality(busy) < MaxDone /\ carried \in Nat /\ Cardinality(busy) \in Nat
    <3>1. Cardinality(busy) \in Nat
      BY CatalogAssumption, FS_Subset, FS_CardinalityType
    <3>2. QED
      BY <1>1, <3>1 DEF Room, UnderWay
  <2>2. busy' = busy
    BY <1>1 DEF Busy
  <2>3. carried' \in Nat /\ carried' + Cardinality(busy') <= MaxDone
    <3> HIDE DEF busy
    <3>1. QED
      BY <1>1, <2>1, <2>2, CatalogAssumption
  <2>4. QED
    BY <1>1, <2>3 DEF UnderWay, Shaped, Busy
<1>3. Stored' /\ CodesApart' /\ SizesApart'
  BY <1>1 DEF Stored, CodesApart, SizesApart, There, Owner, Data
<1>4. "prices" \notin raced' =>
        /\ "prices" \notin raced
        /\ \A price \in Prices, gst \in BOOLEAN : WithinMrp(price, gst, charged) => WithinMrp(price, gst, charged')
  BY <1>1, CheaperWithoutGst DEF Stored
<1>5. PricesFit'
  <2>1. SUFFICES ASSUME "prices" \notin raced', NEW i \in Items, There(i)
                 PROVE  ListWithinMrp(items[i].list, items[i].gst)' /\ BranchPricesWithinMrp(i, items[i].list, items[i].gst)'
    BY <1>1 DEF PricesFit, There
  <2>2. items[i].list \in Lists /\ items[i].gst \in BOOLEAN
    BY <2>1, ItemThere
  <2>3. \A u \in Units : branchPrices[<<i, u>>] # NoPrice => branchPrices[<<i, u>>] \in Prices
    BY <2>1 DEF Stored
  <2>4. ListWithinMrp(items[i].list, items[i].gst) /\ BranchPricesWithinMrp(i, items[i].list, items[i].gst)
    BY <1>4, <2>1 DEF PricesFit
  <2>5. ListWithinMrp(items[i].list, items[i].gst)'
    BY <1>1, <1>4, <2>1, <2>2, <2>4, ListFacts DEF ListWithinMrp
  <2>6. BranchPricesWithinMrp(i, items[i].list, items[i].gst)'
    BY <1>1, <1>4, <2>1, <2>2, <2>3, <2>4 DEF BranchPricesWithinMrp
  <2>7. QED
    BY <2>5, <2>6
<1>6. ChecksStand'
  <2>1. SUFFICES ASSUME NEW q \in Requests, Busy(q) PROVE Stands(q)'
    BY <1>1 DEF ChecksStand, Busy
  <2> DEFINE kinds == {}
  <2>2. kinds \in SUBSET Data /\ reqs'[q] = [at |-> "checked", op |-> reqs[q].op, plan |-> reqs[q].plan, stale |-> reqs[q].stale \cup kinds]
    BY <1>1, <2>1 DEF UnderWay, Shaped
  <2>3. \A c \in Codes : (CodeFree(c) => CodeFree(c)') /\ ItemCoded(c)' \subseteq ItemCoded(c)
    BY <1>1 DEF CodeFree, ItemCoded, There
  <2>4. \A i \in Items : (There(i) => There(i)') /\ items'[i].gst = items[i].gst
    BY <1>1 DEF There
  <2>5. \A s \in Sizes : SizeTaken(s)' => SizeTaken(s)
    BY <1>1 DEF SizeTaken, There
  <2> HIDE DEF kinds
  <2>6. QED
    BY <1>1, <1>4, <2>1, <2>2, <2>3, <2>4, <2>5, OthersStand
<1>7. SoldWithinMrp'
  BY <1>1 DEF SoldWithinMrp
<1>8. QED
  BY <1>2, <1>3, <1>5, <1>6, <1>7

\* An item's prices change, its code and size do not.
LEMMA ItemRepriced ==
    ASSUME CatalogInv, NEW n \in Items, There(n), NEW list \in Lists, NEW gst \in BOOLEAN,
           items' = [items EXCEPT ![n] = [code |-> items[n].code, list |-> list, gst |-> gst, size |-> items[n].size, active |-> items[n].active]],
           UNCHANGED <<branchPrices, charged>>, raced' \subseteq Data, raced \subseteq raced',
           ListWithinMrp(list, gst), BranchPricesWithinMrp(n, list, gst)
    PROVE  /\ items' \in [Items -> Item \cup {NoItem}] /\ PricesFit'
           /\ \A j \in Items : (There(j)' <=> There(j)) /\ items'[j].code = items[j].code /\ items'[j].size = items[j].size
           /\ \A c \in Codes : ItemCoded(c)' = ItemCoded(c)
           /\ \A s \in Sizes : SizeTaken(s)' => SizeTaken(s)
<1> USE DEF CatalogInv
<1>1. items[n].active \in BOOLEAN
  BY ItemThere
<1>2. /\ items' \in [Items -> Item \cup {NoItem}]
      /\ items'[n].list = list /\ items'[n].gst = gst
      /\ \A j \in Items : (There(j)' <=> There(j)) /\ (j # n => items'[j] = items[j])
      /\ \A j \in Items : items'[j].code = items[j].code /\ items'[j].size = items[j].size
      /\ \A c \in Codes : ItemCoded(c)' = ItemCoded(c)
      /\ \A s \in Sizes : SizeTaken(s)' => SizeTaken(s)
  BY <1>1, ItemChanged
<1>3. PricesFit'
  <2>1. SUFFICES ASSUME "prices" \notin raced', NEW i \in Items, There(i)
                 PROVE  ListWithinMrp(items[i].list, items[i].gst)' /\ BranchPricesWithinMrp(i, items[i].list, items[i].gst)'
    BY <1>2 DEF PricesFit
  <2>2. CASE i = n
    BY <1>2, <2>2 DEF ListWithinMrp, BranchPricesWithinMrp
  <2>3. CASE i # n
    BY <1>2, <2>1, <2>3 DEF PricesFit, ListWithinMrp, BranchPricesWithinMrp
  <2>4. QED
    BY <2>2, <2>3
<1>4. QED
  BY <1>2, <1>3

LEMMA SmallestThere ==
    ASSUME NEW S, S \subseteq Nat, S # {}
    PROVE  \E i \in S : \A j \in S : i <= j
<1>1. PICK i \in S : \A j \in S : ~(<<j, i>> \in OpToRel(<, Nat))
  BY NatLessThanWellFounded, WFMin
<1>2. \A j \in S : ~(j < i)
  BY <1>1 DEF OpToRel
<1>3. QED
  BY <1>2

LEMMA PriceSizeKept ==
    ASSUME CatalogInv, NEW r \in Requests, PriceSize(r)
    PROVE  CatalogInv'
<1> DEFINE op == reqs[r].op
           plan == reqs[r].plan
           n == CHOOSE j \in plan : \A k \in plan : j <= k
           list == [items[n].list EXCEPT !["piece"] = op.price]
<1> USE DEF CatalogInv
<1>1. Busy(r) /\ op \in Requested /\ op.kind = "priceAll" /\ Stands(r)
  BY DEF PriceSize, Holds, UnderWay, Shaped, ChecksStand
<1>2. CASE Refuse(r)
  BY <1>1, <1>2, RefuseKept
<1>3. CASE ~Refuse(r)
  <2>1. /\ plan # {} /\ ListWithinMrp(list, items[n].gst) /\ BranchPricesWithinMrp(n, list, items[n].gst)
        /\ items' = [items EXCEPT ![n].list = list]
        /\ UNCHANGED <<barcodes, branchPrices, charged, sold>>
        /\ IF plan = {n} THEN Finish(r)
           ELSE /\ reqs' = [q \in Requests |->
                      IF q = r THEN [reqs[q] EXCEPT !.plan = @ \ {n}]
                      ELSE IF Busy(q) THEN [reqs[q] EXCEPT !.stale = @ \cup {"prices"}] ELSE reqs[q]]
                /\ UNCHANGED <<raced, carried>>
    BY <1>3 DEF PriceSize
  <2>2. plan \subseteq Items /\ \A i \in plan : There(i)
    BY <1>1 DEF Stands, ItemsStay
  <2>3. n \in plan
    BY <2>1, <2>2, SmallestThere, CatalogAssumption
  <2> HIDE DEF n
  <2>4. n \in Items /\ There(n)
    BY <2>2, <2>3
  <2>5. items[n] \in Item /\ items[n].list \in Lists /\ items[n].gst \in BOOLEAN
    BY <2>4, ItemThere
  <2>6. list \in Lists
    BY <1>1, <2>5, RequestForms, Repriced
  <2> HIDE DEF list
  <2>7. items' = [items EXCEPT ![n] = [code |-> items[n].code, list |-> list, gst |-> items[n].gst, size |-> items[n].size, active |-> items[n].active]]
    BY <2>1, <2>5, ItemListed
  <2>8. Kinds(op) = {"prices"}
    BY <1>1 DEF Kinds
  <2>9. /\ UnderWay'
        /\ \A q \in Requests : Busy(q)' => Busy(q)
        /\ \A q \in Requests \ {r} : Busy(q) =>
              reqs'[q] = [at |-> "checked", op |-> reqs[q].op, plan |-> reqs[q].plan, stale |-> reqs[q].stale \cup {"prices"}]
        /\ raced \subseteq raced' /\ raced' \subseteq Data
        /\ Busy(r)' => reqs'[r].op = op /\ reqs'[r].plan = plan \ {n}
    <3>1. CASE plan = {n}
      <4>1. /\ UnderWay'
            /\ \A q \in Requests : Busy(q)' => q # r /\ Busy(q)
            /\ \A q \in Requests \ {r} : Busy(q) =>
                  reqs'[q] = [at |-> "checked", op |-> reqs[q].op, plan |-> reqs[q].plan, stale |-> reqs[q].stale \cup Kinds(op)]
            /\ raced' = raced \cup (reqs[r].stale \cap Kinds(op))
        BY <1>1, <2>1, <3>1, Finished
      <4>2. QED
        BY <2>8, <4>1 DEF Stored, Data
    <3>2. CASE plan # {n}
      <4>1. /\ UNCHANGED <<raced, carried>>
            /\ reqs' = [q \in Requests |->
                   IF q = r THEN [reqs[q] EXCEPT !.plan = @ \ {n}]
                   ELSE IF Busy(q) THEN [reqs[q] EXCEPT !.stale = @ \cup {"prices"}] ELSE reqs[q]]
        BY <2>1, <3>2
      <4>2. reqs'[r] = [at |-> "checked", op |-> op, plan |-> plan \ {n}, stale |-> reqs[r].stale]
        <5>1. reqs'[r] = [reqs[r] EXCEPT !.plan = @ \ {n}]
          BY <4>1
        <5>2. QED
          BY <1>1, <5>1 DEF UnderWay, Shaped
      <4>3. \A q \in Requests \ {r} : Busy(q) =>
               reqs'[q] = [at |-> "checked", op |-> reqs[q].op, plan |-> reqs[q].plan, stale |-> reqs[q].stale \cup {"prices"}]
        <5>1. \A q \in Requests \ {r} : Busy(q) => reqs'[q] = [reqs[q] EXCEPT !.stale = @ \cup {"prices"}]
          BY <4>1
        <5>2. QED
          BY <5>1 DEF UnderWay, Shaped
      <4>4. \A q \in Requests : Busy(q)' <=> Busy(q)
        <5>1. \A q \in Requests \ {r} : ~Busy(q) => reqs'[q] = reqs[q]
          BY <4>1
        <5>2. \A q \in Requests \ {r} : Busy(q)' <=> Busy(q)
          <6>1. SUFFICES ASSUME NEW q \in Requests \ {r} PROVE Busy(q)' <=> Busy(q)
            OBVIOUS
          <6>2. CASE Busy(q)
            <7>1. reqs'[q] = [at |-> "checked", op |-> reqs[q].op, plan |-> reqs[q].plan, stale |-> reqs[q].stale \cup {"prices"}]
              BY <4>3, <6>1, <6>2
            <7>2. reqs'[q].at = "checked"
              BY <7>1
            <7>3. QED
              BY <6>2, <7>2 DEF Busy
          <6>3. CASE ~Busy(q)
            BY <5>1, <6>3 DEF Busy
          <6>4. QED
            BY <6>2, <6>3
        <5>3. Busy(r)'
          BY <4>2 DEF Busy
        <5>4. QED
          BY <1>1, <5>2, <5>3
      <4>5. \A q \in Requests : Shaped(q)'
        <5>1. SUFFICES ASSUME NEW q \in Requests, Busy(q)' PROVE Shaped(q)'
          BY DEF Shaped
        <5>2. reqs[q].op \in Requested /\ reqs[q].stale \subseteq Data
          BY <4>4, <5>1 DEF UnderWay, Shaped
        <5>3. CASE q = r
          BY <1>1, <4>2, <5>2, <5>3 DEF Shaped
        <5>4. CASE q # r
          <6>1. reqs'[q] = [at |-> "checked", op |-> reqs[q].op, plan |-> reqs[q].plan, stale |-> reqs[q].stale \cup {"prices"}]
            BY <4>3, <4>4, <5>1, <5>4
          <6>2. reqs[q].stale \cup {"prices"} \subseteq Data
            BY <5>2 DEF Data
          <6>3. QED
            BY <5>2, <6>1, <6>2 DEF Shaped
        <5>5. QED
          BY <5>3, <5>4
      <4>6. {q \in Requests : Busy(q)}' = {q \in Requests : Busy(q)}
        BY <4>4
      <4>7. UnderWay'
        <5>1. reqs' = [q \in Requests |-> reqs'[q]]
          BY <4>1
        <5>2. carried' \in Nat /\ carried' + Cardinality({q \in Requests : Busy(q)}') <= MaxDone
          BY <4>1, <4>6 DEF UnderWay
        <5>3. QED
          BY <4>5, <5>1, <5>2 DEF UnderWay
      <4>8. QED
        BY <4>1, <4>2, <4>3, <4>4, <4>7 DEF Stored
    <3>3. QED
      BY <3>1, <3>2
  <2>10. /\ items' \in [Items -> Item \cup {NoItem}] /\ PricesFit'
         /\ \A j \in Items : (There(j)' <=> There(j)) /\ items'[j].code = items[j].code /\ items'[j].size = items[j].size
         /\ \A c \in Codes : ItemCoded(c)' = ItemCoded(c)
         /\ \A s \in Sizes : SizeTaken(s)' => SizeTaken(s)
    <3>1. UNCHANGED <<branchPrices, charged>> /\ ListWithinMrp(list, items[n].gst) /\ BranchPricesWithinMrp(n, list, items[n].gst)
      BY <2>1
    <3>2. raced \subseteq raced' /\ raced' \subseteq Data
      BY <2>9
    <3> DEFINE gst == items[n].gst
    <3>3. gst \in BOOLEAN /\ ListWithinMrp(list, gst) /\ BranchPricesWithinMrp(n, list, gst)
          /\ items' = [items EXCEPT ![n] = [code |-> items[n].code, list |-> list, gst |-> gst, size |-> items[n].size, active |-> items[n].active]]
      BY <2>5, <2>7, <3>1
    <3> HIDE DEF gst
    <3>4. CatalogInv
      OBVIOUS
    <3>5. QED
      BY ONLY <2>4, <2>6, <3>1, <3>2, <3>3, <3>4, ItemRepriced
  <2>11. Stored'
    BY <2>1, <2>9, <2>10 DEF Stored
  <2>12. CodesApart' /\ SizesApart'
    BY <2>1, <2>9, <2>10, KeptCodes DEF Owner
  <2>13. ChecksStand'
    <3>1. SUFFICES ASSUME NEW q \in Requests, Busy(q), Busy(q)' PROVE Stands(q)'
      BY <2>9 DEF ChecksStand
    <3>2. CASE q # r
      <4> DEFINE kinds == {"prices"}
      <4>1. reqs'[q] = [at |-> "checked", op |-> reqs[q].op, plan |-> reqs[q].plan, stale |-> reqs[q].stale \cup kinds]
        BY <2>9, <3>1, <3>2
      <4>2. kinds \in SUBSET Data /\ "prices" \in kinds
        BY DEF Data
      <4>3. \A c \in Codes : (CodeFree(c) => CodeFree(c)') /\ ItemCoded(c)' \subseteq ItemCoded(c)
        BY <2>1, <2>10 DEF CodeFree
      <4>4. charged' = charged /\ ("prices" \notin raced' => "prices" \notin raced)
        BY <2>1, <2>9
      <4> HIDE DEF kinds
      <4>5. QED
        BY <2>10, <3>1, <4>1, <4>2, <4>3, <4>4, OthersStand
    <3>3. CASE q = r
      BY <1>1, <2>2, <2>9, <2>10, <3>1, <3>3 DEF Stands, ItemsStay, SaleStands, CodesStand, SizesStand, PricesStand
    <3>4. QED
      BY <3>2, <3>3
  <2>14. SoldWithinMrp'
    BY <2>1 DEF SoldWithinMrp
  <2>15. QED
    BY <2>9, <2>10, <2>11, <2>12, <2>13, <2>14
<1>4. QED
  BY <1>2, <1>3

LEMMA ImportRowKept ==
    ASSUME CatalogInv, NEW r \in Requests, ImportRow(r)
    PROVE  CatalogInv'
<1> DEFINE op == reqs[r].op
           plan == reqs[r].plan
           n == IF plan.item = NoItem THEN Slot ELSE plan.item
           list == IF plan.item = NoItem THEN SaleUnits(op) ELSE [items[n].list EXCEPT !["piece"] = op.price]
<1> USE DEF CatalogInv
<1>1. Busy(r) /\ op \in Requested /\ op.kind = "import" /\ Stands(r)
  BY DEF ImportRow, Holds, UnderWay, Shaped, ChecksStand
<1>2. CASE Refuse(r)
  BY <1>1, <1>2, RefuseKept
<1>3. CASE ~Refuse(r)
  <2>1. /\ plan.item = NoItem => ~Full /\ CodeUnused(op.code) /\ CodeFree(op.code)
        /\ plan.item # NoItem => ListWithinMrp(list, op.gst) /\ BranchPricesWithinMrp(n, list, op.gst)
        /\ \A c \in DOMAIN plan.barcodes : BarcodeFree(c, n)
        /\ items' = [items EXCEPT ![n] = IF plan.item = NoItem THEN NewItem(op) ELSE [@ EXCEPT !.list = list, !.gst = op.gst]]
        /\ barcodes' = IF plan.barcodes = << >> THEN barcodes ELSE Replaced(barcodes, n, plan.barcodes)
        /\ UNCHANGED <<branchPrices, charged, sold>>
        /\ Finish(r)
    BY <1>3 DEF ImportRow
  <2>2. plan.item \in Items \cup {NoItem} /\ plan.barcodes \in Barcodes /\ (plan.item # NoItem => There(plan.item))
    BY <1>1 DEF Stands, ItemsStay
  <2>3. n \in Items /\ (There(n) <=> plan.item # NoItem)
    BY <2>1, <2>2, SlotFacts
  <2>4. op.code \in Codes /\ SaleUnits(op) \in Lists /\ op.gst \in BOOLEAN /\ op.size \in Sizes \cup {Single} /\ op.price \in Prices
    BY <1>1, RequestForms, SaleUnitsTyped
  <2>5. /\ UnderWay'
        /\ \A q \in Requests : Busy(q)' => q # r /\ Busy(q)
        /\ \A q \in Requests \ {r} : Busy(q) =>
              reqs'[q] = [at |-> "checked", op |-> reqs[q].op, plan |-> reqs[q].plan, stale |-> reqs[q].stale \cup Kinds(op)]
        /\ raced' = raced \cup (reqs[r].stale \cap Kinds(op))
    BY <1>1, <2>1, Finished
  <2>6. Kinds(op) = Data
    BY <1>1 DEF Kinds, Data
  <2>7. raced \subseteq raced' /\ raced' \subseteq Data
    BY <2>5, <2>6 DEF Stored
  <2> HIDE DEF n, list, plan
  \* The items, the prices and the sizes.
  <2>8. /\ items' \in [Items -> Item \cup {NoItem}] /\ PricesFit' /\ SizesApart'
        /\ \A i \in Items : i # n => items'[i] = items[i]
        /\ \A i \in Items : There(i)' <=> There(i) \/ i = n
        /\ There(n) => items'[n].code = items[n].code
        /\ ~There(n) => items'[n].code = op.code
    <3>1. CASE plan.item = NoItem
      <4> DEFINE new == NewItem(op)
      <4>1. new \in Item /\ new # NoItem /\ new.code = op.code /\ new.list = SaleUnits(op) /\ new.gst = op.gst /\ new.size = op.size
        BY <2>4, ItemIsThere DEF NewItem
      <4> HIDE DEF new
      <4>2. ~There(n)
        BY <2>3, <3>1
      <4>3. items' = [items EXCEPT ![n] = new]
        BY <2>1, <3>1 DEF new
      <4>4. /\ items' \in [Items -> Item \cup {NoItem}]
            /\ items'[n] = new
            /\ \A i \in Items : i # n => items'[i] = items[i]
            /\ \A i \in Items : There(i)' <=> There(i) \/ i = n
        BY <2>3, <4>1, <4>3 DEF Stored, There
      <4>5. SizesApart'
        <5>1. SUFFICES ASSUME "sizes" \notin raced' PROVE SizesApart'
          BY DEF SizesApart
        <5>2. op.size \in Sizes => \A i \in Items : There(i) => items[i].size # op.size
          BY <1>1, <2>5, <2>6, <3>1, <5>1 DEF Stands, SizesStand, SizeTaken, plan, Data
        <5>3. QED
          BY <2>4, <2>5, <4>1, <4>2, <4>4, <5>1, <5>2 DEF SizesApart
      <4>6. PricesFit'
        <5>1. SUFFICES ASSUME "prices" \notin raced', NEW i \in Items, There(i)'
                       PROVE  ListWithinMrp(items[i].list, items[i].gst)' /\ BranchPricesWithinMrp(i, items[i].list, items[i].gst)'
          BY <2>1, <4>4 DEF PricesFit
        <5>2. CASE i = n
          <6>1. ListWithinMrp(SaleUnits(op), op.gst)
            BY <1>1, <2>5, <3>1, <5>1 DEF Stands, PricesStand, plan
          <6>2. \A u \in Units : branchPrices[<<n, u>>] = NoPrice
            BY <2>3, <4>2 DEF PricesFit
          <6>3. QED
            BY <2>1, <4>1, <4>4, <5>2, <6>1, <6>2 DEF ListWithinMrp, BranchPricesWithinMrp
        <5>3. CASE i # n
          BY <2>1, <2>5, <4>4, <5>1, <5>3 DEF PricesFit, ListWithinMrp, BranchPricesWithinMrp
        <5>4. QED
          BY <5>2, <5>3
      <4>7. QED
        BY <4>1, <4>2, <4>4, <4>5, <4>6
    <3>2. CASE plan.item # NoItem
      <4>1. There(n)
        BY <2>3, <3>2
      <4>2. items[n] \in Item /\ items[n].list \in Lists /\ items[n].gst \in BOOLEAN
        BY <2>3, <4>1, ItemThere
      <4>3. list \in Lists
        BY <2>4, <3>2, <4>2, Repriced DEF list
      <4> DEFINE gst == op.gst
      <4>4. items' = [items EXCEPT ![n] = [code |-> items[n].code, list |-> list, gst |-> gst, size |-> items[n].size, active |-> items[n].active]]
        <5>1. items' = [items EXCEPT ![n] = [items[n] EXCEPT !.list = list, !.gst = gst]]
          BY <2>1, <3>2
        <5> HIDE DEF gst
        <5>2. QED
          BY <4>2, <5>1, ItemSet
      <4>5. UNCHANGED <<branchPrices, charged>> /\ ListWithinMrp(list, gst) /\ BranchPricesWithinMrp(n, list, gst) /\ gst \in BOOLEAN
        BY <2>1, <2>4, <3>2
      <4>6. CatalogInv
        OBVIOUS
      <4> HIDE DEF gst
      <4>7. /\ items' \in [Items -> Item \cup {NoItem}] /\ PricesFit'
            /\ \A j \in Items : (There(j)' <=> There(j)) /\ items'[j].code = items[j].code /\ items'[j].size = items[j].size
        BY ONLY <2>3, <2>7, <4>1, <4>3, <4>4, <4>5, <4>6, ItemRepriced
      <4>8. \A i \in Items : i # n => items'[i] = items[i]
        BY <4>4
      <4>9. SizesApart'
        BY <2>7, <4>7 DEF SizesApart
      <4>10. QED
        BY <2>3, <4>1, <4>7, <4>8, <4>9
    <3>3. QED
      BY <3>1, <3>2
  \* The barcodes.
  <2>9. /\ barcodes' \in [Codes -> (Items \X Units) \cup {NoItem}]
        /\ \A c \in Codes : c \in DOMAIN plan.barcodes => Owner(c)' = n
        /\ \A c \in Codes : c \notin DOMAIN plan.barcodes => Owner(c)' \in {NoItem, Owner(c)}
    <3>1. CASE plan.barcodes = << >>
      BY <2>1, <3>1 DEF Stored, Owner
    <3>2. CASE plan.barcodes # << >>
      <4> DEFINE given == plan.barcodes
      <4>1. given \in Barcodes /\ barcodes' = Replaced(barcodes, n, given)
        BY <2>1, <2>2, <3>2
      <4> HIDE DEF given
      <4>2. Stored
        OBVIOUS
      <4>3. /\ Replaced(barcodes, n, given) \in [Codes -> (Items \X Units) \cup {NoItem}]
            /\ \A c \in Codes : Replaced(barcodes, n, given)[c] = IF c \in DOMAIN given THEN <<n, given[c]>>
                                                                ELSE IF Owner(c) = n THEN NoItem ELSE barcodes[c]
        BY ONLY <2>3, <4>1, <4>2, BarcodesReplaced
      <4>4. ASSUME NEW c \in Codes, c \in DOMAIN given
            PROVE  Owner(c)' = n
        <5>1. given[c] \in Units /\ barcodes'[c] = <<n, given[c]>>
          BY <4>1, <4>3, <4>4 DEF Barcodes
        <5>2. barcodes'[c] # NoItem
          BY <2>3, <5>1, CatalogAssumption
        <5>3. QED
          BY <5>1, <5>2 DEF Owner
      <4>5. ASSUME NEW c \in Codes, c \notin DOMAIN given
            PROVE  Owner(c)' \in {NoItem, Owner(c)}
        BY <4>1, <4>3, <4>5 DEF Owner
      <4>6. QED
        BY <4>1, <4>3, <4>4, <4>5 DEF given
    <3>3. QED
      BY <3>1, <3>2
  <2>10. Stored'
    BY <2>1, <2>7, <2>8, <2>9 DEF Stored
  <2>11. CodesApart'
    <3>1. \A i \in Items : There(i) /\ ~There(n) => items[i].code # op.code
      BY <2>1, <2>3 DEF CodeUnused, plan
    <3>2. \A i, j \in Items : There(i)' /\ There(j)' /\ items'[i].code = items'[j].code => i = j
      BY <2>8, <3>1 DEF CodesApart
    <3>3. \A c \in Codes, i \in Items : Owner(c)' = i => There(i)'
      BY <2>3, <2>8, <2>9, CatalogAssumption DEF CodesApart
    <3>4. ASSUME "codes" \notin raced', NEW i \in Items, NEW c \in Codes, There(i)', Key[c] = Key[items'[i].code]
          PROVE  Owner(c)' \in {NoItem, i}
      <4>1. CASE c \in DOMAIN plan.barcodes
        <5>1. ItemCoded(c) \subseteq {n} /\ Owner(c)' = n
          BY <2>1, <2>9, <4>1 DEF BarcodeFree
        <5>2. i # n => i \in ItemCoded(c)
          BY <2>8, <3>4 DEF ItemCoded
        <5>3. QED
          BY <5>1, <5>2
      <4>2. CASE c \notin DOMAIN plan.barcodes
        <5>1. Owner(c)' \in {NoItem, Owner(c)}
          BY <2>9, <4>2
        <5>2. CASE There(i)
          BY <2>5, <2>8, <3>4, <5>1, <5>2 DEF CodesApart
        <5>3. CASE ~There(i)
          <6>1. i = n /\ items'[i].code = op.code /\ CodeFree(op.code)
            BY <2>1, <2>3, <2>8, <3>4, <5>3 DEF plan
          <6>2. Owner(c) = NoItem
            BY <3>4, <6>1 DEF CodeFree, Owner
          <6>3. QED
            BY <5>1, <6>2
        <5>4. QED
          BY <5>2, <5>3
      <4>3. QED
        BY <4>1, <4>2
    <3>5. QED
      BY <3>2, <3>3, <3>4 DEF CodesApart
  <2>12. ChecksStand'
    <3>1. SUFFICES ASSUME NEW q \in Requests, Busy(q), q # r PROVE Stands(q)'
      BY <2>5 DEF ChecksStand
    <3> DEFINE kinds == Data
    <3>2. reqs'[q] = [at |-> "checked", op |-> reqs[q].op, plan |-> reqs[q].plan, stale |-> reqs[q].stale \cup kinds]
      BY <2>5, <2>6, <3>1
    <3>3. kinds \in SUBSET Data /\ "codes" \in kinds /\ "sizes" \in kinds /\ "prices" \in kinds
      BY DEF Data
    <3>4. /\ \A i \in Items : There(i) => There(i)'
          /\ charged' = charged /\ ("prices" \notin raced' => "prices" \notin raced)
      BY <2>1, <2>7, <2>8
    <3> HIDE DEF kinds
    <3>5. QED
      BY <3>1, <3>2, <3>3, <3>4, OthersStand
  <2>13. SoldWithinMrp'
    BY <2>1 DEF SoldWithinMrp
  <2>14. QED
    BY <2>5, <2>8, <2>10, <2>11, <2>12, <2>13
<1>4. QED
  BY <1>2, <1>3

\* A new size copies prices that are prices: what is checked is still a request the API takes.
LEMMA CompletedForms ==
    ASSUME Stored, NEW op \in Requested
    PROVE  Completed(op) \in Requested /\ Completed(op).kind = op.kind /\ (op.kind # "addSize" => Completed(op) = op)
<1>1. CASE op.kind # "addSize" \/ SizesThere = {}
  BY <1>1 DEF Completed
<1>2. CASE op.kind = "addSize" /\ SizesThere # {}
  <2> DEFINE first == CHOOSE i \in SizesThere : \A j \in SizesThere : i <= j
             price == items[first].list["piece"]
             gst == items[first].gst
             code == op.code
             units == op.units
             size == op.size
             tax == op.gst
             asked == op.price
  <2>1. Completed(op) = [op EXCEPT !.price = price, !.gst = gst]
    BY <1>2 DEF Completed
  <2>2. first \in Items /\ There(first)
    BY <1>2, SmallestThere, CatalogAssumption DEF SizesThere
  <2> HIDE DEF first
  <2>3. price \in Prices /\ gst \in BOOLEAN
    BY <2>2, ItemThere, ListFacts
  <2>4. /\ op = [kind |-> "addSize", code |-> code, price |-> asked, units |-> units, gst |-> tax, size |-> size]
        /\ code \in Codes /\ units \in UnitPrices /\ size \in Sizes
    BY <1>2, RequestForms
  <2> HIDE DEF price, gst, code, units, size, tax, asked
  <2>5. [op EXCEPT !.price = price, !.gst = gst] = [[op EXCEPT !.price = price] EXCEPT !.gst = gst]
    BY <2>4
  <2>6. [op EXCEPT !.price = price] = [kind |-> "addSize", code |-> code, price |-> price, units |-> units, gst |-> tax, size |-> size]
    BY <2>4
  <2>7. [[kind |-> "addSize", code |-> code, price |-> price, units |-> units, gst |-> tax, size |-> size] EXCEPT !.gst = gst]
        = [kind |-> "addSize", code |-> code, price |-> price, units |-> units, gst |-> gst, size |-> size]
    OBVIOUS
  <2>8. Completed(op) = [kind |-> "addSize", code |-> code, price |-> price, units |-> units, gst |-> gst, size |-> size]
    BY <2>1, <2>5, <2>6, <2>7, Zenon
  <2>9. Completed(op) \in Requested
    BY <2>3, <2>4, <2>8 DEF Requested, ProductOps
  <2>10. QED
    BY <1>2, <2>8, <2>9
<1>3. QED
  BY <1>1, <1>2

LEMMA RowFound ==
    ASSUME Stored, NEW op \in Requested, op.kind = "import"
    PROVE  /\ RowItem(op) \in Items \cup {NoItem} /\ (RowItem(op) # NoItem => There(RowItem(op)))
           /\ RowBarcodes(op, RowItem(op)) \in Barcodes
<1> DEFINE i == RowItem(op)
           D == op.barcodes \cup BarcodesOf(i)
<1>1. i \in Items \cup {NoItem} /\ (i # NoItem => There(i))
  BY DEF RowItem, ItemCoded
<1>2. D \in SUBSET Codes
  BY RequestForms DEF BarcodesOf
<1>3. \A c \in BarcodesOf(i) : barcodes[c] \in Items \X Units
  BY <1>1 DEF BarcodesOf, Owner, Stored
<1>4. RowBarcodes(op, i) \in [D -> Units]
  BY <1>3 DEF RowBarcodes, Units
<1>5. QED
  BY <1>1, <1>2, <1>4 DEF Barcodes

LEMMA CheckKept ==
    ASSUME CatalogInv, NEW r \in Requests, NEW given \in Ops, Check(r, given)
    PROVE  CatalogInv'
<1> DEFINE op == Completed(given)
           plan == Plan(given)
<1> USE DEF CatalogInv
<1>1. /\ ~Busy(r) /\ Room /\ Acceptable(op)
      /\ given.kind = "sell" => Saleable(given, PriceAt(given.item, given.unit), items[given.item].gst)
      /\ reqs' = [reqs EXCEPT ![r] = [at |-> "checked", op |-> op, plan |-> plan, stale |-> {}]]
      /\ UNCHANGED <<catalogue, charged, sold, raced, carried>>
  BY DEF Check
<1>2. given \in Requested /\ op \in Requested /\ op.kind = given.kind /\ (given.kind # "addSize" => op = given)
  BY CatalogAssumption, CompletedForms DEF Requested
<1> HIDE DEF op, plan
<1>3. reqs'[r] = [at |-> "checked", op |-> op, plan |-> plan, stale |-> {}] /\ \A q \in Requests \ {r} : reqs'[q] = reqs[q]
  BY <1>1 DEF UnderWay
<1>4. UnderWay'
  <2> DEFINE busy == {q \in Requests : Busy(q)}
  <2>1. IsFiniteSet(busy) /\ r \notin busy
    BY <1>1, CatalogAssumption, FS_Subset
  <2>2. Cardinality(busy \cup {r}) = Cardinality(busy) + 1 /\ Cardinality(busy) \in Nat
    BY <2>1, FS_AddElement, FS_CardinalityType
  <2>3. busy' = busy \cup {r}
    BY <1>3 DEF Busy
  <2>4. carried \in Nat /\ carried + Cardinality(busy) < MaxDone
    BY <1>1 DEF Room, UnderWay
  <2>5. carried' \in Nat /\ carried' + Cardinality(busy') <= MaxDone
    <3>1. carried' = carried
      BY <1>1
    <3> HIDE DEF busy
    <3>2. QED
      BY <2>2, <2>3, <2>4, <3>1, CatalogAssumption
  <2>6. \A q \in Requests : Shaped(q)'
    <3>1. ASSUME NEW q \in Requests, q # r PROVE Shaped(q)'
      BY <1>3, <3>1 DEF UnderWay, Shaped, Busy
    <3>2. Shaped(r)'
      BY <1>2, <1>3 DEF Shaped
    <3>3. QED
      BY <3>1, <3>2
  <2>7. reqs' = [q \in Requests |-> reqs'[q]]
    BY <1>1 DEF UnderWay
  <2>8. QED
    BY <2>5, <2>6, <2>7 DEF UnderWay
<1>5. Stands(r)'
  <2>1. UNCHANGED <<items, barcodes, branchPrices, charged, raced>> /\ reqs'[r].op = op /\ reqs'[r].plan = plan
    BY <1>1, <1>3 DEF catalogue
  <2>2. ItemsStay(r)'
    <3>1. op.kind \in {"update", "barcodes", "branchPrices", "delete", "sell"} => There(op.item)
      BY <1>1, <1>2, RequestForms DEF Acceptable
    <3>2. op.kind = "priceAll" => plan \subseteq Items /\ \A i \in plan : There(i)
      BY <1>2 DEF Plan, SizesThere, plan
    <3>3. op.kind = "import" => plan \in [item : Items \cup {NoItem}, barcodes : Barcodes] /\ (plan.item # NoItem => There(plan.item))
      BY <1>2, RowFound DEF Plan, plan
    <3>4. QED
      BY <2>1, <3>1, <3>2, <3>3 DEF ItemsStay, There
  <2>3. SaleStands(r)'
    <3>1. SUFFICES ASSUME op.kind = "sell" PROVE WithinMrp([plan.price EXCEPT !.ask = op.ask], plan.gst, plan.charged)
      BY <2>1 DEF SaleStands
    <3>2. op = given /\ plan = [price |-> PriceAt(op.item, op.unit), gst |-> items[op.item].gst, charged |-> charged]
      BY <1>2, <3>1 DEF Plan, plan
    <3>3. Saleable(op, PriceAt(op.item, op.unit), items[op.item].gst)
      BY <1>1, <3>1, <3>2
    <3>4. plan.price = PriceAt(op.item, op.unit) /\ plan.gst = items[op.item].gst /\ plan.charged = charged
      BY <3>2
    <3>5. QED
      BY <3>3, <3>4 DEF Saleable
  <2>4. CodesStand(r)'
    <3>1. op.kind \in {"create", "addSize"} => CodeFree(op.code)
      BY <1>1 DEF Acceptable, VariantCodeFree
    <3>2. op.kind = "barcodes" => \A c \in DOMAIN op.codes : ItemCoded(c) \subseteq {op.item}
      BY <1>1 DEF Acceptable, BarcodeFree
    <3>3. QED
      BY <2>1, <3>1, <3>2 DEF CodesStand, CodeFree, ItemCoded, There
  <2>5. SizesStand(r)'
    <3>1. op.kind = "addSize" => ~SizeTaken(op.size)
      BY <1>1 DEF Acceptable
    <3>2. op.kind = "import" => (plan.item = NoItem /\ op.size \in Sizes => ~SizeTaken(op.size))
      <4>1. op.kind = "import" => op = given /\ plan.item = RowItem(op)
        BY <1>2 DEF Plan, plan
      <4>2. QED
        BY <1>1, <4>1 DEF Acceptable
    <3>3. QED
      BY <2>1, <3>1, <3>2 DEF SizesStand, SizeTaken, There
  <2>6. PricesStand(r)'
    <3>1. op.kind \in {"create", "addSize"} => ListWithinMrp(SaleUnits(op), op.gst)
      BY <1>1 DEF Acceptable
    <3>2. op.kind = "import" => (plan.item = NoItem => ListWithinMrp(SaleUnits(op), op.gst))
      <4>1. op.kind = "import" => op = given /\ plan.item = RowItem(op)
        BY <1>2 DEF Plan, plan
      <4>2. QED
        BY <1>1, <4>1 DEF Acceptable
    <3>3. op.kind = "update" => ListWithinMrp(SaleUnits(op), op.gst) /\ BranchPricesWithinMrp(op.item, SaleUnits(op), op.gst)
      BY <1>1 DEF Acceptable
    <3>4. op.kind = "branchPrices" => \A u \in DOMAIN op.prices : WithinMrp(op.prices[u], items[op.item].gst, charged)
      BY <1>1 DEF Acceptable
    <3>5. QED
      BY <2>1, <3>1, <3>2, <3>3, <3>4 DEF PricesStand, ListWithinMrp, BranchPricesWithinMrp
  <2>7. QED
    BY <2>2, <2>3, <2>4, <2>5, <2>6 DEF Stands
<1>6. ChecksStand'
  <2>1. SUFFICES ASSUME NEW q \in Requests, Busy(q)', q # r PROVE Stands(q)'
    BY <1>5 DEF ChecksStand
  <2>2. Stands(q) /\ reqs'[q] = reqs[q]
    BY <1>3, <2>1 DEF ChecksStand, Busy
  <2>3. QED
    BY <1>1, <2>2, CatalogueSame
<1>7. SoldWithinMrp'
  BY <1>1 DEF SoldWithinMrp
<1>8. QED
  BY <1>1, <1>4, <1>6, <1>7, CatalogueSame

-----------------------------------------------------------------------------
\* Every step of the managers' requests, the tills' and the business's keeps the invariant.
LEMMA CatalogKept == CatalogInv /\ [Next]_vars => CatalogInv'
<1> SUFFICES ASSUME CatalogInv, [Next]_vars PROVE CatalogInv'
  OBVIOUS
<1>1. ASSUME NEW r \in Requests, NEW op \in Ops, Check(r, op) PROVE CatalogInv'
  BY <1>1, CheckKept
<1>2. ASSUME NEW r \in Requests, InsertItem(r) PROVE CatalogInv'
  BY <1>2, InsertItemKept
<1>3. ASSUME NEW r \in Requests, UpdateItem(r) PROVE CatalogInv'
  BY <1>3, UpdateItemKept
<1>4. ASSUME NEW r \in Requests, UpdateBarcodes(r) PROVE CatalogInv'
  BY <1>4, UpdateBarcodesKept
<1>5. ASSUME NEW r \in Requests, SetBranchPrices(r) PROVE CatalogInv'
  BY <1>5, SetBranchPricesKept
<1>6. ASSUME NEW r \in Requests, PriceSize(r) PROVE CatalogInv'
  BY <1>6, PriceSizeKept
<1>7. ASSUME NEW r \in Requests, ImportRow(r) PROVE CatalogInv'
  BY <1>7, ImportRowKept
<1>8. ASSUME NEW r \in Requests, DeleteItem(r) PROVE CatalogInv'
  BY <1>8, DeleteItemKept
<1>9. ASSUME NEW r \in Requests, Sell(r) PROVE CatalogInv'
  BY <1>9, SellKept
<1>10. ASSUME NEW r \in Requests, GiveUp(r) PROVE CatalogInv'
  BY <1>10, RefuseKept DEF GiveUp
<1>11. CASE ChangeTaxpayer
  BY <1>11, ChangeTaxpayerKept
<1>12. CASE UNCHANGED vars
  <2>1. UNCHANGED <<catalogue, charged, raced, sold, reqs, carried>>
    BY <1>12 DEF vars, catalogue
  <2>2. UnderWay' /\ SoldWithinMrp'
    BY <2>1 DEF CatalogInv, UnderWay, SoldWithinMrp, Shaped, Busy
  <2>3. ChecksStand'
    BY <2>1, CatalogueSame DEF CatalogInv, ChecksStand, Busy
  <2>4. QED
    BY <2>1, <2>2, <2>3, CatalogueSame DEF CatalogInv
<1>13. QED
  BY <1>1, <1>2, <1>3, <1>4, <1>5, <1>6, <1>7, <1>8, <1>9, <1>10, <1>11, <1>12 DEF Next

LEMMA FoundOnce == CatalogInv => ScansFindOneItem
<1> SUFFICES ASSUME CatalogInv PROVE ScansFindOneItem
  OBVIOUS
<1> USE DEF CatalogInv
<1>1. TypeOK
  <2>1. Cardinality({r \in Requests : Busy(r)}) \in Nat
    BY CatalogAssumption, FS_Subset, FS_CardinalityType
  <2>2. carried \in 0 .. MaxDone
    BY <2>1, CatalogAssumption DEF UnderWay
  <2>3. QED
    BY <2>2 DEF TypeOK, Stored, Data
<1>2. ASSUME NEW i \in Items, NEW j \in Items, i # j, NEW a \in Names(i), NEW b \in Names(j), Key[a[2]] = Key[b[2]], "codes" \notin raced
      PROVE  a[1] = b[1] /\ a[2] # b[2]
  <2>1. There(i) /\ There(j)
    BY <1>2 DEF Names
  <2>2. items[i].code \in Codes /\ items[j].code \in Codes /\ i # NoItem /\ j # NoItem
    BY <2>1, ItemThere, CatalogAssumption
  <2>3. a = <<"code", items[i].code>> \/ \E c \in Codes : a = <<"barcode", c>> /\ Owner(c) = i
    BY <1>2, <2>1, <2>2 DEF Names, BarcodesOf
  <2>4. b = <<"code", items[j].code>> \/ \E c \in Codes : b = <<"barcode", c>> /\ Owner(c) = j
    BY <1>2, <2>1, <2>2 DEF Names, BarcodesOf
  <2>5. CASE a = <<"code", items[i].code>> /\ b = <<"code", items[j].code>>
    BY <1>2, <2>1, <2>5 DEF CodesApart
  <2>6. ASSUME NEW c \in Codes, b = <<"barcode", c>>, Owner(c) = j, a = <<"code", items[i].code>> PROVE FALSE
    <3>1. Key[c] = Key[items[i].code]
      BY <1>2, <2>6
    <3>2. QED
      BY <1>2, <2>1, <2>2, <2>6, <3>1 DEF CodesApart
  <2>7. ASSUME NEW c \in Codes, a = <<"barcode", c>>, Owner(c) = i, b = <<"code", items[j].code>> PROVE FALSE
    <3>1. Key[c] = Key[items[j].code]
      BY <1>2, <2>7
    <3>2. QED
      BY <1>2, <2>1, <2>2, <2>7, <3>1 DEF CodesApart
  <2>8. ASSUME NEW c \in Codes, NEW d \in Codes, a = <<"barcode", c>>, Owner(c) = i, b = <<"barcode", d>>, Owner(d) = j
        PROVE  a[1] = b[1] /\ a[2] # b[2]
    BY <1>2, <2>8
  <2>9. QED
    BY <2>3, <2>4, <2>5, <2>6, <2>7, <2>8
<1>3. ASSUME NEW i \in Items, NEW j \in Items, i # j, There(i), There(j), items[i].size = items[j].size
      PROVE  items[i].size = Single \/ "sizes" \in raced
  BY <1>3 DEF SizesApart
<1>4. QED
  BY <1>1, <1>2, <1>3 DEF ScansFindOneItem

(***************************************************************************)
(* Catalog: what is scanned finds one item, and no size of a product is    *)
(* there twice, but for what overlapping requests, or spellings that       *)
(* differ in case only, brought about (ScansFindOneItem).                  *)
(***************************************************************************)
THEOREM ScansFindOneItemHolds == Spec => []ScansFindOneItem
<1>1. CatalogInv => ScansFindOneItem
  BY FoundOnce
<1>2. QED
  BY CatalogStarts, CatalogKept, <1>1, PTL DEF Spec

(***************************************************************************)
(* Catalog: nothing is sold above its MRP, whoever changed its price, its  *)
(* tax or the business's registration meanwhile, and the prices asked are  *)
(* within it unless changes overlapped (NeverSoldAboveMrp).                *)
(***************************************************************************)
THEOREM NeverSoldAboveMrpHolds == Spec => []NeverSoldAboveMrp
<1>1. CatalogInv => NeverSoldAboveMrp
  <2> SUFFICES ASSUME CatalogInv PROVE NeverSoldAboveMrp
    OBVIOUS
  <2>1. \A line \in sold : WithinMrp(line.price, line.gst, line.charged)
    BY DEF CatalogInv, SoldWithinMrp
  <2>2. ASSUME NEW i \in Items, There(i), "prices" \notin raced, NEW u \in DOMAIN items[i].list
        PROVE  WithinMrp(PriceAt(i, u), items[i].gst, charged)
    <3>1. ListWithinMrp(items[i].list, items[i].gst) /\ BranchPricesWithinMrp(i, items[i].list, items[i].gst)
      BY <2>2 DEF CatalogInv, PricesFit
    <3>2. u \in Units
      BY <2>2, ItemThere, ListFacts DEF CatalogInv
    <3>3. QED
      BY <2>2, <3>1, <3>2 DEF PriceAt, ListWithinMrp, BranchPricesWithinMrp
  <2>3. QED
    BY <2>1, <2>2 DEF NeverSoldAboveMrp
<1>2. QED
  BY CatalogStarts, CatalogKept, <1>1, PTL DEF Spec

-----------------------------------------------------------------------------
(***************************************************************************)
(* A cart is billed once (Till).                                           *)
(***************************************************************************)

Carts == {"first", "changed"}
Draft == [order : Orders, cart : Carts]
Prints == {<<>>} \cup {<<goods, cart>> : goods \in {"goods"} \cup Orders, cart \in Carts}

\* The orders of a list of drafts, each on it once.
Drafted(list) == {list[i].order : i \in DOMAIN list}
DraftsOnce(list) == list \in Seq(Draft) /\ \A i, j \in DOMAIN list : list[i].order = list[j].order => i = j

\* A tab has an order on its screen, or the key its request went with.
Held(t, o) == o \in {screen[t].shown.order, screen[t].key.order}

\* What a checkout key was sent with or billed.
Sales == wire \cup bills

TillTypes ==
    /\ screen \in [Tabs -> [shown : [order : Orders \cup {NoOrder}, cart : Carts, draft : BOOLEAN, busy : BOOLEAN],
                            key : [id : Nat, order : Orders \cup {NoOrder}, print : Prints, tries : Nat]]]
    /\ DraftsOnce(drafts)
    /\ toCome \subseteq Orders /\ keys \in Nat /\ done \subseteq Orders \X Nat
    /\ wire \subseteq [key : Nat \ {0}, order : Orders, print : Prints, try : Nat]
    /\ bills \subseteq [key : Nat \ {0}, order : Orders, print : Prints]

\* A tab with a key is the only one, for one order; while it waits, the order on its screen.
TabKeys ==
    /\ \A t \in Tabs : /\ screen[t].key.id <= keys
                       /\ screen[t].key.id = 0 <=> screen[t].key.order = NoOrder
                       /\ screen[t].key.id = 0 <=> screen[t].key.print = <<>>
                       /\ screen[t].shown.busy => /\ screen[t].shown.order = screen[t].key.order
                                                  /\ screen[t].shown.order # NoOrder
    /\ \A t, u \in Tabs : screen[t].key.id = screen[u].key.id /\ t # u => screen[t].key.id = 0

\* A key stands for one order, unless another customer's equal request took it.
SaleKeys ==
    /\ \A m \in Sales : m.key <= keys
    /\ \A d \in done : d[2] <= keys
    /\ \A m, n \in Sales : m.key = n.key /\ m.order # n.order => m.order \in keyLost
    /\ \A m \in Sales, t \in Tabs : m.key = screen[t].key.id /\ m.order # screen[t].key.order =>
          m.order \in keyLost /\ screen[t].key.order \in keyLost
    /\ \A b, c \in bills : b.key = c.key => b = c

\* A customer who is still to come is nowhere yet.
ToComeFresh ==
    \A o \in toCome : /\ o \notin Drafted(drafts)
                      /\ \A t \in Tabs : ~Held(t, o)
                      /\ \A m \in Sales : m.order # o
                      /\ \A d \in done : d[1] # o

\* A cart whose key was not lost is in one tab, and saved only if the tab knows.
OnePlace ==
    \A o \in Orders \ keyLost :
        /\ \A t, u \in Tabs : Held(t, o) /\ Held(u, o) => t = u
        /\ \A t \in Tabs : screen[t].shown.order = o /\ ~screen[t].shown.draft => o \notin Drafted(drafts)

\* Its requests and bills carry the key the tab still has, or it is done: billed, and gone from
\* every screen and list.
SalesFollowed ==
    \A o \in Orders \ keyLost :
        /\ \A m \in Sales : m.order = o => \/ <<o, m.key>> \in done
                                           \/ \E t \in Tabs : screen[t].key.order = o /\ screen[t].key.id = m.key
        /\ \A d, e \in done : d[1] = o /\ e[1] = o => d = e
        /\ \A d \in done : d[1] = o => /\ o \notin Drafted(drafts)
                                       /\ \A t \in Tabs : ~Held(t, o)
                                       /\ \E b \in bills : b.order = o /\ b.key = d[2]

TillInv == TillTypes /\ TabKeys /\ SaleKeys /\ ToComeFresh /\ OnePlace /\ SalesFollowed

-----------------------------------------------------------------------------
(* Lists of drafts.                                                        *)

LEMMA DraftRemoved ==
    ASSUME NEW s \in Seq(Draft), DraftsOnce(s), NEW i \in DOMAIN s
    PROVE  DraftsOnce(RemoveAt(s, i)) /\ Drafted(RemoveAt(s, i)) = Drafted(s) \ {s[i].order}
<1> DEFINE a == SubSeq(s, 1, i - 1)
           z == SubSeq(s, i + 1, Len(s))
           t == RemoveAt(s, i)
<1>1. Len(s) \in Nat /\ DOMAIN s = 1 .. Len(s) /\ i \in 1 .. Len(s)
  OBVIOUS
<1>2. a \in Seq(Draft) /\ Len(a) = i - 1 /\ \A j \in 1 .. i - 1 : a[j] = s[j]
  BY <1>1, SubSeqProperties
<1>3. z \in Seq(Draft) /\ Len(z) = Len(s) - i /\ \A j \in 1 .. Len(s) - i : z[j] = s[i + j]
  BY <1>1, SubSeqProperties
<1>4. t = a \o z
  BY DEF RemoveAt
<1> HIDE DEF a, z, t
<1>5. /\ t \in Seq(Draft) /\ Len(t) = Len(a) + Len(z)
      /\ \A j \in 1 .. Len(a) + Len(z) : t[j] = IF j <= Len(a) THEN a[j] ELSE z[j - Len(a)]
  BY <1>2, <1>3, <1>4, ConcatProperties, Zenon
<1>6. DOMAIN t = 1 .. Len(s) - 1
  BY <1>1, <1>2, <1>3, <1>5
<1>7. \A j \in DOMAIN t : t[j] = s[IF j < i THEN j ELSE j + 1]
  <2>1. SUFFICES ASSUME NEW j \in DOMAIN t PROVE t[j] = s[IF j < i THEN j ELSE j + 1]
    OBVIOUS
  <2>2. CASE j < i
    BY <1>1, <1>2, <1>3, <1>5, <1>6, <2>2
  <2>3. CASE ~(j < i)
    <3>1. j - (i - 1) \in 1 .. Len(s) - i /\ i + (j - (i - 1)) = j + 1 /\ ~(j <= i - 1)
      BY <1>1, <1>6, <2>3
    <3>2. j \in 1 .. Len(a) + Len(z) /\ Len(a) = i - 1
      BY <1>1, <1>2, <1>3, <1>6
    <3>3. t[j] = IF j <= i - 1 THEN a[j] ELSE z[j - (i - 1)]
      BY ONLY <1>5, <3>2
    <3>4. t[j] = z[j - (i - 1)]
      BY ONLY <3>1, <3>3
    <3>5. z[j - (i - 1)] = s[j + 1]
      BY ONLY <1>3, <3>1
    <3>6. QED
      BY ONLY <2>3, <3>4, <3>5
  <2>4. QED
    BY <2>2, <2>3
<1>8. DraftsOnce(t)
  <2>1. SUFFICES ASSUME NEW j \in DOMAIN t, NEW k \in DOMAIN t, t[j].order = t[k].order PROVE j = k
    BY <1>5 DEF DraftsOnce
  <2>2. PICK l \in DOMAIN s : t[j] = s[l] /\ l = IF j < i THEN j ELSE j + 1
    BY <1>1, <1>6, <1>7
  <2>3. PICK m \in DOMAIN s : t[k] = s[m] /\ m = IF k < i THEN k ELSE k + 1
    BY <1>1, <1>6, <1>7
  <2>4. l = m
    BY <2>1, <2>2, <2>3 DEF DraftsOnce
  <2>5. QED
    BY <1>1, <1>6, <2>2, <2>3, <2>4
<1>9. \A j \in DOMAIN t : t[j].order \in Drafted(s) \ {s[i].order}
  <2>1. SUFFICES ASSUME NEW j \in DOMAIN t PROVE t[j].order \in Drafted(s) \ {s[i].order}
    OBVIOUS
  <2>2. PICK l \in DOMAIN s : t[j] = s[l] /\ l # i
    <3>1. (IF j < i THEN j ELSE j + 1) \in DOMAIN s /\ (IF j < i THEN j ELSE j + 1) # i
      BY <1>1, <1>6
    <3>2. QED
      BY <1>7, <3>1
  <2>3. QED
    BY <2>2 DEF Drafted, DraftsOnce
<1>10. \A l \in DOMAIN s : l # i => s[l].order \in Drafted(t)
  <2>1. SUFFICES ASSUME NEW l \in DOMAIN s, l # i PROVE s[l].order \in Drafted(t)
    OBVIOUS
  <2>2. CASE l < i
    BY <1>1, <1>6, <1>7, <2>2 DEF Drafted
  <2>3. CASE ~(l < i)
    <3>1. l - 1 \in DOMAIN t /\ ~(l - 1 < i) /\ (l - 1) + 1 = l
      BY <1>1, <1>6, <2>1, <2>3
    <3>2. t[l - 1] = s[l]
      BY <1>7, <3>1
    <3>3. QED
      BY <3>1, <3>2 DEF Drafted
  <2>4. QED
    BY <2>2, <2>3
<1>11. Drafted(t) = Drafted(s) \ {s[i].order}
  BY <1>9, <1>10 DEF Drafted
<1>12. QED
  BY <1>8, <1>11 DEF t

LEMMA CartTakenOut ==
    ASSUME DraftsOnce(drafts), NEW o
    PROVE  DraftsOnce(Without(o)) /\ Drafted(Without(o)) = Drafted(drafts) \ {o}
<1>1. CASE \E i \in DOMAIN drafts : drafts[i].order = o
  <2> DEFINE i == CHOOSE j \in DOMAIN drafts : drafts[j].order = o
  <2>1. i \in DOMAIN drafts /\ drafts[i].order = o
    BY <1>1
  <2>2. Without(o) = RemoveAt(drafts, i)
    BY <1>1 DEF Without
  <2> HIDE DEF i
  <2>3. drafts \in Seq(Draft)
    BY DEF DraftsOnce
  <2>4. QED
    BY <2>1, <2>2, <2>3, DraftRemoved
<1>2. CASE ~\E i \in DOMAIN drafts : drafts[i].order = o
  BY <1>2 DEF Without, Drafted
<1>3. QED
  BY <1>1, <1>2

LEMMA CartSaved ==
    ASSUME DraftsOnce(drafts), NEW shown, shown.order \in Orders, shown.cart \in Carts
    PROVE  DraftsOnce(Upserted(shown)) /\ Drafted(Upserted(shown)) \subseteq Drafted(drafts) \cup {shown.order}
<1> DEFINE d == [order |-> shown.order, cart |-> shown.cart]
           rest == Without(shown.order)
           all == <<d>> \o rest
           n == IF Len(all) > MaxDrafts THEN MaxDrafts ELSE Len(all)
<1>1. DraftsOnce(rest) /\ Drafted(rest) = Drafted(drafts) \ {shown.order}
  BY CartTakenOut
<1>2. d \in Draft /\ d.order = shown.order
  BY DEF Draft
<1>3. Upserted(shown) = SubSeq(all, 1, n)
  BY DEF Upserted
<1> HIDE DEF d, rest
<1>4. /\ all \in Seq(Draft) /\ Len(all) = 1 + Len(rest) /\ Len(rest) \in Nat /\ DOMAIN rest = 1 .. Len(rest)
      /\ all[1] = d /\ \A j \in 1 .. Len(rest) : all[j + 1] = rest[j]
  <2>1. rest \in Seq(Draft) /\ <<d>> \in Seq(Draft) /\ Len(<<d>>) = 1 /\ Len(rest) \in Nat /\ <<d>>[1] = d
    BY <1>1, <1>2 DEF DraftsOnce
  <2>2. /\ all \in Seq(Draft) /\ Len(all) = 1 + Len(rest)
        /\ \A j \in 1 .. 1 + Len(rest) : all[j] = IF j <= 1 THEN <<d>>[j] ELSE rest[j - 1]
    BY <2>1, ConcatProperties
  <2> HIDE DEF all
  <2>3. QED
    BY <2>1, <2>2
<1> HIDE DEF all
<1>5. n \in Nat /\ n <= Len(all) /\ Len(all) \in Nat
  BY <1>4, TillAssumption DEF TillAssumption
<1> HIDE DEF n
<1>6. /\ SubSeq(all, 1, n) \in Seq(Draft) /\ Len(SubSeq(all, 1, n)) = n
      /\ \A j \in 1 .. n : SubSeq(all, 1, n)[j] = all[j]
  <2>1. \A j \in 1 .. n : all[j] \in Draft
    BY <1>4, <1>5
  <2>2. /\ SubSeq(all, 1, n) \in Seq(Draft)
        /\ Len(SubSeq(all, 1, n)) = IF 1 <= n THEN n - 1 + 1 ELSE 0
        /\ \A j \in 1 .. n - 1 + 1 : SubSeq(all, 1, n)[j] = all[1 + j - 1]
    BY <1>5, <2>1, SubSeqProperties
  <2>3. QED
    BY <1>5, <2>2
<1> DEFINE list == SubSeq(all, 1, n)
<1>7. DOMAIN list = 1 .. n /\ list \in Seq(Draft) /\ \A j \in 1 .. n : list[j] = all[j]
  BY <1>5, <1>6
<1> HIDE DEF list
<1>8. \A j \in 1 .. Len(all) : j = 1 \/ (j - 1 \in DOMAIN rest /\ all[j] = rest[j - 1])
  BY <1>4
<1>9. \A j \in DOMAIN rest : rest[j].order \in Drafted(drafts) /\ rest[j].order # shown.order
  BY <1>1 DEF Drafted
<1>10. DraftsOnce(list)
  <2>1. SUFFICES ASSUME NEW j \in 1 .. n, NEW k \in 1 .. n, all[j].order = all[k].order PROVE j = k
    BY <1>7 DEF DraftsOnce
  <2>2. j \in 1 .. Len(all) /\ k \in 1 .. Len(all)
    BY <1>5
  <2>3. j = 1 <=> k = 1
    BY <1>2, <1>4, <1>8, <1>9, <2>1, <2>2
  <2>4. CASE j # 1 /\ k # 1
    <3>1. j - 1 \in DOMAIN rest /\ k - 1 \in DOMAIN rest /\ rest[j - 1].order = rest[k - 1].order
      BY <1>8, <2>1, <2>2, <2>4
    <3>2. j - 1 = k - 1
      BY <1>1, <3>1 DEF DraftsOnce
    <3>3. QED
      BY <3>2
  <2>5. QED
    BY <2>3, <2>4
<1>11. Drafted(list) \subseteq Drafted(drafts) \cup {shown.order}
  <2>1. SUFFICES ASSUME NEW j \in 1 .. n PROVE all[j].order \in Drafted(drafts) \cup {shown.order}
    BY <1>7 DEF Drafted
  <2>2. QED
    <3>1. j \in 1 .. Len(all)
      BY <1>5
    <3>2. CASE j = 1
      BY <1>2, <1>4, <3>2
    <3>3. CASE j # 1
      <4>1. all[j] = rest[j - 1] /\ j - 1 \in DOMAIN rest
        BY <1>8, <3>1, <3>3
      <4>2. QED
        BY <1>9, <4>1
    <3>4. QED
      BY <3>2, <3>3
<1>12. QED
  BY <1>3, <1>10, <1>11 DEF list

-----------------------------------------------------------------------------
(* The till's steps.                                                       *)

LEMMA TillStarts == TillInit => TillInv
<1> SUFFICES ASSUME TillInit PROVE TillInv
  OBVIOUS
<1>1. Blank \in [order : Orders \cup {NoOrder}, cart : Carts, draft : BOOLEAN, busy : BOOLEAN] /\ Blank.order = NoOrder /\ ~Blank.busy
  BY DEF Blank, Carts
<1>2. /\ NoKey \in [id : Nat, order : Orders \cup {NoOrder}, print : Prints, tries : Nat]
      /\ NoKey.id = 0 /\ NoKey.order = NoOrder /\ NoKey.print = <<>>
  BY DEF NoKey, Prints
<1>3. /\ screen = [t \in Tabs |-> [shown |-> Blank, key |-> NoKey]] /\ drafts = <<>> /\ toCome = Orders
      /\ wire = {} /\ bills = {} /\ keys = 0 /\ done = {} /\ keyLost = {}
  BY DEF TillInit
<1>4. DraftsOnce(drafts) /\ Drafted(drafts) = {}
  BY <1>3 DEF DraftsOnce, Drafted
<1> HIDE DEF Blank, NoKey
<1>5. TillTypes
  BY <1>1, <1>2, <1>3, <1>4 DEF TillTypes
<1>6. TabKeys
  BY <1>1, <1>2, <1>3 DEF TabKeys
<1>7. SaleKeys /\ Sales = {}
  BY <1>3 DEF SaleKeys, Sales
<1>8. \A o \in Orders, t \in Tabs : ~Held(t, o)
  BY <1>1, <1>2, <1>3, TillAssumption DEF Held, TillAssumption
<1>9. ToComeFresh /\ OnePlace /\ SalesFollowed
  BY <1>3, <1>4, <1>7, <1>8 DEF ToComeFresh, OnePlace, SalesFollowed
<1>10. QED
  BY <1>5, <1>6, <1>7, <1>9 DEF TillInv

\* A step that moves carts between the screens and the list of drafts, and asks the server nothing:
\* no cart gets to a second place unless the step says its key is lost.
LEMMA CartsMoved ==
    ASSUME TillInv, NEW t \in Tabs, NEW o,
           UNCHANGED <<wire, bills, keys, done>>, keyLost \subseteq keyLost', toCome' \subseteq toCome,
           screen' \in [Tabs -> [shown : [order : Orders \cup {NoOrder}, cart : Carts, draft : BOOLEAN, busy : BOOLEAN],
                                 key : [id : Nat, order : Orders \cup {NoOrder}, print : Prints, tries : Nat]]],
           \A u \in Tabs \ {t} : screen'[u] = screen[u],
           \/ screen'[t].key = screen[t].key
           \/ /\ screen'[t].key = NoKey /\ ~screen'[t].shown.busy
              /\ screen[t].key.order # NoOrder /\ Unknown(screen[t].key.order) => screen[t].key.order \in keyLost',
           o = screen'[t].shown.order,
           screen'[t].shown.busy => screen[t].shown.busy /\ o = screen[t].shown.order,
           \/ o = NoOrder
           \/ o = screen[t].shown.order /\ (screen[t].shown.draft => screen'[t].shown.draft)
           \/ o \in toCome /\ o \notin toCome' /\ Drafted(drafts') \subseteq Drafted(drafts)
           \/ /\ o \in Drafted(drafts) /\ screen'[t].shown.draft
              /\ \A u \in Tabs \ {t} : Held(u, o) => o \in keyLost',
           DraftsOnce(drafts'),
           \A c \in Drafted(drafts') : \/ c \in Drafted(drafts)
                                       \/ /\ c = screen[t].shown.order /\ c # NoOrder
                                          /\ o = NoOrder \/ (o = c /\ screen'[t].shown.draft)
    PROVE  TillInv'
<1>1. TillTypes /\ TabKeys /\ SaleKeys /\ ToComeFresh /\ OnePlace /\ SalesFollowed
  BY DEF TillInv
<1>2. TillTypes'
  BY <1>1 DEF TillTypes
<1>3. Sales' = Sales
  BY DEF Sales
<1>4. NoKey.id = 0 /\ NoKey.order = NoOrder /\ NoKey.print = <<>>
  BY DEF NoKey
<1>5. \A u \in Tabs : \/ screen'[u].key = screen[u].key
                      \/ u = t /\ screen'[u].key = NoKey
  OBVIOUS
<1> HIDE DEF NoKey
<1>6. TabKeys'
  <2>1. ASSUME NEW u \in Tabs
        PROVE  /\ screen'[u].key.id <= keys
               /\ screen'[u].key.id = 0 <=> screen'[u].key.order = NoOrder
               /\ screen'[u].key.id = 0 <=> screen'[u].key.print = <<>>
               /\ screen'[u].shown.busy => /\ screen'[u].shown.order = screen'[u].key.order
                                           /\ screen'[u].shown.order # NoOrder
    <3>1. CASE u = t
      BY <1>1, <1>4, <3>1 DEF TabKeys, TillTypes
    <3>2. CASE u # t
      BY <1>1, <3>2 DEF TabKeys
    <3>3. QED
      BY <3>1, <3>2
  <2>2. \A u, v \in Tabs : screen'[u].key.id = screen'[v].key.id /\ u # v => screen'[u].key.id = 0
    <3>1. \A u \in Tabs : screen'[u].key.id = screen[u].key.id \/ screen'[u].key.id = 0
      BY <1>4, <1>5
    <3>2. QED
      BY <1>1, <3>1 DEF TabKeys
  <2>3. QED
    BY <2>1, <2>2 DEF TabKeys
<1>7. \A m \in Sales : m.key # 0
  BY <1>1 DEF TillTypes, Sales
<1>8. SaleKeys'
  BY <1>1, <1>3, <1>4, <1>5, <1>7 DEF SaleKeys
<1>9. \A u \in Tabs, c \in Orders : (Held(u, c))' => Held(u, c) \/ (u = t /\ c = o)
  BY <1>4, TillAssumption DEF Held, TillAssumption
<1>10. \A c \in Drafted(drafts) \cup toCome : c \in Orders
  <2>1. \A i \in DOMAIN drafts : drafts[i] \in Draft
    BY <1>1 DEF TillTypes, DraftsOnce
  <2>2. Drafted(drafts) \subseteq Orders
    BY <2>1 DEF Drafted, Draft
  <2>3. QED
    BY <1>1, <2>2 DEF TillTypes
<1>11. Held(t, screen[t].shown.order) /\ \A u \in Tabs, c \in Orders : u # t => ((Held(u, c))' <=> Held(u, c))
  BY DEF Held
<1>12. ToComeFresh'
  <2>1. SUFFICES ASSUME NEW c \in toCome' PROVE c \notin Drafted(drafts') /\ \A u \in Tabs : ~(Held(u, c))'
    BY <1>1, <1>3 DEF ToComeFresh
  <2>2. c \in toCome /\ c \in Orders /\ c \notin Drafted(drafts) /\ \A u \in Tabs : ~Held(u, c)
    BY <1>1, <1>10 DEF ToComeFresh
  <2>3. c # NoOrder
    BY <2>2, TillAssumption DEF TillAssumption
  <2>4. c # o
    BY <1>11, <2>1, <2>2, <2>3
  <2>5. QED
    BY <1>9, <1>11, <2>2, <2>4
<1>13. ASSUME NEW c \in Orders \ keyLost' PROVE c \in Orders \ keyLost /\ c # NoOrder
  BY TillAssumption DEF TillAssumption
<1>14. OnePlace'
  <2>1. SUFFICES ASSUME NEW c \in Orders \ keyLost'
                 PROVE  /\ \A u, v \in Tabs : (Held(u, c))' /\ (Held(v, c))' => u = v
                        /\ \A u \in Tabs : screen'[u].shown.order = c /\ ~screen'[u].shown.draft => c \notin Drafted(drafts')
    BY DEF OnePlace
  <2>2. \A u, v \in Tabs : Held(u, c) /\ Held(v, c) => u = v
    BY <1>1, <1>13, <2>1 DEF OnePlace
  <2>3. \A u \in Tabs : screen[u].shown.order = c /\ ~screen[u].shown.draft => c \notin Drafted(drafts)
    BY <1>1, <1>13, <2>1 DEF OnePlace
  <2>4. o = c => \A u \in Tabs \ {t} : ~Held(u, c)
    BY <1>1, <1>11, <1>13, <2>1, <2>2 DEF ToComeFresh
  <2>5. \A u, v \in Tabs : (Held(u, c))' /\ (Held(v, c))' => u = v
    BY <1>9, <1>11, <2>2, <2>4
  <2>6. ASSUME NEW u \in Tabs, screen'[u].shown.order = c, ~screen'[u].shown.draft PROVE c \notin Drafted(drafts')
    <3>1. CASE u = t
      <4>1. c \notin Drafted(drafts)
        BY <1>1, <1>13, <2>1, <2>3, <2>6, <3>1 DEF ToComeFresh
      <4>2. QED
        BY <1>13, <2>1, <2>6, <3>1, <4>1
    <3>2. CASE u # t
      <4>1. c \notin Drafted(drafts) /\ Held(u, c)
        BY <2>3, <2>6, <3>2 DEF Held
      <4>2. screen[t].shown.order # c
        BY <1>11, <2>2, <3>2, <4>1
      <4>3. QED
        BY <4>1, <4>2
    <3>3. QED
      BY <3>1, <3>2
  <2>7. QED
    BY <2>5, <2>6
<1>15. SalesFollowed'
  <2>1. SUFFICES ASSUME NEW c \in Orders \ keyLost'
                 PROVE  /\ \A m \in Sales : m.order = c =>
                             \/ <<c, m.key>> \in done
                             \/ \E u \in Tabs : screen'[u].key.order = c /\ screen'[u].key.id = m.key
                        /\ \A d, e \in done : d[1] = c /\ e[1] = c => d = e
                        /\ \A d \in done : d[1] = c => /\ c \notin Drafted(drafts')
                                                       /\ \A u \in Tabs : ~(Held(u, c))'
                                                       /\ \E b \in bills : b.order = c /\ b.key = d[2]
    BY <1>3 DEF SalesFollowed
  <2>2. c \in Orders \ keyLost /\ c # NoOrder
    BY <1>13, <2>1
  <2>3. ASSUME NEW m \in Sales, m.order = c, <<c, m.key>> \notin done
        PROVE  \E u \in Tabs : screen'[u].key.order = c /\ screen'[u].key.id = m.key
    <3>1. PICK u \in Tabs : screen[u].key.order = c /\ screen[u].key.id = m.key
      BY <1>1, <2>2, <2>3 DEF SalesFollowed
    <3>2. Unknown(c)
      BY <2>3 DEF Unknown, Sales
    <3>3. screen'[u].key = screen[u].key
      BY <1>5, <2>1, <2>2, <3>1, <3>2
    <3>4. QED
      BY <3>1, <3>3
  <2>4. \A d, e \in done : d[1] = c /\ e[1] = c => d = e
    BY <1>1, <2>2 DEF SalesFollowed
  <2>5. ASSUME NEW d \in done, d[1] = c
        PROVE  /\ c \notin Drafted(drafts')
               /\ \A u \in Tabs : ~(Held(u, c))'
               /\ \E b \in bills : b.order = c /\ b.key = d[2]
    <3>1. c \notin Drafted(drafts) /\ (\A u \in Tabs : ~Held(u, c)) /\ \E b \in bills : b.order = c /\ b.key = d[2]
      BY <1>1, <2>2, <2>5 DEF SalesFollowed
    <3>2. c \notin toCome
      BY <1>1, <2>5 DEF ToComeFresh
    <3>3. c # screen[t].shown.order
      BY <1>11, <3>1
    <3>4. c # o
      BY <2>2, <3>1, <3>2, <3>3
    <3>5. QED
      BY <1>9, <2>2, <3>1, <3>3, <3>4
  <2>6. QED
    BY <2>3, <2>4, <2>5
<1>16. QED
  BY <1>2, <1>6, <1>8, <1>12, <1>14, <1>15 DEF TillInv

LEMMA CartStepsKept ==
    ASSUME TillInv, NEW t \in Tabs,
           \/ NewOrder(t) \/ EditCart(t) \/ SaveDraft(t) \/ HideTab(t) \/ ReloadTab(t) \/ ResumeDraft(t)
           \/ DeleteDraft(t) \/ Unreachable(t)
    PROVE  TillInv'
<1> DEFINE Shown == [order : Orders \cup {NoOrder}, cart : Carts, draft : BOOLEAN, busy : BOOLEAN]
           Kept == [id : Nat, order : Orders \cup {NoOrder}, print : Prints, tries : Nat]
           shown == screen[t].shown
           now == screen'[t].shown
           before == Drafted(drafts)
           later == Drafted(drafts')
<1>1. /\ screen \in [Tabs -> [shown : Shown, key : Kept]] /\ screen[t] \in [shown : Shown, key : Kept]
      /\ DraftsOnce(drafts) /\ toCome \subseteq Orders /\ shown \in Shown /\ shown.order \in Orders \cup {NoOrder}
  BY DEF TillInv, TillTypes
<1>2. Blank \in Shown /\ Blank.order = NoOrder /\ Blank.busy = FALSE /\ Blank.draft = FALSE /\ Blank.cart = "first"
  BY DEF Blank, Carts
<1>3. NoKey \in Kept
  BY DEF NoKey, Prints
<1>4. ASSUME NEW row \in Shown, Show(t, row)
      PROVE  /\ screen' \in [Tabs -> [shown : Shown, key : Kept]] /\ screen'[t].key = screen[t].key
             /\ screen'[t].shown = row /\ \A u \in Tabs \ {t} : screen'[u] = screen[u]
  BY <1>1, <1>4 DEF Show
<1>5. ASSUME shown.order # NoOrder
      PROVE  /\ DraftsOnce(Upserted(shown))
             /\ \A c \in Drafted(Upserted(shown)) : c \in before \/ c = shown.order
  BY <1>1, <1>5, CartSaved
<1>6. CASE NewOrder(t)
  <2>1. PICK order \in toCome :
          /\ shown.order = NoOrder /\ Show(t, [Blank EXCEPT !.order = order]) /\ toCome' = toCome \ {order}
          /\ UNCHANGED <<drafts, wire, bills, keys, done, keyLost>>
    BY <1>6 DEF NewOrder
  <2>2. [Blank EXCEPT !.order = order] \in Shown /\ [Blank EXCEPT !.order = order].order = order
        /\ [Blank EXCEPT !.order = order].busy = FALSE
    BY <1>1, <1>2
  <2>3. /\ screen' \in [Tabs -> [shown : Shown, key : Kept]] /\ screen'[t].key = screen[t].key
        /\ now.order = order /\ now.busy = FALSE /\ \A u \in Tabs \ {t} : screen'[u] = screen[u]
    BY <1>4, <2>1, <2>2
  <2>4. QED
    BY <1>1, <2>1, <2>3, CartsMoved
<1>7. CASE EditCart(t)
  <2>1. /\ Show(t, [shown EXCEPT !.cart = "changed"])
        /\ UNCHANGED <<drafts, toCome, wire, bills, keys, done, keyLost>>
    BY <1>7 DEF EditCart
  <2>2. [shown EXCEPT !.cart = "changed"] \in Shown /\ [shown EXCEPT !.cart = "changed"].order = shown.order
        /\ [shown EXCEPT !.cart = "changed"].busy = shown.busy /\ [shown EXCEPT !.cart = "changed"].draft = shown.draft
    BY <1>1 DEF Carts
  <2>3. /\ screen' \in [Tabs -> [shown : Shown, key : Kept]] /\ screen'[t].key = screen[t].key
        /\ now.order = shown.order /\ now.busy = shown.busy /\ now.draft = shown.draft
        /\ \A u \in Tabs \ {t} : screen'[u] = screen[u]
    BY <1>4, <2>1, <2>2
  <2>4. QED
    BY <1>1, <2>1, <2>3, CartsMoved
<1>8. CASE SaveDraft(t)
  <2>1. /\ shown.order # NoOrder /\ drafts' = Upserted(shown) /\ Show(t, Blank)
        /\ UNCHANGED <<toCome, wire, bills, keys, done, keyLost>>
    BY <1>8 DEF SaveDraft
  <2>2. /\ screen' \in [Tabs -> [shown : Shown, key : Kept]] /\ screen'[t].key = screen[t].key
        /\ now.order = NoOrder /\ now.busy = FALSE /\ \A u \in Tabs \ {t} : screen'[u] = screen[u]
    BY <1>2, <1>4, <2>1
  <2>3. QED
    BY <1>1, <1>5, <2>1, <2>2, CartsMoved
<1>9. CASE HideTab(t)
  <2>1. /\ shown.order # NoOrder /\ drafts' = Upserted(shown) /\ Show(t, [shown EXCEPT !.draft = TRUE])
        /\ UNCHANGED <<toCome, wire, bills, keys, done, keyLost>>
    BY <1>9 DEF HideTab
  <2>2. [shown EXCEPT !.draft = TRUE] \in Shown /\ [shown EXCEPT !.draft = TRUE].order = shown.order
        /\ [shown EXCEPT !.draft = TRUE].busy = shown.busy /\ [shown EXCEPT !.draft = TRUE].draft = TRUE
    BY <1>1
  <2>3. /\ screen' \in [Tabs -> [shown : Shown, key : Kept]] /\ screen'[t].key = screen[t].key
        /\ now.order = shown.order /\ now.busy = shown.busy /\ now.draft = TRUE
        /\ \A u \in Tabs \ {t} : screen'[u] = screen[u]
    BY <1>4, <2>1, <2>2
  <2>4. /\ DraftsOnce(drafts')
        /\ \A c \in Drafted(drafts') : \/ c \in Drafted(drafts)
                                       \/ /\ c = screen[t].shown.order /\ c # NoOrder
                                          /\ screen'[t].shown.order = c /\ screen'[t].shown.draft
    BY <1>5, <2>1, <2>3
  <2>5. /\ shown.draft => screen'[t].shown.draft
        /\ screen'[t].shown.busy => shown.busy /\ now.order = shown.order
        /\ keyLost \subseteq keyLost' /\ toCome' \subseteq toCome
    BY <2>1, <2>3
  <2>6. UNCHANGED <<wire, bills, keys, done>>
    BY <2>1
  <2> HIDE DEF Shown, Kept
  <2>7. QED
    BY ONLY TillInv, <2>3, <2>4, <2>5, <2>6, CartsMoved DEF Shown, Kept
<1>10. CASE ReloadTab(t)
  <2>1. /\ drafts' = (IF shown.order # NoOrder /\ ~shown.busy THEN Upserted(shown) ELSE drafts)
        /\ keyLost' = keyLost \cup {order \in {screen[t].key.order} \ {NoOrder} : Unknown(order)}
        /\ screen' = [screen EXCEPT ![t] = [shown |-> Blank, key |-> NoKey]]
        /\ UNCHANGED <<toCome, wire, bills, keys, done>>
    BY <1>10 DEF ReloadTab
  <2>2. /\ screen' \in [Tabs -> [shown : Shown, key : Kept]] /\ screen'[t].key = NoKey
        /\ now.order = NoOrder /\ now.busy = FALSE /\ \A u \in Tabs \ {t} : screen'[u] = screen[u]
    BY <1>1, <1>2, <1>3, <2>1
  <2>3. /\ DraftsOnce(drafts')
        /\ \A c \in later : c \in before \/ (c = shown.order /\ c # NoOrder)
    BY <1>1, <1>5, <2>1
  <2>4. keyLost \subseteq keyLost'
        /\ (screen[t].key.order # NoOrder /\ Unknown(screen[t].key.order) => screen[t].key.order \in keyLost')
    BY <2>1
  <2>5. QED
    BY <1>1, <2>1, <2>2, <2>3, <2>4, CartsMoved
<1>11. CASE ResumeDraft(t)
  <2>1. PICK i \in DOMAIN drafts :
          /\ shown.order = NoOrder
          /\ Show(t, [order |-> drafts[i].order, cart |-> drafts[i].cart, draft |-> TRUE, busy |-> FALSE])
          /\ keyLost' = keyLost \cup (IF \E u \in Tabs \ {t} : drafts[i].order \in {screen[u].key.order, screen[u].shown.order}
                                      THEN {drafts[i].order} ELSE {})
          /\ UNCHANGED <<drafts, toCome, wire, bills, keys, done>>
    BY <1>11 DEF ResumeDraft
  <2>2. drafts[i] \in Draft /\ drafts[i].order \in before
    BY <1>1 DEF DraftsOnce, Drafted
  <2>3. [order |-> drafts[i].order, cart |-> drafts[i].cart, draft |-> TRUE, busy |-> FALSE] \in Shown
    BY <2>2 DEF Draft
  <2>4. /\ screen' \in [Tabs -> [shown : Shown, key : Kept]] /\ screen'[t].key = screen[t].key
        /\ now = [order |-> drafts[i].order, cart |-> drafts[i].cart, draft |-> TRUE, busy |-> FALSE]
        /\ \A u \in Tabs \ {t} : screen'[u] = screen[u]
    BY <1>4, <2>1, <2>3
  <2>5. now.order = drafts[i].order /\ now.draft = TRUE /\ now.busy = FALSE
    BY <2>4
  <2>6. keyLost \subseteq keyLost' /\ \A u \in Tabs \ {t} : Held(u, drafts[i].order) => drafts[i].order \in keyLost'
    BY <2>1 DEF Held
  <2>7. QED
    BY <1>1, <2>1, <2>2, <2>4, <2>5, <2>6, CartsMoved
<1>12. CASE DeleteDraft(t)
  <2>1. PICK i \in DOMAIN drafts :
          /\ drafts' = Without(drafts[i].order)
          /\ UNCHANGED <<screen, toCome, wire, bills, keys, done, keyLost>>
    BY <1>12 DEF DeleteDraft
  <2>2. DraftsOnce(drafts') /\ \A c \in later : c \in before
    BY <1>1, <2>1, CartTakenOut
  <2>3. QED
    BY <1>1, <2>1, <2>2, CartsMoved
<1>13. CASE Unreachable(t)
  <2>1. /\ screen' = [screen EXCEPT ![t].shown.busy = FALSE]
        /\ UNCHANGED <<drafts, toCome, wire, bills, keys, done, keyLost>>
    BY <1>13 DEF Unreachable, ShowFailed
  <2>2. /\ screen' \in [Tabs -> [shown : Shown, key : Kept]] /\ screen'[t].key = screen[t].key
        /\ now.order = shown.order /\ now.busy = FALSE /\ now.draft = shown.draft
        /\ \A u \in Tabs \ {t} : screen'[u] = screen[u]
    BY <1>1, <2>1
  <2>3. QED
    BY <1>1, <2>1, <2>2, CartsMoved
<1>14. QED
  BY <1>6, <1>7, <1>8, <1>9, <1>10, <1>11, <1>12, <1>13

\* A request goes under the key kept for the same request, or a new one.
LEMMA ValidateKept ==
    ASSUME TillInv, NEW t \in Tabs, Validate(t)
    PROVE  TillInv'
<1> DEFINE Shown == [order : Orders \cup {NoOrder}, cart : Carts, draft : BOOLEAN, busy : BOOLEAN]
           Kept == [id : Nat, order : Orders \cup {NoOrder}, print : Prints, tries : Nat]
           shown == screen[t].shown
           kept == screen[t].key
           o == shown.order
           print == Fingerprint(o, shown.cart)
           key == KeyFor(kept, o, print)
           request == [key |-> key.id, order |-> o, print |-> print, try |-> key.tries]
<1>1. TillTypes /\ TabKeys /\ SaleKeys /\ ToComeFresh /\ OnePlace /\ SalesFollowed
  BY DEF TillInv
<1>2. /\ o # NoOrder /\ ~shown.busy
      /\ keys' = (IF key.id > keys THEN key.id ELSE keys)
      /\ wire' = wire \cup {request}
      /\ screen' = [screen EXCEPT ![t] = [shown |-> [shown EXCEPT !.busy = TRUE], key |-> key]]
      /\ keyLost' = keyLost
            \cup {order \in {kept.order} \ {NoOrder} : kept.print # print /\ Unknown(order)}
            \cup {order \in {kept.order, o} : kept.print = print /\ kept.order # o}
      /\ UNCHANGED <<drafts, toCome, bills, done>>
  BY DEF Validate
<1>3. /\ screen \in [Tabs -> [shown : Shown, key : Kept]] /\ shown \in Shown /\ kept \in Kept
      /\ o \in Orders /\ shown.cart \in Carts /\ keys \in Nat
  BY <1>1, <1>2 DEF TillTypes
<1>4. print \in Prints /\ print # <<>>
  <2> DEFINE goods == IF Alike THEN "goods" ELSE o
  <2>1. print = <<goods, shown.cart>>
    BY DEF Fingerprint
  <2>2. goods \in {"goods"} \cup Orders
    BY <1>3
  <2> HIDE DEF goods
  <2>3. QED
    BY <1>3, <2>1, <2>2 DEF Prints
<1>5. \/ /\ kept.print = print /\ key.id = kept.id /\ kept.id # 0
      \/ /\ kept.print # print /\ key.id = keys + 1
  BY <1>1, <1>3, <1>4 DEF KeyFor, TabKeys
<1>6. key \in Kept /\ key.order = o /\ key.print = print /\ key.id # 0 /\ key.id \in Nat
  <2>1. CASE kept.print = print
    <3>1. key = [kept EXCEPT !.order = o, !.tries = @ + 1]
      BY <2>1 DEF KeyFor
    <3>2. kept.id \in Nat /\ kept.tries + 1 \in Nat /\ kept.print \in Prints
      BY <1>3
    <3>3. key = [id |-> kept.id, order |-> o, print |-> kept.print, tries |-> kept.tries + 1]
      BY <1>3, <3>1
    <3>4. QED
      BY <1>3, <1>5, <2>1, <3>2, <3>3
  <2>2. CASE kept.print # print
    BY <1>3, <1>4, <2>2 DEF KeyFor
  <2>3. QED
    BY <2>1, <2>2
<1> HIDE DEF print, key
<1>7. /\ keys' \in Nat /\ keys <= keys' /\ key.id <= keys'
      /\ key.id = keys + 1 => \A i \in Nat : i <= keys => i # key.id
  BY <1>2, <1>3, <1>6
<1>8. /\ screen'[t].key = key /\ screen'[t].shown.order = o /\ screen'[t].shown.draft = shown.draft
      /\ screen'[t].shown.busy = TRUE
      /\ screen' \in [Tabs -> [shown : Shown, key : Kept]]
      /\ \A u \in Tabs \ {t} : screen'[u] = screen[u]
  BY <1>2, <1>3, <1>6
<1>9. request \in [key : Nat \ {0}, order : Orders, print : Prints, try : Nat] /\ request.key = key.id /\ request.order = o
  BY <1>3, <1>4, <1>6
<1>10. Sales' = Sales \cup {request}
  BY <1>2 DEF Sales
<1> HIDE DEF request
<1>11. TillTypes'
  BY <1>1, <1>2, <1>7, <1>8, <1>9 DEF TillTypes
<1>12. \A m \in Sales : m.key \in Nat \ {0} /\ m.key <= keys
  BY <1>1 DEF TillTypes, SaleKeys, Sales
<1>13. \A u \in Tabs : screen[u].key.id \in Nat /\ screen[u].key.id <= keys
  BY <1>1 DEF TillTypes, TabKeys
<1>14. \A u \in Tabs \ {t} : screen[u].key.id # key.id \/ screen[u].key.id = 0
  BY <1>1, <1>5, <1>7, <1>13 DEF TabKeys
<1>15. TabKeys'
  <2>1. ASSUME NEW u \in Tabs
        PROVE  /\ screen'[u].key.id <= keys'
               /\ screen'[u].key.id = 0 <=> screen'[u].key.order = NoOrder
               /\ screen'[u].key.id = 0 <=> screen'[u].key.print = <<>>
               /\ screen'[u].shown.busy => /\ screen'[u].shown.order = screen'[u].key.order
                                           /\ screen'[u].shown.order # NoOrder
    <3>1. CASE u = t
      BY <1>2, <1>4, <1>6, <1>7, <1>8, <3>1
    <3>2. CASE u # t
      BY <1>1, <1>3, <1>7, <1>8, <1>13, <3>2 DEF TabKeys
    <3>3. QED
      BY <3>1, <3>2
  <2>2. \A u, v \in Tabs : screen'[u].key.id = screen'[v].key.id /\ u # v => screen'[u].key.id = 0
    <3>1. \A v \in Tabs \ {t} : screen'[t].key.id # screen'[v].key.id
      BY <1>6, <1>8, <1>14
    <3>2. \A u, v \in Tabs \ {t} : screen'[u].key.id = screen'[v].key.id /\ u # v => screen'[u].key.id = 0
      BY <1>1, <1>8 DEF TabKeys
    <3>3. QED
      BY <3>1, <3>2
  <2>3. QED
    BY <2>1, <2>2 DEF TabKeys
\* A sale under the request's key is the same order's, or the key was another customer's.
<1>16. \A m \in Sales : m.key = key.id /\ m.order # o => m.order \in keyLost' /\ o \in keyLost'
  <2>1. SUFFICES ASSUME NEW m \in Sales, m.key = key.id, m.order # o PROVE m.order \in keyLost' /\ o \in keyLost'
    OBVIOUS
  <2>2. kept.print = print /\ m.key = kept.id
    BY <1>5, <1>7, <1>12, <2>1
  <2>3. CASE kept.order = o
    BY <1>1, <1>2, <2>1, <2>2, <2>3 DEF SaleKeys
  <2>4. CASE kept.order # o
    <3>1. o \in keyLost' /\ kept.order \in keyLost'
      BY <1>2, <2>2, <2>4
    <3>2. m.order = kept.order \/ m.order \in keyLost
      BY <1>1, <2>1, <2>2 DEF SaleKeys
    <3>3. QED
      BY <1>2, <3>1, <3>2
  <2>5. QED
    BY <2>3, <2>4
<1>17. SaleKeys'
  <2>1. \A m \in Sales' : m.key <= keys'
    BY <1>3, <1>7, <1>9, <1>10, <1>12
  <2>2. \A d \in done : d[2] <= keys'
    BY <1>1, <1>3, <1>7 DEF SaleKeys, TillTypes
  <2>3. \A m, n \in Sales' : m.key = n.key /\ m.order # n.order => m.order \in keyLost'
    BY <1>1, <1>2, <1>9, <1>10, <1>16 DEF SaleKeys
  <2>4. ASSUME NEW m \in Sales', NEW u \in Tabs, m.key = screen'[u].key.id, m.order # screen'[u].key.order
        PROVE  m.order \in keyLost' /\ screen'[u].key.order \in keyLost'
    <3>1. CASE u = t
      BY <1>6, <1>8, <1>9, <1>10, <1>16, <2>4, <3>1
    <3>2. CASE u # t
      <4>1. screen'[u] = screen[u]
        BY <1>8, <3>2
      <4>2. m \in Sales
        BY <1>6, <1>9, <1>10, <1>14, <2>4, <3>2, <4>1
      <4>3. QED
        BY <1>1, <1>2, <2>4, <4>1, <4>2 DEF SaleKeys
    <3>3. QED
      BY <3>1, <3>2
  <2>5. QED
    BY <1>1, <1>2, <2>1, <2>2, <2>3, <2>4 DEF SaleKeys
<1>18. \A u \in Tabs, c \in Orders : (Held(u, c))' => Held(u, c)
  BY <1>6, <1>8 DEF Held
<1>19. Held(t, o)
  BY DEF Held
<1>20. ToComeFresh'
  <2>1. \A c \in toCome : c \in Orders /\ c # o
    BY <1>1, <1>19 DEF ToComeFresh, TillTypes
  <2>2. QED
    BY <1>1, <1>2, <1>9, <1>10, <1>18, <2>1 DEF ToComeFresh
<1>21. OnePlace'
  <2>1. \A u \in Tabs : screen'[u].shown.order = screen[u].shown.order /\ screen'[u].shown.draft = screen[u].shown.draft
    BY <1>8
  <2>2. keyLost \subseteq keyLost' /\ drafts' = drafts
    BY <1>2
  <2>3. QED
    BY <1>1, <1>18, <2>1, <2>2 DEF OnePlace
<1>22. SalesFollowed'
  <2>1. SUFFICES ASSUME NEW c \in Orders \ keyLost'
                 PROVE  /\ \A m \in Sales' : m.order = c =>
                             \/ <<c, m.key>> \in done
                             \/ \E u \in Tabs : screen'[u].key.order = c /\ screen'[u].key.id = m.key
                        /\ \A d, e \in done : d[1] = c /\ e[1] = c => d = e
                        /\ \A d \in done : d[1] = c => /\ c \notin Drafted(drafts)
                                                       /\ \A u \in Tabs : ~(Held(u, c))'
                                                       /\ \E b \in bills : b.order = c /\ b.key = d[2]
    BY <1>2 DEF SalesFollowed
  <2>2. c \in Orders \ keyLost /\ c # NoOrder
    BY <1>2, <2>1, TillAssumption DEF TillAssumption
  <2>3. ASSUME NEW m \in Sales', m.order = c, <<c, m.key>> \notin done
        PROVE  \E u \in Tabs : screen'[u].key.order = c /\ screen'[u].key.id = m.key
    <3>1. CASE m = request
      BY <1>6, <1>8, <1>9, <2>3, <3>1
    <3>2. CASE m \in Sales
      <4>1. PICK u \in Tabs : screen[u].key.order = c /\ screen[u].key.id = m.key
        BY <1>1, <2>2, <2>3, <3>2 DEF SalesFollowed
      <4>2. CASE u # t
        BY <1>8, <4>1, <4>2
      <4>3. CASE u = t
        <5>1. Unknown(c)
          BY <2>3, <3>2 DEF Unknown, Sales
        <5>2. kept.print = print
          BY <1>2, <2>1, <2>2, <4>1, <4>3, <5>1
        <5>3. c = o
          BY <1>2, <2>1, <4>1, <4>3, <5>2
        <5>4. QED
          BY <1>5, <1>6, <1>8, <4>1, <4>3, <5>2, <5>3
      <4>4. QED
        BY <4>2, <4>3
    <3>3. QED
      BY <1>10, <3>1, <3>2
  <2>4. QED
    BY <1>1, <1>18, <2>2, <2>3 DEF SalesFollowed
<1>23. QED
  BY <1>11, <1>15, <1>17, <1>20, <1>21, <1>22 DEF TillInv

\* The server bills a key once; the tab that waits for the answer lets the cart go.
LEMMA ArriveKept ==
    ASSUME TillInv, Arrive
    PROVE  TillInv'
<1>1. PICK request \in wire, billed \in BOOLEAN, answered \in BOOLEAN :
        LET known == \E bill \in bills : bill.key = request.key
            waiting == {t \in Tabs : screen[t].shown.busy /\ screen[t].key.id = request.key
                                     /\ screen[t].key.tries = request.try}
        IN  /\ known => billed
            /\ answered => waiting # {}
            /\ wire' = wire \ {request}
            /\ bills' = (IF billed /\ ~known THEN bills \cup {[key |-> request.key, order |-> request.order, print |-> request.print]}
                         ELSE bills)
            /\ IF answered
               THEN \E t \in waiting :
                       \/ billed /\ ShowPaid(t, request.order)
                       \/ ~billed /\ ShowFailed(t) /\ UNCHANGED <<drafts, done>>
               ELSE UNCHANGED <<screen, drafts, done>>
            /\ UNCHANGED <<toCome, keys, keyLost>>
  BY DEF Arrive
<1>2. TillTypes /\ TabKeys /\ SaleKeys /\ ToComeFresh /\ OnePlace /\ SalesFollowed
  BY DEF TillInv
<1> DEFINE billNow == [key |-> request.key, order |-> request.order, print |-> request.print]
           r == request.order
<1>3. /\ request \in [key : Nat \ {0}, order : Orders, print : Prints, try : Nat] /\ request \in Sales
      /\ r \in Orders /\ r # NoOrder /\ request.key \in Nat \ {0} /\ request.print \in Prints
  BY <1>2, TillAssumption DEF TillTypes, Sales, TillAssumption
<1>4. /\ wire' = wire \ {request}
      /\ bills \subseteq bills' /\ \A b \in bills' : b \in bills \/ (b = billNow /\ \A c \in bills : c.key # request.key)
      /\ billed => \E b \in bills' : b.key = request.key
      /\ UNCHANGED <<toCome, keys, keyLost>>
  <2>1. /\ (\E b \in bills : b.key = request.key) => billed
        /\ bills' = (IF billed /\ ~(\E b \in bills : b.key = request.key) THEN bills \cup {billNow} ELSE bills)
        /\ wire' = wire \ {request} /\ UNCHANGED <<toCome, keys, keyLost>>
    BY <1>1
  <2>2. billNow.key = request.key
    OBVIOUS
  <2> HIDE DEF billNow
  <2>3. CASE \E b \in bills : b.key = request.key
    BY <2>1, <2>3
  <2>4. CASE ~\E b \in bills : b.key = request.key
    BY <2>1, <2>2, <2>4
  <2>5. QED
    BY <2>3, <2>4
<1>5. billNow \in [key : Nat \ {0}, order : Orders, print : Prints] /\ billNow.key = request.key /\ billNow.order = r
  BY <1>3
<1>6. \A m \in Sales' : \E n \in Sales : m.key = n.key /\ m.order = n.order
  BY <1>3, <1>4, <1>5 DEF Sales
<1> HIDE DEF billNow
<1>7. \/ UNCHANGED <<screen, drafts, done>>
      \/ \E t \in Tabs : ShowFailed(t) /\ UNCHANGED <<drafts, done>>
      \/ \E t \in Tabs : screen[t].shown.busy /\ screen[t].key.id = request.key /\ billed /\ ShowPaid(t, r)
  BY <1>1
<1>8. /\ \A b, c \in bills' : b.key = c.key => b = c
      /\ \A m, n \in Sales' : m.key = n.key /\ m.order # n.order => m.order \in keyLost
      /\ \A m \in Sales' : m.key <= keys
  <2>1. \A b, c \in bills' : b.key = c.key => b = c
    BY <1>2, <1>4, <1>5 DEF SaleKeys
  <2>2. QED
    BY <1>2, <1>6, <2>1 DEF SaleKeys
<1>9. bills' \subseteq [key : Nat \ {0}, order : Orders, print : Prints]
      /\ wire' \subseteq [key : Nat \ {0}, order : Orders, print : Prints, try : Nat]
  BY <1>2, <1>4, <1>5 DEF TillTypes
\* Whatever the answer, the sales are as before.
<1>10. ASSUME UNCHANGED <<drafts, done>>,
              \A t \in Tabs : /\ screen'[t].key = screen[t].key /\ screen'[t].shown.order = screen[t].shown.order
                              /\ screen'[t].shown.draft = screen[t].shown.draft
                              /\ screen'[t].shown.busy => screen[t].shown.busy,
              screen' \in [Tabs -> [shown : [order : Orders \cup {NoOrder}, cart : Carts, draft : BOOLEAN, busy : BOOLEAN],
                                    key : [id : Nat, order : Orders \cup {NoOrder}, print : Prints, tries : Nat]]]
       PROVE  TillInv'
  <2>1. TillTypes'
    BY <1>2, <1>4, <1>9, <1>10 DEF TillTypes
  <2>2. TabKeys'
    BY <1>2, <1>4, <1>10 DEF TabKeys
  <2>3. SaleKeys'
    <3>1. \A m \in Sales', t \in Tabs : m.key = screen'[t].key.id /\ m.order # screen'[t].key.order =>
            m.order \in keyLost /\ screen'[t].key.order \in keyLost
      BY <1>2, <1>6, <1>10 DEF SaleKeys
    <3>2. QED
      BY <1>2, <1>4, <1>8, <1>10, <3>1 DEF SaleKeys
  <2>4. \A t \in Tabs, c \in Orders : (Held(t, c))' <=> Held(t, c)
    BY <1>10 DEF Held
  <2>5. ToComeFresh'
    BY <1>2, <1>4, <1>6, <1>10, <2>4 DEF ToComeFresh, TillTypes
  <2>6. OnePlace'
    BY <1>2, <1>4, <1>10, <2>4 DEF OnePlace
  <2>7. SalesFollowed'
    <3>1. SUFFICES ASSUME NEW c \in Orders \ keyLost
                   PROVE  /\ \A m \in Sales' : m.order = c =>
                               \/ <<c, m.key>> \in done
                               \/ \E u \in Tabs : screen'[u].key.order = c /\ screen'[u].key.id = m.key
                          /\ \A d, e \in done : d[1] = c /\ e[1] = c => d = e
                          /\ \A d \in done : d[1] = c => /\ c \notin Drafted(drafts)
                                                         /\ \A u \in Tabs : ~(Held(u, c))'
                                                         /\ \E b \in bills' : b.order = c /\ b.key = d[2]
      BY <1>4, <1>10 DEF SalesFollowed
    <3>2. \A m \in Sales : m.order = c => \/ <<c, m.key>> \in done
                                          \/ \E t \in Tabs : screen[t].key.order = c /\ screen[t].key.id = m.key
      BY <1>2, <3>1 DEF SalesFollowed
    <3>3. \A m \in Sales' : m.order = c => \/ <<c, m.key>> \in done
                                           \/ \E u \in Tabs : screen'[u].key.order = c /\ screen'[u].key.id = m.key
      BY <1>6, <1>10, <3>2
    <3>4. QED
      BY <1>2, <1>4, <2>4, <3>1, <3>3 DEF SalesFollowed
  <2>8. QED
    BY <2>1, <2>2, <2>3, <2>5, <2>6, <2>7 DEF TillInv
<1>11. CASE UNCHANGED <<screen, drafts, done>>
  BY <1>2, <1>10, <1>11 DEF TillTypes
<1>12. ASSUME NEW t \in Tabs, ShowFailed(t), UNCHANGED <<drafts, done>> PROVE TillInv'
  <2>1. screen' = [screen EXCEPT ![t].shown.busy = FALSE]
    BY <1>12 DEF ShowFailed
  <2>2. /\ \A u \in Tabs : /\ screen'[u].key = screen[u].key /\ screen'[u].shown.order = screen[u].shown.order
                           /\ screen'[u].shown.draft = screen[u].shown.draft
                           /\ screen'[u].shown.busy => screen[u].shown.busy
        /\ screen' \in [Tabs -> [shown : [order : Orders \cup {NoOrder}, cart : Carts, draft : BOOLEAN, busy : BOOLEAN],
                                 key : [id : Nat, order : Orders \cup {NoOrder}, print : Prints, tries : Nat]]]
    <3>1. screen \in [Tabs -> [shown : [order : Orders \cup {NoOrder}, cart : Carts, draft : BOOLEAN, busy : BOOLEAN],
                               key : [id : Nat, order : Orders \cup {NoOrder}, print : Prints, tries : Nat]]]
      BY <1>2 DEF TillTypes
    <3>2. screen'[t] = [screen[t] EXCEPT !.shown = [screen[t].shown EXCEPT !.busy = FALSE]]
          /\ (\A u \in Tabs \ {t} : screen'[u] = screen[u]) /\ screen' = [u \in Tabs |-> screen'[u]]
      BY <2>1, <3>1
    <3>3. /\ screen'[t].key = screen[t].key /\ screen'[t].shown.order = screen[t].shown.order
          /\ screen'[t].shown.draft = screen[t].shown.draft /\ screen'[t].shown.busy = FALSE
          /\ screen'[t] \in [shown : [order : Orders \cup {NoOrder}, cart : Carts, draft : BOOLEAN, busy : BOOLEAN],
                             key : [id : Nat, order : Orders \cup {NoOrder}, print : Prints, tries : Nat]]
      <4>1. /\ screen[t] \in [shown : [order : Orders \cup {NoOrder}, cart : Carts, draft : BOOLEAN, busy : BOOLEAN],
                             key : [id : Nat, order : Orders \cup {NoOrder}, print : Prints, tries : Nat]]
            /\ screen[t].shown \in [order : Orders \cup {NoOrder}, cart : Carts, draft : BOOLEAN, busy : BOOLEAN]
        BY <3>1
      <4>2. screen'[t].key = screen[t].key /\ screen'[t].shown = [screen[t].shown EXCEPT !.busy = FALSE]
        BY <3>2, <4>1
      <4>3. screen'[t] = [shown |-> [screen[t].shown EXCEPT !.busy = FALSE], key |-> screen[t].key]
        BY <3>2, <4>1
      <4>4. QED
        BY <4>1, <4>2, <4>3
    <3>4. QED
      BY <3>1, <3>2, <3>3
  <2>3. QED
    BY <1>10, <1>12, <2>2
<1>13. ASSUME NEW t \in Tabs, screen[t].shown.busy, screen[t].key.id = request.key, billed, ShowPaid(t, r) PROVE TillInv'
  <2> DEFINE shown == screen[t].shown
             key == screen[t].key
  <2>1. /\ done' = done \cup {<<r, key.id>>}
        /\ drafts' = (IF shown.draft THEN Without(shown.order) ELSE drafts)
        /\ screen' = [screen EXCEPT ![t] = [shown |-> Blank, key |-> NoKey]]
    BY <1>13 DEF ShowPaid
  <2>2. /\ Blank \in [order : Orders \cup {NoOrder}, cart : Carts, draft : BOOLEAN, busy : BOOLEAN]
        /\ NoKey \in [id : Nat, order : Orders \cup {NoOrder}, print : Prints, tries : Nat]
        /\ Blank.order = NoOrder /\ ~Blank.busy /\ NoKey.id = 0 /\ NoKey.order = NoOrder /\ NoKey.print = <<>>
    BY DEF Blank, NoKey, Carts, Prints
  <2> HIDE DEF Blank, NoKey
  <2>3. /\ screen' \in [Tabs -> [shown : [order : Orders \cup {NoOrder}, cart : Carts, draft : BOOLEAN, busy : BOOLEAN],
                                 key : [id : Nat, order : Orders \cup {NoOrder}, print : Prints, tries : Nat]]]
        /\ screen'[t].shown = Blank /\ screen'[t].key = NoKey /\ \A u \in Tabs \ {t} : screen'[u] = screen[u]
    BY <1>2, <2>1, <2>2 DEF TillTypes
  <2>4. DraftsOnce(drafts') /\ Drafted(drafts') \subseteq Drafted(drafts)
    BY <1>2, <2>1, CartTakenOut DEF TillTypes
  <2>5. shown.order = key.order /\ key.id = request.key /\ key.id <= keys /\ key.id \in Nat
    BY <1>2, <1>3, <1>13 DEF TabKeys
  <2>6. TillTypes'
    BY <1>2, <1>3, <1>4, <1>9, <2>1, <2>3, <2>4, <2>5 DEF TillTypes
  <2>7. TabKeys'
    <3>1. ASSUME NEW u \in Tabs
          PROVE  /\ screen'[u].key.id <= keys
                 /\ screen'[u].key.id = 0 <=> screen'[u].key.order = NoOrder
                 /\ screen'[u].key.id = 0 <=> screen'[u].key.print = <<>>
                 /\ screen'[u].shown.busy => /\ screen'[u].shown.order = screen'[u].key.order
                                             /\ screen'[u].shown.order # NoOrder
      <4>1. CASE u = t
        BY <1>2, <2>2, <2>3, <4>1 DEF TillTypes
      <4>2. CASE u # t
        BY <1>2, <2>3, <4>2 DEF TabKeys
      <4>3. QED
        BY <4>1, <4>2
    <3>2. \A u, v \in Tabs : screen'[u].key.id = screen'[v].key.id /\ u # v => screen'[u].key.id = 0
      BY <1>2, <2>2, <2>3 DEF TabKeys
    <3>3. QED
      BY <1>4, <3>1, <3>2 DEF TabKeys
  <2>8. \A m \in Sales' : m.key \in Nat \ {0}
    BY <1>9 DEF Sales
  <2>9. SaleKeys'
    <3>1. \A m \in Sales', u \in Tabs : m.key = screen'[u].key.id /\ m.order # screen'[u].key.order =>
            m.order \in keyLost /\ screen'[u].key.order \in keyLost
      BY <1>2, <1>6, <2>2, <2>3, <2>8 DEF SaleKeys
    <3>2. \A d \in done' : d[2] <= keys
      BY <1>2, <2>1, <2>5 DEF SaleKeys
    <3>3. QED
      BY <1>4, <1>8, <3>1, <3>2 DEF SaleKeys
  <2>10. \A u \in Tabs, c \in Orders : (Held(u, c))' => Held(u, c) /\ u # t
    BY <2>2, <2>3, TillAssumption DEF Held, TillAssumption
  <2>11. ToComeFresh'
    <3>1. \A c \in toCome : c # r
      BY <1>2, <1>3 DEF ToComeFresh
    <3>2. QED
      BY <1>2, <1>4, <1>6, <2>1, <2>4, <2>10, <3>1 DEF ToComeFresh, TillTypes
  <2>12. OnePlace'
    <3>1. SUFFICES ASSUME NEW c \in Orders \ keyLost
                   PROVE  /\ \A u, v \in Tabs : (Held(u, c))' /\ (Held(v, c))' => u = v
                          /\ \A u \in Tabs : screen'[u].shown.order = c /\ ~screen'[u].shown.draft => c \notin Drafted(drafts')
      BY <1>4 DEF OnePlace
    <3>2. c # NoOrder
      BY <3>1, TillAssumption DEF TillAssumption
    <3>3. QED
      <4>1. \A u, v \in Tabs : (Held(u, c))' /\ (Held(v, c))' => u = v
        BY <1>2, <2>10, <3>1 DEF OnePlace
      <4>2. \A u \in Tabs : screen'[u].shown.order = c => u # t /\ screen'[u] = screen[u]
        BY <2>2, <2>3, <3>2
      <4>3. QED
        BY <1>2, <2>4, <3>1, <4>1, <4>2 DEF OnePlace
  \* The order the answer is about is the tab's, unless its key was another's.
  <2>13. r \notin keyLost => /\ key.order = r /\ Held(t, r)
                             /\ \A u \in Tabs : Held(u, r) => u = t
                             /\ \A d \in done : d[1] # r
                             /\ r \notin Drafted(drafts')
                             /\ \E b \in bills' : b.order = r /\ b.key = key.id
    <3>1. SUFFICES ASSUME r \notin keyLost
                   PROVE  /\ key.order = r /\ Held(t, r)
                          /\ \A u \in Tabs : Held(u, r) => u = t
                          /\ \A d \in done : d[1] # r
                          /\ r \notin Drafted(drafts')
                          /\ \E b \in bills' : b.order = r /\ b.key = key.id
      OBVIOUS
    <3>2. key.order = r /\ Held(t, r)
      BY <1>2, <1>3, <2>5, <3>1 DEF SaleKeys, Held
    <3>3. \A u \in Tabs : Held(u, r) => u = t
      BY <1>2, <1>3, <3>1, <3>2 DEF OnePlace
    <3>4. \A d \in done : d[1] # r
      BY <1>2, <1>3, <3>1, <3>2 DEF SalesFollowed
    <3>5. r \notin Drafted(drafts')
      <4>1. CASE shown.draft
        BY <1>2, <2>1, <2>5, <3>2, <4>1, CartTakenOut DEF TillTypes
      <4>2. CASE ~shown.draft
        BY <1>2, <1>3, <2>1, <2>5, <3>1, <3>2, <4>2 DEF OnePlace
      <4>3. QED
        BY <4>1, <4>2
    <3>6. PICK b \in bills' : b.key = request.key
      BY <1>4, <1>13
    <3>7. b.order = r
      <4>1. CASE b \in bills
        BY <1>2, <1>3, <3>1, <3>6, <4>1 DEF SaleKeys, Sales
      <4>2. CASE b \notin bills
        BY <1>4, <1>5, <4>2
      <4>3. QED
        BY <4>1, <4>2
    <3>8. QED
      BY <2>5, <3>2, <3>3, <3>4, <3>5, <3>6, <3>7
  <2>14. SalesFollowed'
    <3>1. SUFFICES ASSUME NEW c \in Orders \ keyLost
                   PROVE  /\ \A m \in Sales' : m.order = c =>
                               \/ <<c, m.key>> \in done'
                               \/ \E u \in Tabs : screen'[u].key.order = c /\ screen'[u].key.id = m.key
                          /\ \A d, e \in done' : d[1] = c /\ e[1] = c => d = e
                          /\ \A d \in done' : d[1] = c => /\ c \notin Drafted(drafts')
                                                          /\ \A u \in Tabs : ~(Held(u, c))'
                                                          /\ \E b \in bills' : b.order = c /\ b.key = d[2]
      BY <1>4 DEF SalesFollowed
    <3>2. /\ \A m \in Sales : m.order = c => \/ <<c, m.key>> \in done
                                             \/ \E u \in Tabs : screen[u].key.order = c /\ screen[u].key.id = m.key
          /\ \A d, e \in done : d[1] = c /\ e[1] = c => d = e
          /\ \A d \in done : d[1] = c => /\ c \notin Drafted(drafts)
                                         /\ \A u \in Tabs : ~Held(u, c)
                                         /\ \E b \in bills : b.order = c /\ b.key = d[2]
      BY <1>2, <3>1 DEF SalesFollowed
    <3>3. CASE c = r
      <4>1. \A m \in Sales : m.order = c => m.key = key.id
        <5>1. SUFFICES ASSUME NEW m \in Sales, m.order = c PROVE m.key = key.id
          OBVIOUS
        <5>2. <<c, m.key>> \notin done
          BY <2>13, <3>1, <3>3
        <5>3. PICK u \in Tabs : screen[u].key.order = c /\ screen[u].key.id = m.key
          BY <3>2, <5>1, <5>2
        <5>4. u = t
          BY <2>13, <3>1, <3>3, <5>3 DEF Held
        <5>5. QED
          BY <5>3, <5>4
      <4>2. \A m \in Sales' : m.order = c => <<c, m.key>> \in done'
        BY <1>6, <2>1, <3>3, <4>1
      <4>3. \A d \in done' : d[1] = c => d = <<r, key.id>>
        BY <2>1, <2>13, <3>1, <3>3
      <4>4. QED
        BY <2>10, <2>13, <3>1, <3>3, <4>2, <4>3
    <3>4. CASE c # r
      <4>1. \A d \in done' : d[1] = c => d \in done
        BY <2>1, <3>4
      <4>2. key.order # c
        BY <1>2, <1>3, <2>5, <3>1, <3>4 DEF SaleKeys
      <4>3. \A m \in Sales' : m.order = c => \/ <<c, m.key>> \in done'
                                             \/ \E u \in Tabs : screen'[u].key.order = c /\ screen'[u].key.id = m.key
        BY <1>6, <2>1, <2>3, <3>2, <4>2
      <4>4. QED
        BY <1>4, <2>4, <2>10, <3>1, <3>2, <4>1, <4>3
    <3>5. QED
      BY <3>3, <3>4
  <2>15. QED
    BY <2>6, <2>7, <2>9, <2>11, <2>12, <2>14 DEF TillInv
<1>14. QED
  BY <1>7, <1>11, <1>12, <1>13

\* A cart is billed once however often its checkout is sent, parked or late, and one shown as paid
\* is billed (useCheckout.ts), for every number of tabs, customers and requests, but for the
\* carts whose key the till gave up.
THEOREM CartBilledOnceHolds == TillSpec => []CartBilledOnce
<1>1. ASSUME TillInv, [TillNext]_tillVars PROVE TillInv'
  <2>1. CASE TillNext
    BY <1>1, <2>1, CartStepsKept, ValidateKept, ArriveKept DEF TillNext
  <2>2. CASE UNCHANGED tillVars
    BY <1>1, <2>2 DEF tillVars, TillInv, TillTypes, TabKeys, SaleKeys, ToComeFresh, OnePlace, SalesFollowed, Sales, Held
  <2>3. QED
    BY <1>1, <2>1, <2>2
<1>2. ASSUME TillInv PROVE CartBilledOnce
  <2>1. SUFFICES ASSUME NEW o \in Orders \ keyLost
                 PROVE  /\ Cardinality({bill \in bills : bill.order = o}) <= 1
                        /\ \A key \in 1 .. MaxKeys : <<o, key>> \in done => \E bill \in bills : bill.key = key /\ bill.order = o
    BY DEF CartBilledOnce
  <2> DEFINE own == {bill \in bills : bill.order = o}
  <2>2. ASSUME NEW b \in own, NEW c \in own PROVE b = c
    <3>1. b \in Sales /\ c \in Sales /\ b.order = o /\ c.order = o /\ b \in bills /\ c \in bills
      BY DEF Sales
    <3>2. ASSUME NEW m \in Sales, NEW n \in Sales, m.order = o, n.order = o, <<o, n.key>> \in done PROVE m.key = n.key
      <4>1. \A t \in Tabs : ~Held(t, o)
        BY <1>2, <2>1, <3>2 DEF TillInv, SalesFollowed
      <4>2. <<o, m.key>> \in done
        BY <1>2, <2>1, <3>2, <4>1 DEF TillInv, SalesFollowed, Held
      <4>3. <<o, m.key>> = <<o, n.key>>
        BY <1>2, <2>1, <3>2, <4>2 DEF TillInv, SalesFollowed
      <4>4. QED
        BY <4>3
    <3>3. CASE <<o, b.key>> \in done \/ <<o, c.key>> \in done
      BY <1>2, <3>1, <3>2, <3>3 DEF TillInv, SaleKeys
    <3>4. CASE ~(<<o, b.key>> \in done \/ <<o, c.key>> \in done)
      <4>1. PICK t \in Tabs, u \in Tabs : /\ screen[t].key.order = o /\ screen[t].key.id = b.key
                                          /\ screen[u].key.order = o /\ screen[u].key.id = c.key
        BY <1>2, <2>1, <3>1, <3>4 DEF TillInv, SalesFollowed
      <4>2. t = u
        BY <1>2, <2>1, <4>1 DEF TillInv, OnePlace, Held
      <4>3. QED
        BY <1>2, <3>1, <4>1, <4>2 DEF TillInv, SaleKeys
    <3>5. QED
      BY <3>3, <3>4
  <2>3. \A key \in 1 .. MaxKeys : <<o, key>> \in done => \E bill \in bills : bill.key = key /\ bill.order = o
    BY <1>2, <2>1 DEF TillInv, SalesFollowed
  <2> HIDE DEF own
  <2>4. Cardinality(own) <= 1
    <3>1. CASE own = {}
      BY <3>1, FS_EmptySet
    <3>2. CASE own # {}
      <4>1. PICK b \in own : own = {b}
        BY <2>2, <3>2
      <4>2. QED
        BY <4>1, FS_Singleton
    <3>3. QED
      BY <3>1, <3>2
  <2>5. QED
    BY <2>3, <2>4 DEF own
<1>3. QED
  BY <1>1, <1>2, TillStarts, PTL DEF TillSpec

-----------------------------------------------------------------------------
(***************************************************************************)
(* A payment is recorded once (Settling).                                  *)
(***************************************************************************)

\* What carries a payment's ID: a request on its way, a receipt.
Marks == onWire \cup receipts

SettlingTypes ==
    /\ online \in BOOLEAN /\ saved.id \in 0 .. ids
    /\ ids \in Nat /\ sent \in Nat /\ intent \in Nat \ {0}
    /\ sending \in [Windows -> [id : Nat, retrying : BOOLEAN, n : 0 .. sent]]
    /\ onWire \subseteq [id : 1 .. ids, n : 1 .. sent, intent : 1 .. intent, online : BOOLEAN, by : Windows]
    /\ receipts \subseteq [id : 1 .. ids, intent : 1 .. intent, online : BOOLEAN, by : Windows]

Waits(q) == sending[q.by].n = q.n

RequestsKnown ==
    /\ \A q, p \in onWire : q.n = p.n => q = p
    /\ \A q \in onWire, w \in Windows : sending[w].n = q.n => q.by = w

\* Nothing of the fallback counter's is open while the till talks to the online server, nor does
\* a tab that waits for the online server have anything there.
ServersApart ==
    /\ online => \A m \in Marks : m.online
    /\ \A q \in onWire, m \in Marks : q.online /\ Waits(q) /\ m.by = q.by => m.online

\* The request that brought an ID up is its tab's only one under it while the tab waits for it.
FirstAlone ==
    \A q \in onWire : Waits(q) /\ ~sending[q.by].retrying =>
        /\ \A p \in onWire : p.id = q.id /\ p.by = q.by => p = q
        /\ \A r \in receipts : r.id = q.id => r.by # q.by

\* But for the payments given up, a payment and its ID belong together, and what is saved
\* is the ID of the payment being made.
IdsApart ==
    /\ \A m, k \in Marks : m.intent = k.intent /\ m.intent \notin lateOne => m.id = k.id
    /\ \A m, k \in Marks : m.id = k.id /\ m.intent \notin lateOne => m.intent = k.intent
SavedIsCurrent ==
    /\ intent \notin lateOne => \A m \in Marks : m.intent = intent <=> m.id = saved.id
    /\ \A m \in Marks : m.id = saved.id => m.intent = intent \/ m.intent \in lateOne

SettlingInv == SettlingTypes /\ RequestsKnown /\ ServersApart /\ FirstAlone /\ IdsApart /\ SavedIsCurrent

LEMMA SettlingStarts == SettlingInit => SettlingInv
BY DEF SettlingInit, SettlingInv, SettlingTypes, RequestsKnown, ServersApart, FirstAlone, IdsApart, SavedIsCurrent, Marks,
       NoPayment, Idle

LEMMA SendKept ==
    ASSUME SettlingInv, NEW w \in Windows, SendSettlement(w)
    PROVE  SettlingInv'
<1>1. PICK print \in Details, id \in 1 .. MaxIds, retrying \in BOOLEAN :
        /\ sending[w] = Idle
        /\ saved.id = 0 => id = ids + 1 /\ ~retrying
        /\ saved.id # 0 => id = saved.id /\ retrying
        /\ saved' = [id |-> id, print |-> print]
        /\ ids' = (IF id > ids THEN id ELSE ids)
        /\ sent' = sent + 1
        /\ sending' = [sending EXCEPT ![w] = [id |-> id, retrying |-> retrying, n |-> sent + 1]]
        /\ onWire' = onWire \cup {[id |-> id, n |-> sent + 1, intent |-> intent, online |-> online, by |-> w]}
        /\ UNCHANGED <<online, receipts, intent, lateOne>>
  <2>1. PICK print \in Details :
        /\ sending[w] = Idle
        /\ PaymentId(print).id \in 1 .. MaxIds
        /\ saved' = [id |-> PaymentId(print).id, print |-> print]
        /\ ids' = (IF PaymentId(print).id > ids THEN PaymentId(print).id ELSE ids)
        /\ sent' = sent + 1
        /\ sending' = [sending EXCEPT ![w] = [id |-> PaymentId(print).id, retrying |-> PaymentId(print).retrying, n |-> sent + 1]]
        /\ onWire' = onWire \cup {[id |-> PaymentId(print).id, n |-> sent + 1, intent |-> intent, online |-> online, by |-> w]}
        /\ UNCHANGED <<online, receipts, intent, lateOne>>
    BY DEF SendSettlement
  <2>2. saved.id = 0 => PaymentId(print).id = ids + 1 /\ PaymentId(print).retrying = FALSE
    BY DEF PaymentId
  <2>3. saved.id # 0 => PaymentId(print).id \in {saved.id, 0} /\ PaymentId(print).retrying = TRUE
    BY DEF PaymentId
  <2>4. PaymentId(print).id # 0
    BY <2>1, SettlingAssumption DEF SettlingAssumption
  <2>5. PaymentId(print).retrying \in BOOLEAN
    BY DEF PaymentId
  <2>6. QED
    BY <2>1, <2>2, <2>3, <2>4, <2>5
<1> DEFINE q == [id |-> id, n |-> sent + 1, intent |-> intent, online |-> online, by |-> w]
<1>2. SettlingTypes /\ RequestsKnown /\ ServersApart /\ FirstAlone /\ IdsApart /\ SavedIsCurrent
  BY DEF SettlingInv
<1>3. /\ ids' \in Nat /\ ids <= ids' /\ id \in 1 .. ids' /\ ids \in Nat /\ sent \in Nat
      /\ saved.id = 0 => id = ids + 1
  BY <1>1, <1>2, SettlingAssumption DEF SettlingTypes, SettlingAssumption
<1>4. onWire' = onWire \cup {q} /\ Marks' = Marks \cup {q}
  BY <1>1 DEF Marks
<1>5. SettlingTypes'
  BY <1>1, <1>2, <1>3 DEF SettlingTypes
<1>6. \A m \in Marks : m.id \in 1 .. ids /\ m.intent \in 1 .. intent /\ m.online \in BOOLEAN /\ m.by \in Windows
  BY <1>2 DEF SettlingTypes, Marks
<1>7. \A p \in onWire : p.n \in 1 .. sent /\ p.by \in Windows
  BY <1>2 DEF SettlingTypes
<1>8. /\ sending'[w].n = sent + 1 /\ sending'[w].retrying = retrying
      /\ \A v \in Windows \ {w} : sending'[v] = sending[v] /\ sending[v].n \in 0 .. sent
  BY <1>1, <1>2 DEF SettlingTypes
<1>9. RequestsKnown'
  BY <1>2, <1>3, <1>4, <1>7, <1>8 DEF RequestsKnown
<1>10. \A p \in onWire : p.by = w => ~Waits(p)'
  BY <1>3, <1>7, <1>8 DEF Waits
<1>11. \A p \in onWire : p.by # w => (Waits(p)' <=> Waits(p)) /\ sending'[p.by] = sending[p.by]
  BY <1>7, <1>8 DEF Waits
<1>12. ServersApart'
  BY <1>1, <1>2, <1>4, <1>6, <1>10, <1>11 DEF ServersApart
<1>13. FirstAlone'
  <2>1. SUFFICES ASSUME NEW p \in onWire', Waits(p)', ~sending'[p.by].retrying
                 PROVE  /\ \A o \in onWire' : o.id = p.id /\ o.by = p.by => o = p
                        /\ \A r \in receipts : r.id = p.id => r.by # p.by
    BY <1>1 DEF FirstAlone
  <2>2. CASE p = q
    <3>1. p.id = ids + 1
      BY <1>1, <1>8, <2>1, <2>2
    <3>2. QED
      BY <1>3, <1>4, <1>6, <2>2, <3>1 DEF Marks
  <2>3. CASE p \in onWire
    <3>1. p.by # w /\ Waits(p) /\ ~sending[p.by].retrying
      BY <1>10, <1>11, <2>1, <2>3
    <3>2. QED
      BY <1>2, <1>4, <2>3, <3>1 DEF FirstAlone
  <2>4. QED
    BY <1>4, <2>1, <2>2, <2>3
<1>14. intent \notin lateOne => \A m \in Marks : m.intent = intent <=> m.id = id
  <2>1. SUFFICES ASSUME intent \notin lateOne, NEW m \in Marks PROVE m.intent = intent <=> m.id = id
    OBVIOUS
  <2>2. m.intent = intent <=> m.id = saved.id
    BY <1>2, <2>1 DEF SavedIsCurrent
  <2>3. QED
    BY <1>1, <1>3, <1>6, <2>2
<1>15. IdsApart'
  <2>1. \A m, k \in Marks : /\ m.intent = k.intent /\ m.intent \notin lateOne => m.id = k.id
                            /\ m.id = k.id /\ m.intent \notin lateOne => m.intent = k.intent
    BY <1>2 DEF IdsApart
  <2>2. \A m \in Marks : /\ m.intent = q.intent /\ q.intent \notin lateOne => m.id = q.id
                         /\ m.id = q.id /\ q.intent \notin lateOne => m.intent = q.intent
    BY <1>14
  <2>3. \A m \in Marks : m.id = q.id /\ m.intent \notin lateOne => m.intent = q.intent
    <3>1. CASE saved.id = 0
      BY <1>3, <1>6, <3>1
    <3>2. CASE saved.id # 0
      BY <1>1, <1>2, <3>2 DEF SavedIsCurrent
    <3>3. QED
      BY <3>1, <3>2
  <2>4. lateOne' = lateOne
    BY <1>1
  <2> HIDE DEF q
  <2>5. QED
    <3>1. SUFFICES ASSUME NEW m \in Marks', NEW k \in Marks', m.intent \notin lateOne
                   PROVE  /\ m.intent = k.intent => m.id = k.id
                          /\ m.id = k.id => m.intent = k.intent
      BY <2>4 DEF IdsApart
    <3>2. (m \in Marks \/ m = q) /\ (k \in Marks \/ k = q)
      BY <1>4
    <3>3. CASE m \in Marks /\ k \in Marks
      BY <2>1, <3>1, <3>3
    <3>4. CASE m = q /\ k \in Marks
      BY <2>2, <3>1, <3>4
    <3>5. CASE m \in Marks /\ k = q
      BY <2>2, <2>3, <3>1, <3>5
    <3>6. CASE m = q /\ k = q
      BY <3>6
    <3>7. QED
      BY <3>2, <3>3, <3>4, <3>5, <3>6
<1>16. SavedIsCurrent'
  <2>1. \A m \in Marks : m.id = id => m.intent = intent \/ m.intent \in lateOne
    BY <1>1, <1>2, <1>3, <1>6 DEF SavedIsCurrent
  <2>2. QED
    BY <1>1, <1>4, <1>14, <2>1 DEF SavedIsCurrent
<1>17. QED
  BY <1>5, <1>9, <1>12, <1>13, <1>15, <1>16 DEF SettlingInv

\* What Answered does with an ID: given up unrecorded, nothing is left under it but for late ones.
LEMMA ReachKept ==
    ASSUME SettlingInv, Reach
    PROVE  SettlingInv'
<1>1. PICK request \in onWire, answer \in {"ok", "notRecorded", "refused"}, delivered \in BOOLEAN :
        /\ (\E r \in receipts : r.id = request.id /\ r.online = request.online) => answer \in {"ok", "refused"}
        /\ ~request.online => answer # "notRecorded"
        /\ \/ receipts' = receipts
           \/ /\ answer = "ok"
              /\ receipts' = receipts \cup {[id |-> request.id, intent |-> request.intent, online |-> request.online,
                                             by |-> request.by]}
        /\ onWire' = onWire \ {request}
        /\ IF delivered THEN \E w \in {v \in Windows : sending[v].n = request.n} : Answered(w, answer, request)
           ELSE UNCHANGED <<saved, sending, intent, lateOne>>
        /\ UNCHANGED <<online, sent, ids>>
  <2>1. PICK request \in onWire, answer \in {"ok", "notRecorded", "refused"}, delivered \in BOOLEAN :
        LET known == \E r \in receipts : r.id = request.id /\ r.online = request.online
            waiting == {w \in Windows : sending[w].n = request.n}
        IN  /\ known => answer \in {"ok", "refused"}
            /\ ~request.online => answer # "notRecorded"
            /\ delivered => waiting # {}
            /\ receipts' = (IF answer = "ok" /\ ~known
                            THEN receipts \cup {[id |-> request.id, intent |-> request.intent, online |-> request.online,
                                              by |-> request.by]}
                            ELSE receipts)
            /\ onWire' = onWire \ {request}
            /\ IF delivered THEN \E w \in waiting : Answered(w, answer, request)
                            ELSE UNCHANGED <<saved, sending, intent, lateOne>>
            /\ UNCHANGED <<online, sent, ids>>
    BY DEF Reach
  <2>2. QED
    BY <2>1
<1>2. SettlingTypes /\ RequestsKnown /\ ServersApart /\ FirstAlone /\ IdsApart /\ SavedIsCurrent
  BY DEF SettlingInv
<1> DEFINE receipt == [id |-> request.id, intent |-> request.intent, online |-> request.online, by |-> request.by]
<1>3. /\ request \in Marks /\ request.id \in 1 .. ids /\ request.intent \in 1 .. intent /\ request.online \in BOOLEAN
      /\ request.by \in Windows /\ ids \in Nat /\ sent \in Nat /\ intent \in Nat \ {0}
  BY <1>2 DEF SettlingTypes, Marks
<1>4. \A m \in Marks' : m \in Marks \/ m = receipt
  BY <1>1 DEF Marks
<1>5. \A m \in Marks : m.id \in 1 .. ids /\ m.intent \in 1 .. intent
  BY <1>2 DEF SettlingTypes, Marks
<1>6. \/ ~delivered /\ UNCHANGED <<saved, sending, intent, lateOne>>
      \/ delivered /\ sending[request.by].n = request.n /\ Answered(request.by, answer, request)
  <2>1. ASSUME delivered PROVE sending[request.by].n = request.n /\ Answered(request.by, answer, request)
    <3>1. PICK w \in Windows : sending[w].n = request.n /\ Answered(w, answer, request)
      BY <1>1, <2>1
    <3>2. w = request.by
      BY <1>2, <3>1 DEF RequestsKnown
    <3>3. QED
      BY <3>1, <3>2
  <2>2. QED
    BY <1>1, <2>1
<1>7. /\ saved' = saved \/ saved'.id = 0
      /\ sending' = sending \/ sending' = [sending EXCEPT ![request.by] = Idle]
      /\ intent' \in intent .. intent + 1
      /\ lateOne \subseteq lateOne'
  BY <1>3, <1>6 DEF Answered, NoPayment
<1>8. SettlingTypes'
  <2>1. ids' = ids /\ sent' = sent /\ online' = online /\ intent' \in Nat \ {0} /\ saved'.id \in 0 .. ids
    BY <1>1, <1>2, <1>3, <1>7 DEF SettlingTypes
  <2>2. sending' \in [Windows -> [id : Nat, retrying : BOOLEAN, n : 0 .. sent]]
    <3>1. Idle \in [id : Nat, retrying : BOOLEAN, n : 0 .. sent]
      BY <1>3 DEF Idle
    <3>2. QED
      BY <1>2, <1>3, <1>7, <3>1 DEF SettlingTypes
  <2>3. \A i \in 1 .. intent : i \in 1 .. intent'
    BY <1>3, <1>7
  <2>4. onWire' \subseteq [id : 1 .. ids, n : 1 .. sent, intent : 1 .. intent', online : BOOLEAN, by : Windows]
    <3>1. SUFFICES ASSUME NEW q \in onWire
                   PROVE  q \in [id : 1 .. ids, n : 1 .. sent, intent : 1 .. intent', online : BOOLEAN, by : Windows]
      BY <1>1
    <3>2. q \in [id : 1 .. ids, n : 1 .. sent, intent : 1 .. intent, online : BOOLEAN, by : Windows]
      BY <1>2 DEF SettlingTypes
    <3>3. QED
      BY <2>3, <3>2
  <2>5. receipts' \subseteq [id : 1 .. ids, intent : 1 .. intent', online : BOOLEAN, by : Windows]
    <3>1. SUFFICES ASSUME NEW r \in receipts'
                   PROVE  r \in [id : 1 .. ids, intent : 1 .. intent', online : BOOLEAN, by : Windows]
      OBVIOUS
    <3>2. r \in [id : 1 .. ids, intent : 1 .. intent, online : BOOLEAN, by : Windows]
      BY <1>1, <1>2, <1>3 DEF SettlingTypes
    <3>3. QED
      BY <2>3, <3>2
  <2>6. QED
    BY <1>2, <2>1, <2>2, <2>4, <2>5 DEF SettlingTypes
<1>9. \A p \in onWire' : Waits(p)' => Waits(p) /\ sending'[p.by] = sending[p.by]
  BY <1>1, <1>2, <1>3, <1>7 DEF SettlingTypes, Idle, Waits
<1>10. RequestsKnown'
  BY <1>1, <1>2, <1>3, <1>7 DEF RequestsKnown, SettlingTypes, Idle
<1>11. ServersApart'
  <2>1. online' = online /\ onWire' \subseteq onWire
    BY <1>1
  <2>2. \A m \in Marks' : \E k \in Marks : k.online = m.online /\ k.by = m.by
    BY <1>3, <1>4
  <2>3. QED
    BY <1>2, <1>9, <2>1, <2>2 DEF ServersApart
<1>12. FirstAlone'
  BY <1>1, <1>2, <1>9 DEF FirstAlone
<1>13. \A m \in Marks' : \E k \in Marks : k.id = m.id /\ k.intent = m.intent
  BY <1>3, <1>4
<1>14. IdsApart'
  <2>1. SUFFICES ASSUME NEW m \in Marks', NEW k \in Marks', m.intent \notin lateOne
                 PROVE  /\ m.intent = k.intent => m.id = k.id
                        /\ m.id = k.id => m.intent = k.intent
    BY <1>7 DEF IdsApart
  <2>2. PICK n \in Marks, l \in Marks : n.id = m.id /\ n.intent = m.intent /\ l.id = k.id /\ l.intent = k.intent
    BY <1>13
  <2>3. QED
    BY <1>2, <2>1, <2>2 DEF IdsApart
<1>15. SavedIsCurrent'
  <2>1. CASE ~delivered
    <3>1. UNCHANGED <<saved, intent, lateOne>>
      BY <1>6, <2>1
    <3>2. QED
      BY <1>2, <1>13, <3>1 DEF SavedIsCurrent
  <2>2. CASE delivered /\ intent' = intent
    <3>1. CASE saved' = saved
      BY <1>2, <1>7, <1>13, <2>2, <3>1 DEF SavedIsCurrent
    <3>2. CASE saved' # saved
      <4>1. /\ Forgets(answer, sending[request.by].retrying) /\ saved.id = request.id /\ saved'.id = 0
            /\ answer = "ok" => request.intent # intent
            /\ Waits(request)
        BY <1>3, <1>6, <2>2, <3>2 DEF Answered, NoPayment, Waits
      <4>2. SUFFICES ASSUME intent \notin lateOne' PROVE \A m \in Marks' : m.intent # intent
        BY <1>5, <1>13, <2>2, <4>1 DEF SavedIsCurrent
      <4>3. request.intent = intent /\ answer # "ok"
        BY <1>2, <1>3, <1>7, <4>1, <4>2 DEF SavedIsCurrent
      <4>4. /\ \A p \in onWire' : p.id # request.id
            /\ \A r \in receipts : r.id = request.id => r.by = request.by
        BY <1>1, <1>6, <2>2, <4>1, <4>2, <4>3 DEF Answered
      <4>5. \A r \in receipts : r.id # request.id
        <5>1. SUFFICES ASSUME NEW r \in receipts, r.id = request.id, r.by = request.by PROVE FALSE
          BY <4>4
        <5>2. CASE answer = "notRecorded"
          <6>1. request.online /\ r \in Marks
            BY <1>1, <1>3, <5>2 DEF Marks
          <6>2. r.online /\ r.online \in BOOLEAN
            BY <1>2, <4>1, <5>1, <6>1 DEF ServersApart, SettlingTypes
          <6>3. QED
            BY <1>1, <1>3, <5>1, <5>2, <6>1, <6>2
        <5>3. CASE answer = "refused"
          BY <1>2, <4>1, <5>1, <5>3 DEF FirstAlone, Forgets
        <5>4. QED
          BY <4>3, <5>2, <5>3
      <4>6. \A m \in Marks' : m.id # saved.id
        BY <1>1, <4>1, <4>3, <4>4, <4>5 DEF Marks
      <4>7. intent \notin lateOne
        BY <1>7, <4>2
      <4>8. QED
        BY <1>2, <1>13, <4>6, <4>7 DEF SavedIsCurrent
    <3>3. QED
      BY <3>1, <3>2
  <2>3. CASE delivered /\ intent' # intent
    <3>1. /\ answer = "ok" /\ request.intent = intent /\ intent' = intent + 1
          /\ saved.id = request.id => saved'.id = 0
          /\ saved.id \notin {0, request.id} => saved' = saved /\ intent + 1 \in lateOne'
      BY <1>3, <1>6, <2>3 DEF Answered, Forgets, NoPayment
    <3>2. saved'.id = 0 \/ (saved'.id = saved.id /\ saved.id \notin {0, request.id})
      <4>1. saved.id \in Nat /\ request.id \in Nat
        BY <1>2, <1>3 DEF SettlingTypes
      <4>2. saved' = saved => saved'.id = saved.id
        OBVIOUS
      <4>3. saved.id \notin {0, request.id} => saved'.id = saved.id
        BY <3>1
      <4>4. saved.id = 0 => saved'.id = 0
        BY <1>7, <4>2
      <4>5. saved.id = request.id => saved'.id = 0
        BY <3>1
      <4>6. QED
        BY <4>3, <4>4, <4>5
    <3>3. \A m \in Marks' : m.id \in 1 .. ids /\ m.intent \in 1 .. intent
      BY <1>5, <1>13
    <3>4. CASE saved'.id = 0
      BY <1>3, <3>1, <3>3, <3>4 DEF SavedIsCurrent
    <3>5. CASE saved'.id = saved.id /\ saved.id \notin {0, request.id}
      <4>1. intent' \in lateOne'
        BY <3>1, <3>5
      <4>2. \A m \in Marks : m.id = saved.id => m.intent \in lateOne
        BY <1>2, <1>3, <3>1, <3>5 DEF SavedIsCurrent
      <4>3. QED
        BY <1>7, <1>13, <3>5, <4>1, <4>2 DEF SavedIsCurrent
    <3>6. QED
      BY <3>2, <3>4, <3>5
  <2>4. QED
    BY <2>1, <2>2, <2>3
<1>16. QED
  BY <1>8, <1>10, <1>11, <1>12, <1>14, <1>15 DEF SettlingInv

LEMMA GiveUpKept ==
    ASSUME SettlingInv, NEW w \in Windows, GiveUpWaiting(w)
    PROVE  SettlingInv'
<1>1. SettlingTypes /\ RequestsKnown /\ ServersApart /\ FirstAlone /\ IdsApart /\ SavedIsCurrent
  BY DEF SettlingInv
<1>2. UNCHANGED <<online, saved, onWire, receipts, intent, sent, ids, lateOne>> /\ Marks' = Marks
  BY DEF GiveUpWaiting, Marks
<1>3. sending' = [sending EXCEPT ![w] = Idle]
  BY DEF GiveUpWaiting
<1>4. SettlingTypes' /\ RequestsKnown'
  BY <1>1, <1>2, <1>3 DEF SettlingTypes, RequestsKnown, Idle
<1>5. \A p \in onWire : Waits(p)' => Waits(p) /\ sending'[p.by] = sending[p.by]
  BY <1>1, <1>3 DEF SettlingTypes, Idle, Waits
<1>6. ServersApart' /\ FirstAlone'
  BY <1>1, <1>2, <1>5 DEF ServersApart, FirstAlone
<1>7. IdsApart' /\ SavedIsCurrent'
  BY <1>1, <1>2 DEF IdsApart, SavedIsCurrent
<1>8. QED
  BY <1>4, <1>6, <1>7 DEF SettlingInv

LEMMA SwitchKept ==
    ASSUME SettlingInv, SwitchServer
    PROVE  SettlingInv'
<1>1. SettlingTypes /\ RequestsKnown /\ ServersApart /\ FirstAlone /\ IdsApart /\ SavedIsCurrent
  BY DEF SettlingInv
<1>2. /\ UNCHANGED <<saved, onWire, sending, intent, sent, ids, lateOne>> /\ online' = ~online /\ online \in BOOLEAN
      /\ online => receipts' = receipts
      /\ ~online => (\A p \in onWire : p.online) /\ receipts' = {[r EXCEPT !.online = TRUE] : r \in receipts}
  BY <1>1 DEF SwitchServer, SettlingTypes
<1>3. SettlingTypes'
  <2>1. receipts' \subseteq [id : 1 .. ids, intent : 1 .. intent, online : BOOLEAN, by : Windows]
    <3>1. ASSUME NEW s \in receipts
          PROVE  [s EXCEPT !.online = TRUE] \in [id : 1 .. ids, intent : 1 .. intent, online : BOOLEAN, by : Windows]
      BY <1>1 DEF SettlingTypes
    <3>2. QED
      BY <1>1, <1>2, <3>1 DEF SettlingTypes
  <2>2. QED
    BY <1>1, <1>2, <2>1 DEF SettlingTypes
<1>4. \A r \in receipts' : \E s \in receipts : r.id = s.id /\ r.intent = s.intent /\ r.by = s.by /\ (s.online => r.online)
  <2>1. CASE online
    BY <1>2, <2>1
  <2>2. CASE ~online
    <3>1. SUFFICES ASSUME NEW s \in receipts, NEW r, r = [s EXCEPT !.online = TRUE]
                   PROVE  r.id = s.id /\ r.intent = s.intent /\ r.by = s.by /\ r.online
      BY <1>2, <2>2
    <3>2. s \in [id : 1 .. ids, intent : 1 .. intent, online : BOOLEAN, by : Windows]
      BY <1>1 DEF SettlingTypes
    <3>3. QED
      BY <3>1, <3>2
  <2>3. QED
    BY <2>1, <2>2
<1>5. \A m \in Marks' : \E k \in Marks : m.id = k.id /\ m.intent = k.intent /\ m.by = k.by /\ (k.online => m.online)
  BY <1>2, <1>4 DEF Marks
<1>6. RequestsKnown' /\ FirstAlone'
  BY <1>1, <1>2, <1>4 DEF RequestsKnown, FirstAlone, Waits
<1>7. ServersApart'
  <2>1. ~online => \A m \in Marks' : m.online
    <3>1. SUFFICES ASSUME ~online, NEW r \in receipts' PROVE r.online
      BY <1>2 DEF Marks
    <3>2. PICK s \in receipts : r = [s EXCEPT !.online = TRUE]
      BY <1>2, <3>1
    <3>3. s \in [id : 1 .. ids, intent : 1 .. intent, online : BOOLEAN, by : Windows]
      BY <1>1 DEF SettlingTypes
    <3>4. QED
      BY <3>2, <3>3
  <2>2. \A q \in onWire, m \in Marks' : q.online /\ Waits(q) /\ m.by = q.by => m.online
    BY <1>1, <1>5 DEF ServersApart
  <2>3. QED
    BY <1>2, <2>1, <2>2 DEF ServersApart, Waits
<1>8. IdsApart'
  <2>1. SUFFICES ASSUME NEW m \in Marks', NEW k \in Marks', m.intent \notin lateOne
                 PROVE  /\ m.intent = k.intent => m.id = k.id
                        /\ m.id = k.id => m.intent = k.intent
    BY <1>2 DEF IdsApart
  <2>2. PICK n \in Marks, l \in Marks : n.id = m.id /\ n.intent = m.intent /\ l.id = k.id /\ l.intent = k.intent
    BY <1>5
  <2>3. QED
    BY <1>1, <2>1, <2>2 DEF IdsApart
<1>9. SavedIsCurrent'
  BY <1>1, <1>2, <1>5 DEF SavedIsCurrent
<1>10. QED
  BY <1>3, <1>6, <1>7, <1>8, <1>9 DEF SettlingInv

\* A payment is recorded under one ID however often it is sent, from whichever tab and to
\* whichever server (pendingSettlement.ts, useSettlement.ts), for every number of tabs, payments
\* and requests, but for the payments whose ID was given up or taken over.
THEOREM PaymentRecordedOnceHolds == SettlingSpec => []PaymentRecordedOnce
<1>1. ASSUME SettlingInv, [SettlingNext]_settlingVars PROVE SettlingInv'
  <2>1. CASE SettlingNext
    BY <1>1, <2>1, ReachKept, SwitchKept, SendKept, GiveUpKept DEF SettlingNext
  <2>2. CASE UNCHANGED settlingVars
    BY <1>1, <2>2 DEF settlingVars, SettlingInv, SettlingTypes, RequestsKnown, ServersApart, FirstAlone, IdsApart,
        SavedIsCurrent, Marks, Waits
  <2>3. QED
    BY <1>1, <2>1, <2>2
<1>2. ASSUME SettlingInv PROVE PaymentRecordedOnce
  <2>1. SUFFICES ASSUME NEW i \in 1 .. MaxPayments, i \notin lateOne
                 PROVE  Cardinality({r.id : r \in {q \in receipts : q.intent = i}}) <= 1
    BY DEF PaymentRecordedOnce
  <2> DEFINE used == {r.id : r \in {q \in receipts : q.intent = i}}
  <2>2. \A a, b \in used : a = b
    BY <1>2, <2>1 DEF SettlingInv, IdsApart, Marks
  <2> HIDE DEF used
  <2>3. Cardinality(used) <= 1
    <3>1. CASE used = {}
      BY <3>1, FS_EmptySet
    <3>2. CASE used # {}
      <4>1. PICK a \in used : used = {a}
        BY <2>2, <3>2
      <4>2. QED
        BY <4>1, FS_Singleton
    <3>3. QED
      BY <3>1, <3>2
  <2>4. QED
    BY <2>3 DEF used
<1>3. QED
  BY <1>1, <1>2, SettlingStarts, PTL DEF SettlingSpec

(***************************************************************************)
(* The registers (Registers).                                              *)
(***************************************************************************)


\* Two requests that may not both have their locks: two that hold the branch,
\* or one that closes a register and another that closes it or moves its cash.
HoldsBranch(q) == q.op \in {"open", "turn"} /\ q.locked

Shuts(q, p) == q.op = "close" /\ p.op \in Moves \cup {"close"} /\ p.register = q.register

Exclude(q, p) == (HoldsBranch(q) /\ HoldsBranch(p)) \/ Shuts(q, p) \/ Shuts(p, q)

LocksHold ==
  \A r, s \in Calls : r # s => ~Exclude(requests[r], requests[s])

\* What a request to open a register saw is still so.
OpenSeen(q) ==
  q.op = "open" => active[q.counter] /\ OpenOf(q.user) = {} /\ OpenOn(q.counter) = {}

\* So is what one that turns a counter off saw, if it saw it on.
TurnSeen(q) ==
  q.op = "turn" /\ q.locked => MayTurn(q)

\* A register being closed is open, with the cash that was counted.
CloseSeen(q) ==
  q.op = "close" => Open(q.register) /\ registers[q.register].cash = q.cash

\* A register whose cash moves is open, and holds what is to be taken from it,
\* unless someone else took it.
MoveSeen(q) ==
  q.op \in Moves =>
    /\ Open(q.register)
    /\ q.op \in {"out", "expense"} =>
         q.register \in unheld \/ DrawerHolds(q.register, q.amount)

RequestsSound ==
  \A r \in Calls : LET q == requests[r]
                      IN OpenSeen(q) /\ TurnSeen(q) /\ CloseSeen(q) /\ MoveSeen(q)

Sound ==
  /\ LocksHold /\ RequestsSound
  /\ OneRegisterEach /\ CountersHoldUnlessStale /\ ClosedCashStands /\ ShortOnlyUnheld

IInv == RegistersTypes /\ Sound

-----------------------------------------------------------------------------
\* What a request of each kind carries.
LEMMA Forms ==
  ASSUME RegistersAssumption, NEW q \in CallForms
  PROVE  /\ q.op = "open" => q.user \in Users /\ q.counter \in Counters /\ q.locked
         /\ q.op = "turn" => /\ q.counter \in Counters /\ q.on \in BOOLEAN
                             /\ q.saw \in BOOLEAN /\ q.locked \in BOOLEAN
         /\ q.op = "close" => /\ q.register \in Registers /\ q.locked
                              /\ q.cash \in -MaxCash .. MaxCash
         /\ q.op \in Moves => q.register \in Registers /\ q.amount \in 1 .. MaxCash /\ q.locked
         /\ q # NoCall => q.op \in {"open", "turn", "close"} \cup Moves
<1>1. CASE q = NoCall
  BY <1>1 DEF NoCall, Moves
<1>2. CASE q \in [op : {"open"}, user : Users, counter : Counters, locked : {TRUE}]
  BY <1>2 DEF Moves
<1>3. CASE q \in [op : {"turn"}, counter : Counters, on : BOOLEAN, saw : BOOLEAN, locked : BOOLEAN]
  BY <1>3 DEF Moves
<1>4. CASE q \in [op : {"close"}, register : Registers, cash : -MaxCash .. MaxCash, locked : {TRUE}]
  BY <1>4 DEF Moves
<1>5. CASE q \in [op : Moves, register : Registers, amount : 1 .. MaxCash, locked : {TRUE}]
  BY <1>5 DEF Moves
<1>6. QED
  BY <1>1, <1>2, <1>3, <1>4, <1>5 DEF CallForms

\* What a register's row carries.
LEMMA Rows ==
  ASSUME RegistersAssumption, RegistersTypes, NEW g \in Registers
  PROVE  /\ registers[g] \in RegisterRows \/ registers[g] = NoRegister
         /\ Open(g) \in BOOLEAN
         /\ registers[g].cash \in -MaxCash .. MaxCash
         /\ registers[g].expenses \in 0 .. MaxCash
         /\ Open(g) => registers[g] \in RegisterRows
<1>1. registers[g] \in RegisterRows \/ registers[g] = NoRegister
  BY DEF RegistersTypes
<1>2. CASE registers[g] \in RegisterRows
  BY <1>2 DEF RegisterRows, Open
<1>3. CASE registers[g] = NoRegister
  BY <1>3 DEF NoRegister, Open, RegistersAssumption
<1>4. QED
  BY <1>1, <1>2, <1>3

\* What a request holds keeps the others out.
LEMMA OneRequestWritten ==
  ASSUME RegistersTypes, LocksHold, NEW r \in Calls, NEW q \in CallForms,
         requests' = [requests EXCEPT ![r] = q],
         \A s \in Calls \ {r} : ~Exclude(q, requests[s])
  PROVE  /\ requests' \in [Calls -> CallForms]
         /\ \A s \in Calls : requests'[s] = IF s = r THEN q ELSE requests[s]
         /\ LocksHold'
<1>1. requests' \in [Calls -> CallForms]
  BY DEF RegistersTypes
<1>2. \A s \in Calls : requests'[s] = IF s = r THEN q ELSE requests[s]
  BY DEF RegistersTypes
<1>3. \A s, t \in Calls : s # t => ~Exclude(requests'[s], requests'[t])
  BY <1>2 DEF LocksHold, Exclude
<1>4. QED
  BY <1>1, <1>2, <1>3 DEF LocksHold, Exclude, HoldsBranch, Shuts

\* A request is over: the locks it held are free.
LEMMA DoneFrees ==
  ASSUME RegistersTypes, LocksHold, NEW r \in Calls, Done(r)
  PROVE  /\ requests' \in [Calls -> CallForms]
         /\ \A s \in Calls : requests'[s] = IF s = r THEN NoCall ELSE requests[s]
         /\ LocksHold'
<1>1. NoCall \in CallForms
  BY DEF CallForms
<1>2. requests' = [requests EXCEPT ![r] = NoCall]
  BY DEF Done
<1>3. \A s \in Calls : ~Exclude(NoCall, requests[s])
  BY DEF Exclude, HoldsBranch, Shuts, NoCall, Moves
<1>4. QED
  BY <1>1, <1>2, <1>3, OneRequestWritten

\* What a request saw, once it is over, is nothing.
LEMMA IdleSound == OpenSeen(NoCall) /\ TurnSeen(NoCall) /\ CloseSeen(NoCall) /\ MoveSeen(NoCall)
BY DEF OpenSeen, TurnSeen, CloseSeen, MoveSeen, NoCall, Moves

-----------------------------------------------------------------------------
\* A request takes its locks when no one has any that exclude them, with what
\* it saw under them; the rows stay.
LEMMA LockedKeeps ==
  ASSUME IInv, NEW r \in Calls, NEW q \in CallForms,
         requests' = [requests EXCEPT ![r] = q],
         UNCHANGED <<active, registers, stale, unheld>>,
         \A s \in Calls \ {r} : ~Exclude(q, requests[s]),
         OpenSeen(q), TurnSeen(q), CloseSeen(q), MoveSeen(q)
  PROVE  IInv'
<1>1. RegistersTypes /\ LocksHold /\ RequestsSound
  BY DEF IInv, Sound
<1>2. /\ requests' \in [Calls -> CallForms]
      /\ \A s \in Calls : requests'[s] = IF s = r THEN q ELSE requests[s]
      /\ LocksHold'
  BY <1>1, OneRequestWritten
<1>3. RegistersTypes'
  BY <1>1, <1>2 DEF RegistersTypes
<1>4. ASSUME NEW s \in Calls
      PROVE  /\ OpenSeen(requests[s])' /\ TurnSeen(requests[s])'
             /\ CloseSeen(requests[s])' /\ MoveSeen(requests[s])'
  <2>1. /\ OpenSeen(requests'[s]) /\ TurnSeen(requests'[s])
        /\ CloseSeen(requests'[s]) /\ MoveSeen(requests'[s])
    BY <1>1, <1>2 DEF RequestsSound
  <2>2. active' = active /\ registers' = registers /\ unheld' = unheld
    OBVIOUS
  <2>3. QED
    BY <2>1, <2>2 DEF OpenSeen, TurnSeen, CloseSeen, MoveSeen, MayTurn, DrawerHolds,
                      Open, OpenOf, OpenOn
<1>5. OneRegisterEach' /\ CountersHoldUnlessStale' /\ ClosedCashStands' /\ ShortOnlyUnheld'
  BY DEF IInv, Sound, OneRegisterEach, CountersHoldUnlessStale, OpenOnActiveCounter,
         ClosedCashStands, ShortOnlyUnheld, Open
<1>6. QED
  BY <1>2, <1>3, <1>4, <1>5 DEF IInv, Sound, RequestsSound

\* A request that is refused leaves everything but its locks.
LEMMA AbortKeeps == ASSUME IInv, NEW r \in Calls, Abort(r) PROVE IInv'
<1>1. NoCall \in CallForms /\ \A s \in Calls : ~Exclude(NoCall, requests[s])
  BY DEF CallForms, Exclude, HoldsBranch, Shuts, NoCall, Moves
<1>2. requests' = [requests EXCEPT ![r] = NoCall] /\ UNCHANGED <<active, registers, stale, unheld>>
  BY DEF Abort, Done
<1>3. QED
  BY <1>1, <1>2, IdleSound, LockedKeeps

-----------------------------------------------------------------------------
(* Each operation keeps the invariant.                                     *)

LEMMA LockToOpenKeeps ==
  ASSUME IInv, NEW r \in Calls, NEW u \in Users, NEW c \in Counters, LockToOpen(r, u, c)
  PROVE  IInv'
<1> DEFINE q == [op |-> "open", user |-> u, counter |-> c, locked |-> TRUE]
<1>1. q \in CallForms
  BY DEF CallForms
<1>2. requests' = [requests EXCEPT ![r] = q] /\ UNCHANGED <<active, registers, stale, unheld>>
  BY DEF LockToOpen, Begins
<1>3. \A s \in Calls : ~HoldsBranch(requests[s])
  BY DEF LockToOpen, BranchFree, BranchHolders, HoldsBranch, Locked, NoCall
<1>4. \A s \in Calls \ {r} : ~Exclude(q, requests[s])
  BY <1>3 DEF Exclude, Shuts, Moves
<1>5. OpenSeen(q) /\ TurnSeen(q) /\ CloseSeen(q) /\ MoveSeen(q)
  BY DEF LockToOpen, MayOpen, OpenSeen, TurnSeen, CloseSeen, MoveSeen, Moves
<1>6. QED
  BY <1>1, <1>2, <1>4, <1>5, LockedKeeps

LEMMA ReadCounterKeeps ==
  ASSUME IInv, NEW r \in Calls, NEW c \in Counters, NEW on \in BOOLEAN, ReadCounter(r, c, on)
  PROVE  IInv'
<1> DEFINE q == [op |-> "turn", counter |-> c, on |-> on, saw |-> active[c], locked |-> FALSE]
<1>1. q \in CallForms
  <2>1. active[c] \in BOOLEAN
    BY DEF IInv, RegistersTypes
  <2>2. QED
    BY <2>1 DEF CallForms
<1>2. requests' = [requests EXCEPT ![r] = q] /\ UNCHANGED <<active, registers, stale, unheld>>
  BY DEF ReadCounter, Begins
<1>3. q.op = "turn" /\ q.locked = FALSE
  OBVIOUS
<1>4. \A s \in Calls \ {r} : ~Exclude(q, requests[s])
  BY <1>3 DEF Exclude, HoldsBranch, Shuts, Moves
<1>5. OpenSeen(q) /\ TurnSeen(q) /\ CloseSeen(q) /\ MoveSeen(q)
  BY <1>3 DEF OpenSeen, TurnSeen, CloseSeen, MoveSeen, Moves
<1>6. QED
  BY <1>1, <1>2, <1>4, <1>5, LockedKeeps

LEMMA LockToTurnKeeps ==
  ASSUME RegistersAssumption, IInv, NEW r \in Calls, LockToTurn(r)
  PROVE  IInv'
<1> DEFINE q == [requests[r] EXCEPT !.locked = TRUE]
<1>1. requests[r] \in CallForms /\ requests[r].op = "turn"
  BY DEF IInv, RegistersTypes, LockToTurn
<1>2. requests[r] \in [op : {"turn"}, counter : Counters, on : BOOLEAN, saw : BOOLEAN, locked : BOOLEAN]
  <2>1. requests[r] # NoCall
    BY <1>1 DEF NoCall
  <2>2. requests[r] \notin [op : {"open"}, user : Users, counter : Counters, locked : {TRUE}]
    BY <1>1
  <2>3. requests[r] \notin [op : {"close"}, register : Registers, cash : -MaxCash .. MaxCash,
                            locked : {TRUE}]
    BY <1>1
  <2>4. requests[r] \notin [op : Moves, register : Registers, amount : 1 .. MaxCash, locked : {TRUE}]
    BY <1>1 DEF Moves
  <2>5. QED
    BY <1>1, <2>1, <2>2, <2>3, <2>4 DEF CallForms
<1>3. q \in [op : {"turn"}, counter : Counters, on : BOOLEAN, saw : BOOLEAN, locked : BOOLEAN]
  BY <1>2
<1>4. q \in CallForms
  BY <1>3 DEF CallForms
<1>5. requests' = [requests EXCEPT ![r] = q] /\ UNCHANGED <<active, registers, stale, unheld>>
  BY DEF LockToTurn
<1>6. \A s \in Calls : ~HoldsBranch(requests[s])
  BY DEF LockToTurn, BranchFree, BranchHolders, HoldsBranch, Locked, NoCall
<1>7. \A s \in Calls \ {r} : ~Exclude(q, requests[s])
  BY <1>3, <1>6 DEF Exclude, Shuts, Moves
<1>8. MayTurn(q)
  <2>1. q.on = requests[r].on /\ q.saw = requests[r].saw /\ q.counter = requests[r].counter
    BY <1>2
  <2>2. QED
    BY <2>1 DEF LockToTurn, MayTurn
<1>9. OpenSeen(q) /\ TurnSeen(q) /\ CloseSeen(q) /\ MoveSeen(q)
  BY <1>3, <1>8 DEF OpenSeen, TurnSeen, CloseSeen, MoveSeen, Moves
<1>10. QED
  BY <1>4, <1>5, <1>7, <1>9, LockedKeeps

LEMMA ShareRegisterKeeps ==
  ASSUME RegistersAssumption, IInv, NEW r \in Calls, NEW op \in Moves, NEW g \in Registers,
         NEW amount \in 1 .. MaxCash, ShareRegister(r, op, g, amount)
  PROVE  IInv'
<1> DEFINE q == [op |-> op, register |-> g, amount |-> amount, locked |-> TRUE]
<1>1. q \in CallForms
  BY DEF CallForms
<1>2. requests' = [requests EXCEPT ![r] = q] /\ UNCHANGED <<active, registers, stale, unheld>>
  BY DEF ShareRegister, Begins
<1>3. \A s \in Calls : ~(requests[s].op = "close" /\ requests[s].register = g)
  <2>1. \A s \in Calls : requests[s].op = "close" => Locked(s)
    BY Forms DEF IInv, RegistersTypes, Locked, NoCall
  <2>2. QED
    BY <2>1 DEF ShareRegister, MayShare, Closing
<1>4. \A s \in Calls \ {r} : ~Exclude(q, requests[s])
  BY <1>3 DEF Exclude, HoldsBranch, Shuts, Moves
<1>5. Open(g) /\ (op \in {"out", "expense"} => DrawerHolds(g, amount))
  BY DEF ShareRegister, MayShare
<1>6. OpenSeen(q) /\ TurnSeen(q) /\ CloseSeen(q) /\ MoveSeen(q)
  BY <1>5 DEF OpenSeen, TurnSeen, CloseSeen, MoveSeen, Moves
<1>7. QED
  BY <1>1, <1>2, <1>4, <1>6, LockedKeeps

LEMMA CountCashKeeps ==
  ASSUME RegistersAssumption, IInv, NEW r \in Calls, NEW g \in Registers, CountCash(r, g)
  PROVE  IInv'
<1> DEFINE q == [op |-> "close", register |-> g, cash |-> registers[g].cash, locked |-> TRUE]
<1>1. q \in CallForms
  <2>1. registers[g].cash \in -MaxCash .. MaxCash
    BY Rows DEF IInv
  <2>2. QED
    BY <2>1 DEF CallForms
<1>2. requests' = [requests EXCEPT ![r] = q] /\ UNCHANGED <<active, registers, stale, unheld>>
  BY DEF CountCash, Begins
<1>3. \A s \in Calls : requests[s].op \in Moves \cup {"close"} => requests[s].register # g
  <2>1. \A s \in Calls : requests[s].op \in Moves \cup {"close"} => Locked(s)
    BY Forms DEF IInv, RegistersTypes, Locked, NoCall, Moves
  <2>2. QED
    BY <2>1 DEF CountCash, MayClose, Closing, Sharing
<1>4. \A s \in Calls \ {r} : ~Exclude(q, requests[s])
  BY <1>3 DEF Exclude, HoldsBranch, Shuts, Moves
<1>5. OpenSeen(q) /\ TurnSeen(q) /\ CloseSeen(q) /\ MoveSeen(q)
  BY DEF CountCash, MayClose, OpenSeen, TurnSeen, CloseSeen, MoveSeen, Moves
<1>6. QED
  BY <1>1, <1>2, <1>4, <1>5, LockedKeeps

LEMMA OpenRegisterKeeps ==
  ASSUME RegistersAssumption, IInv, NEW r \in Calls, OpenRegister(r)
  PROVE  IInv'
<1> DEFINE q == requests[r]
<1>1. RegistersTypes /\ LocksHold /\ RequestsSound
  BY DEF IInv, Sound
<1>2. q.op = "open" /\ q.locked /\ q.user \in Users /\ q.counter \in Counters
  BY <1>1, Forms DEF OpenRegister, RegistersTypes
<1>3. PICK g \in Registers, opening \in 0 .. MaxCash :
        /\ registers[g] = NoRegister
        /\ registers' = [registers EXCEPT ![g] =
             [user |-> q.user, counter |-> q.counter, open |-> TRUE,
              cash |-> opening, expenses |-> 0, expected |-> 0]]
  BY DEF OpenRegister
<1> DEFINE row == [user |-> q.user, counter |-> q.counter, open |-> TRUE,
                   cash |-> opening, expenses |-> 0, expected |-> 0]
<1>4. row \in RegisterRows /\ row # NoRegister
  BY <1>2 DEF RegisterRows, RegistersAssumption, NoRegister
<1>5. registers' = [registers EXCEPT ![g] = row]
  BY <1>3
<1>6. \A h \in Registers : registers'[h] = IF h = g THEN row ELSE registers[h]
  BY <1>1, <1>5 DEF RegistersTypes
<1>7. active' = active /\ stale' = stale /\ unheld' = unheld /\ Done(r)
  BY DEF OpenRegister
<1>8. /\ requests' \in [Calls -> CallForms]
      /\ \A s \in Calls : requests'[s] = IF s = r THEN NoCall ELSE requests[s]
      /\ LocksHold'
  BY <1>1, <1>7, DoneFrees
<1>9. RegistersTypes'
  BY <1>1, <1>4, <1>5, <1>7, <1>8 DEF RegistersTypes
\* What it saw: nobody has the counter or another register open.
<1>10. \A h \in Registers : registers[h].open =>
         registers[h].user # q.user /\ registers[h].counter # q.counter
  BY <1>1, <1>2 DEF RequestsSound, OpenSeen, OpenOf, OpenOn, Open
<1>11. active[q.counter]
  BY <1>1, <1>2 DEF RequestsSound, OpenSeen
<1>12. ~Open(g)
  BY <1>3 DEF Open, NoRegister
<1>13. RequestsSound'
  <2> SUFFICES ASSUME NEW s \in Calls
               PROVE  /\ OpenSeen(requests[s])' /\ TurnSeen(requests[s])'
                      /\ CloseSeen(requests[s])' /\ MoveSeen(requests[s])'
    BY DEF RequestsSound
  <2>1. CASE s = r
    BY <1>8, <2>1 DEF OpenSeen, TurnSeen, CloseSeen, MoveSeen, NoCall, Moves
  <2>2. CASE s # r
    <3>1. requests'[s] = requests[s] /\ requests[s] \in CallForms
      BY <1>1, <1>8, <2>2 DEF RegistersTypes
    <3>2. ~HoldsBranch(requests[s])
      BY <1>1, <1>2, <2>2 DEF LocksHold, Exclude, HoldsBranch
    <3>3. OpenSeen(requests[s])' /\ TurnSeen(requests[s])'
      BY <3>1, <3>2, Forms DEF OpenSeen, TurnSeen, HoldsBranch
    <3>4. OpenSeen(requests[s]) /\ CloseSeen(requests[s]) /\ MoveSeen(requests[s])
      BY <1>1 DEF RequestsSound
    <3>5. CloseSeen(requests[s])'
      <4> SUFFICES ASSUME requests[s].op = "close"
                   PROVE  Open(requests[s].register)' /\ registers'[requests[s].register].cash = requests[s].cash
        BY <3>1 DEF CloseSeen
      <4>1. /\ requests[s].register \in Registers /\ Open(requests[s].register)
            /\ registers[requests[s].register].cash = requests[s].cash
        BY <3>1, <3>4, Forms DEF CloseSeen
      <4>2. requests[s].register # g
        BY <1>12, <4>1
      <4>3. QED
        BY <1>6, <3>1, <4>1, <4>2 DEF Open
    <3>6. MoveSeen(requests[s])'
      <4> SUFFICES ASSUME requests[s].op \in Moves
                   PROVE  /\ registers'[requests[s].register].open
                          /\ requests[s].op \in {"out", "expense"} =>
                               \/ requests[s].register \in unheld'
                               \/ requests[s].amount <= registers'[requests[s].register].cash
        BY <3>1 DEF MoveSeen, DrawerHolds, Open
      <4>1. /\ requests[s].register \in Registers /\ Open(requests[s].register)
            /\ requests[s].op \in {"out", "expense"} =>
                 \/ requests[s].register \in unheld
                 \/ requests[s].amount <= registers[requests[s].register].cash
        BY <3>1, <3>4, Forms DEF MoveSeen, DrawerHolds
      <4>2. requests[s].register # g
        BY <1>12, <4>1
      <4>3. QED
        BY <1>6, <1>7, <4>1, <4>2 DEF Open
    <3>7. QED
      BY <3>3, <3>5, <3>6
  <2>3. QED
    BY <2>1, <2>2
<1>14. OneRegisterEach'
  BY <1>6, <1>10 DEF IInv, Sound, OneRegisterEach, Open
<1>15. CountersHoldUnlessStale'
  BY <1>6, <1>7, <1>11 DEF IInv, Sound, CountersHoldUnlessStale, OpenOnActiveCounter, Open
<1>16. ClosedCashStands'
  BY <1>6 DEF IInv, Sound, ClosedCashStands, Open
<1>17. ShortOnlyUnheld'
  BY <1>6, <1>7, RegistersAssumption DEF IInv, Sound, ShortOnlyUnheld, RegistersAssumption
<1>18. QED
  BY <1>8, <1>9, <1>13, <1>14, <1>15, <1>16, <1>17 DEF IInv, Sound


LEMMA UpdateCounterKeeps ==
  ASSUME RegistersAssumption, IInv, NEW r \in Calls, UpdateCounter(r)
  PROVE  IInv'
<1> DEFINE q == requests[r]
<1>1. RegistersTypes /\ LocksHold /\ RequestsSound
  BY DEF IInv, Sound
<1>2. /\ q.op = "turn" /\ q.locked /\ q.counter \in Counters /\ q.on \in BOOLEAN
      /\ q.saw \in BOOLEAN
  BY <1>1, Forms DEF UpdateCounter, RegistersTypes, Locked
<1>3. /\ active' = [active EXCEPT ![q.counter] = q.on]
      /\ stale' = (stale \/ (~q.on /\ ~q.saw /\ active[q.counter]))
      /\ registers' = registers /\ unheld' = unheld /\ Done(r)
  BY DEF UpdateCounter
<1>4. /\ requests' \in [Calls -> CallForms]
      /\ \A s \in Calls : requests'[s] = IF s = r THEN NoCall ELSE requests[s]
      /\ LocksHold'
  BY <1>1, <1>3, DoneFrees
<1>5. stale' \in BOOLEAN
  BY <1>3
<1>6. RegistersTypes'
  BY <1>1, <1>2, <1>3, <1>4, <1>5 DEF RegistersTypes
<1>7. RequestsSound'
  <2> SUFFICES ASSUME NEW s \in Calls
               PROVE  /\ OpenSeen(requests[s])' /\ TurnSeen(requests[s])'
                      /\ CloseSeen(requests[s])' /\ MoveSeen(requests[s])'
    BY DEF RequestsSound
  <2>1. CASE s = r
    BY <1>4, <2>1 DEF OpenSeen, TurnSeen, CloseSeen, MoveSeen, NoCall, Moves
  <2>2. CASE s # r
    <3>1. requests'[s] = requests[s] /\ requests[s] \in CallForms
      BY <1>1, <1>4, <2>2 DEF RegistersTypes
    <3>2. ~HoldsBranch(requests[s])
      BY <1>1, <1>2, <2>2 DEF LocksHold, Exclude, HoldsBranch
    <3>3. OpenSeen(requests[s])' /\ TurnSeen(requests[s])'
      BY <3>1, <3>2, Forms DEF OpenSeen, TurnSeen, HoldsBranch
    <3>4. CloseSeen(requests[s]) /\ MoveSeen(requests[s])
      BY <1>1 DEF RequestsSound
    <3>5. CloseSeen(requests[s])' /\ MoveSeen(requests[s])'
      BY <1>3, <3>1, <3>4 DEF CloseSeen, MoveSeen, Open, DrawerHolds
    <3>6. QED
      BY <3>3, <3>5
  <2>3. QED
    BY <2>1, <2>2
<1>8. CountersHoldUnlessStale'
  <2> SUFFICES ASSUME ~stale'
               PROVE  /\ \A g \in Registers : registers[g].open => active'[registers[g].counter]
                      /\ \E c \in Counters : active'[c]
    BY <1>3 DEF CountersHoldUnlessStale, OpenOnActiveCounter, Open
  <2>1. /\ \A g \in Registers : registers[g].open => active[registers[g].counter]
        /\ \E c \in Counters : active[c]
    BY <1>3 DEF IInv, Sound, CountersHoldUnlessStale, OpenOnActiveCounter, Open
  <2>2. \A c \in Counters : active'[c] = IF c = q.counter THEN q.on ELSE active[c]
    BY <1>1, <1>3 DEF RegistersTypes
  <2>3. \A g \in Registers : registers[g].open => registers[g].counter \in Counters
    BY <1>1, Rows DEF Open, RegisterRows
  <2>4. CASE q.on
    BY <1>2, <2>1, <2>2, <2>3, <2>4
  <2>5. CASE ~q.on /\ q.saw
    <3>1. OpenOn(q.counter) = {} /\ \E c \in Counters \ {q.counter} : active[c]
      BY <1>1, <1>2, <2>5 DEF RequestsSound, TurnSeen, MayTurn
    <3>2. \A g \in Registers : registers[g].open => registers[g].counter # q.counter
      BY <3>1 DEF OpenOn, Open
    <3>3. QED
      BY <2>1, <2>2, <2>3, <3>1, <3>2
  <2>6. CASE ~q.on /\ ~q.saw
    <3>1. ~active[q.counter]
      BY <1>3, <2>6
    <3>2. QED
      BY <2>1, <2>2, <2>3, <2>6, <3>1
  <2>7. QED
    BY <2>4, <2>5, <2>6
<1>9. OneRegisterEach' /\ ClosedCashStands' /\ ShortOnlyUnheld'
  BY <1>3 DEF IInv, Sound, OneRegisterEach, ClosedCashStands, ShortOnlyUnheld, Open
<1>10. QED
  BY <1>4, <1>6, <1>7, <1>8, <1>9 DEF IInv, Sound

LEMMA MoveCashKeeps ==
  ASSUME RegistersAssumption, IInv, NEW r \in Calls, MoveCash(r)
  PROVE  IInv'
<1> DEFINE q == requests[r]
           g == q.register
           after == registers[g].cash + Change(q)
           spent == registers[g].expenses + (CASE q.op = "expense" -> q.amount
                                               [] q.op = "remove" -> -q.amount
                                               [] OTHER -> 0)
           row == [registers[g] EXCEPT !.cash = after, !.expenses = spent]
<1>1. RegistersTypes /\ LocksHold /\ RequestsSound
  BY DEF IInv, Sound
<1>2. q.op \in Moves /\ g \in Registers /\ q.amount \in 1 .. MaxCash
  BY <1>1, Forms DEF MoveCash, RegistersTypes
<1>3. /\ after \in -MaxCash .. MaxCash /\ spent \in 0 .. MaxCash
      /\ registers' = [registers EXCEPT ![g].cash = after, ![g].expenses = spent]
      /\ unheld' = IF \/ q.op \in {"out", "expense", "give"} /\ Taking(g, r) # {}
                      \/ q.op = "give" /\ after < 0
                   THEN unheld \union {g} ELSE unheld
      /\ Done(r) /\ active' = active /\ stale' = stale
  BY DEF MoveCash
<1>4. Open(g) /\ registers[g] \in RegisterRows
  BY <1>1, <1>2, Rows DEF RequestsSound, MoveSeen
<1>5. /\ row \in RegisterRows /\ row.open = registers[g].open
      /\ row.user = registers[g].user /\ row.counter = registers[g].counter
      /\ row.cash = after
  BY <1>3, <1>4 DEF RegisterRows
<1>6. registers' = [registers EXCEPT ![g] = row]
  BY <1>1, <1>2, <1>3 DEF RegistersTypes
<1>7. \A h \in Registers : registers'[h] = IF h = g THEN row ELSE registers[h]
  BY <1>1, <1>6 DEF RegistersTypes
<1>8. /\ requests' \in [Calls -> CallForms]
      /\ \A s \in Calls : requests'[s] = IF s = r THEN NoCall ELSE requests[s]
      /\ LocksHold'
  BY <1>1, <1>3, DoneFrees
<1>9. unheld' \subseteq Registers /\ unheld \subseteq unheld'
  BY <1>1, <1>2, <1>3 DEF RegistersTypes
<1>10. RegistersTypes'
  <2>1. registers' \in [Registers -> RegisterRows \cup {NoRegister}]
    BY <1>1, <1>2, <1>5, <1>6 DEF RegistersTypes
  <2>2. active' \in [Counters -> BOOLEAN] /\ stale' \in BOOLEAN
    BY <1>1, <1>3 DEF RegistersTypes
  <2>3. QED
    BY <1>8, <1>9, <2>1, <2>2 DEF RegistersTypes
<1>11. \A h \in Registers : /\ registers'[h].open = registers[h].open
                            /\ registers'[h].user = registers[h].user
                            /\ registers'[h].counter = registers[h].counter
  BY <1>5, <1>7
\* What is in the drawer afterwards.
<1>12. after = IF q.op \in {"in", "remove"} THEN registers[g].cash + q.amount
               ELSE registers[g].cash - q.amount
  BY <1>2, <1>4 DEF Change, RegisterRows
<1>13. registers[g].cash \in Int
  BY <1>4 DEF RegisterRows
<1>14. RequestsSound'
  <2> SUFFICES ASSUME NEW s \in Calls
               PROVE  /\ OpenSeen(requests[s])' /\ TurnSeen(requests[s])'
                      /\ CloseSeen(requests[s])' /\ MoveSeen(requests[s])'
    BY DEF RequestsSound
  <2>1. CASE s = r
    BY <1>8, <2>1 DEF OpenSeen, TurnSeen, CloseSeen, MoveSeen, NoCall, Moves
  <2>2. CASE s # r
    <3> DEFINE p == requests[s]
    <3>1. requests'[s] = p /\ p \in CallForms
      BY <1>1, <1>8, <2>2 DEF RegistersTypes
    <3>2. OpenSeen(p) /\ TurnSeen(p) /\ CloseSeen(p) /\ MoveSeen(p)
      BY <1>1 DEF RequestsSound
    <3>3. OpenSeen(requests[s])' /\ TurnSeen(requests[s])'
      <4>1. \A u : OpenOf(u)' = OpenOf(u)
        BY <1>11 DEF OpenOf, Open
      <4>2. \A c : OpenOn(c)' = OpenOn(c)
        BY <1>11 DEF OpenOn, Open
      <4>3. QED
        BY <1>3, <3>1, <3>2, <4>1, <4>2 DEF OpenSeen, TurnSeen, MayTurn
    <3>4. CloseSeen(requests[s])'
      <4>1. p.op = "close" => p.register \in Registers /\ p.register # g
        BY <1>1, <1>2, <2>2, <3>1, Forms DEF LocksHold, Exclude, Shuts
      <4>2. QED
        BY <1>7, <3>1, <3>2, <4>1 DEF CloseSeen, Open
    <3>5. MoveSeen(requests[s])'
      <4> SUFFICES ASSUME p.op \in Moves
                   PROVE  /\ registers'[p.register].open
                          /\ p.op \in {"out", "expense"} =>
                               \/ p.register \in unheld'
                               \/ p.amount <= registers'[p.register].cash
        BY <3>1 DEF MoveSeen, DrawerHolds, Open
      <4>1. /\ p.register \in Registers /\ registers[p.register].open /\ p.amount \in 1 .. MaxCash
            /\ p.op \in {"out", "expense"} =>
                 \/ p.register \in unheld
                 \/ p.amount <= registers[p.register].cash
        BY <3>1, <3>2, Forms DEF MoveSeen, DrawerHolds, Open
      <4>2. registers'[p.register].open
        BY <1>11, <4>1
      <4>3. CASE p.register # g
        BY <1>7, <1>9, <4>1, <4>2, <4>3
      <4>4. CASE p.register = g /\ q.op \in {"in", "remove"}
        <5>1. registers'[g].cash = registers[g].cash + q.amount
          BY <1>2, <1>5, <1>7, <1>12, <4>4
        <5>2. q.amount \in Nat /\ p.amount \in Int
          BY <1>2, <4>1
        <5>3. registers[g].cash <= registers'[g].cash
          BY <1>13, <5>1, <5>2
        <5>4. p.amount <= registers[g].cash => p.amount <= registers'[g].cash
          BY <1>13, <5>1, <5>2, <5>3
        <5>5. QED
          BY <1>9, <4>1, <4>2, <4>4, <5>4
      <4>5. CASE p.register = g /\ q.op \notin {"in", "remove"} /\ p.op \in {"out", "expense"}
        <5>1. s \in Taking(g, r)
          BY <2>2, <3>1, <4>5, Forms DEF Taking, Sharing, Moves, Locked, NoCall
        <5>2. g \in unheld'
          BY <1>2, <1>3, <4>5, <5>1 DEF Moves
        <5>3. QED
          BY <4>2, <4>5, <5>2
      <4>6. QED
        BY <4>2, <4>3, <4>4, <4>5
    <3>6. QED
      BY <3>3, <3>4, <3>5
  <2>3. QED
    BY <2>1, <2>2
<1>15. OneRegisterEach'
  BY <1>11 DEF IInv, Sound, OneRegisterEach, Open
<1>16. CountersHoldUnlessStale'
  BY <1>3, <1>11 DEF IInv, Sound, CountersHoldUnlessStale, OpenOnActiveCounter, Open
\* A closed register is not the one whose cash moves.
<1>17. ClosedCashStands'
  BY <1>4, <1>5, <1>7 DEF IInv, Sound, ClosedCashStands, Open
<1>18. ShortOnlyUnheld'
  <2> SUFFICES ASSUME NEW h \in Registers, registers'[h].cash < 0
               PROVE  h \in unheld'
    BY DEF ShortOnlyUnheld
  <2>1. \A k \in Registers : registers[k].cash < 0 => k \in unheld
    BY DEF IInv, Sound, ShortOnlyUnheld
  <2>2. CASE h # g
    BY <1>7, <1>9, <2>1, <2>2
  <2>3. CASE h = g
    <3>1. after < 0
      BY <1>5, <1>7, <2>3
    <3>2. CASE q.op \in {"in", "remove"}
      BY <1>2, <1>9, <1>12, <1>13, <2>1, <2>3, <3>1, <3>2
    <3>3. CASE q.op = "give"
      BY <1>3, <2>3, <3>1, <3>3
    <3>4. CASE q.op \in {"out", "expense"}
      <4>1. g \in unheld \/ q.amount <= registers[g].cash
        BY <1>1, <1>2, <3>4 DEF RequestsSound, MoveSeen, DrawerHolds
      <4>2. after = registers[g].cash - q.amount
        BY <1>12, <3>4
      <4>3. g \in unheld
        BY <1>2, <1>13, <3>1, <4>1, <4>2
      <4>4. QED
        BY <1>9, <2>3, <4>3
    <3>5. QED
      BY <1>2, <3>2, <3>3, <3>4 DEF Moves
  <2>4. QED
    BY <2>2, <2>3
<1>19. QED
  BY <1>8, <1>10, <1>14, <1>15, <1>16, <1>17, <1>18 DEF IInv, Sound


LEMMA CloseRegisterKeeps ==
  ASSUME RegistersAssumption, IInv, NEW r \in Calls, CloseRegister(r)
  PROVE  IInv'
<1> DEFINE q == requests[r]
           g == q.register
           row == [registers[g] EXCEPT !.open = FALSE, !.expected = q.cash]
<1>1. RegistersTypes /\ LocksHold /\ RequestsSound
  BY DEF IInv, Sound
<1>2. q.op = "close" /\ g \in Registers /\ q.cash \in -MaxCash .. MaxCash
  BY <1>1, Forms DEF CloseRegister, RegistersTypes
<1>3. /\ registers' = [registers EXCEPT ![g].open = FALSE, ![g].expected = q.cash]
      /\ Done(r) /\ active' = active /\ stale' = stale /\ unheld' = unheld
  BY DEF CloseRegister
\* What it counted is still there.
<1>4. Open(g) /\ registers[g].cash = q.cash /\ registers[g] \in RegisterRows
  BY <1>1, <1>2, Rows DEF RequestsSound, CloseSeen
<1>5. /\ row \in RegisterRows /\ row.open = FALSE
      /\ row.user = registers[g].user /\ row.counter = registers[g].counter
      /\ row.cash = registers[g].cash /\ row.expected = q.cash
  BY <1>2, <1>4 DEF RegisterRows
<1>6. registers' = [registers EXCEPT ![g] = row]
  BY <1>1, <1>2, <1>3 DEF RegistersTypes
<1>7. \A h \in Registers : registers'[h] = IF h = g THEN row ELSE registers[h]
  BY <1>1, <1>6 DEF RegistersTypes
<1>8. /\ requests' \in [Calls -> CallForms]
      /\ \A s \in Calls : requests'[s] = IF s = r THEN NoCall ELSE requests[s]
      /\ LocksHold'
  BY <1>1, <1>3, DoneFrees
<1>9. RegistersTypes'
  <2>1. registers' \in [Registers -> RegisterRows \cup {NoRegister}]
    BY <1>1, <1>2, <1>5, <1>6 DEF RegistersTypes
  <2>2. active' \in [Counters -> BOOLEAN] /\ stale' \in BOOLEAN /\ unheld' \subseteq Registers
    BY <1>1, <1>3 DEF RegistersTypes
  <2>3. QED
    BY <1>8, <2>1, <2>2 DEF RegistersTypes
\* Fewer registers are open, and the cash of each is what it was.
<1>10. \A h \in Registers : /\ registers'[h].open => registers[h].open
                            /\ registers'[h].user = registers[h].user
                            /\ registers'[h].counter = registers[h].counter
                            /\ registers'[h].cash = registers[h].cash
  BY <1>5, <1>7
<1>11. RequestsSound'
  <2> SUFFICES ASSUME NEW s \in Calls
               PROVE  /\ OpenSeen(requests[s])' /\ TurnSeen(requests[s])'
                      /\ CloseSeen(requests[s])' /\ MoveSeen(requests[s])'
    BY DEF RequestsSound
  <2>1. CASE s = r
    BY <1>8, <2>1 DEF OpenSeen, TurnSeen, CloseSeen, MoveSeen, NoCall, Moves
  <2>2. CASE s # r
    <3> DEFINE p == requests[s]
    <3>1. requests'[s] = p /\ p \in CallForms
      BY <1>1, <1>8, <2>2 DEF RegistersTypes
    <3>2. OpenSeen(p) /\ TurnSeen(p) /\ CloseSeen(p) /\ MoveSeen(p)
      BY <1>1 DEF RequestsSound
    <3>3. OpenSeen(requests[s])' /\ TurnSeen(requests[s])'
      <4>1. \A u : OpenOf(u) = {} => OpenOf(u)' = {}
        BY <1>10 DEF OpenOf, Open
      <4>2. \A c : OpenOn(c) = {} => OpenOn(c)' = {}
        BY <1>10 DEF OpenOn, Open
      <4>3. QED
        BY <1>3, <3>1, <3>2, <4>1, <4>2 DEF OpenSeen, TurnSeen, MayTurn
    <3>4. p.op \in Moves \cup {"close"} => p.register \in Registers /\ p.register # g
      BY <1>1, <1>2, <2>2, <3>1, Forms DEF LocksHold, Exclude, Shuts
    <3>5. CloseSeen(requests[s])'
      BY <1>7, <3>1, <3>2, <3>4 DEF CloseSeen, Open
    <3>6. MoveSeen(requests[s])'
      BY <1>3, <1>7, <3>1, <3>2, <3>4 DEF MoveSeen, DrawerHolds, Open
    <3>7. QED
      BY <3>3, <3>5, <3>6
  <2>3. QED
    BY <2>1, <2>2
<1>12. OneRegisterEach'
  BY <1>10 DEF IInv, Sound, OneRegisterEach, Open
<1>13. CountersHoldUnlessStale'
  BY <1>3, <1>10 DEF IInv, Sound, CountersHoldUnlessStale, OpenOnActiveCounter, Open
<1>14. ClosedCashStands'
  BY <1>4, <1>5, <1>7 DEF IInv, Sound, ClosedCashStands, Open
<1>15. ShortOnlyUnheld'
  BY <1>3, <1>10 DEF IInv, Sound, ShortOnlyUnheld
<1>16. QED
  BY <1>8, <1>9, <1>11, <1>12, <1>13, <1>14, <1>15 DEF IInv, Sound

-----------------------------------------------------------------------------
LEMMA Initially == RegistersAssumption /\ RegistersInit => IInv
<1> SUFFICES ASSUME RegistersAssumption, RegistersInit PROVE IInv
  OBVIOUS
<1>1. RegistersTypes
  BY DEF RegistersInit, RegistersTypes, CallForms
<1>2. \A r \in Calls : requests[r] = NoCall
  BY DEF RegistersInit
<1>3. LocksHold
  BY <1>2 DEF LocksHold, Exclude, HoldsBranch, Shuts, NoCall
<1>4. RequestsSound
  BY <1>2, IdleSound DEF RequestsSound
<1>5. \A g \in Registers : registers[g] = NoRegister /\ ~Open(g) /\ registers[g].cash = 0
  BY DEF RegistersInit, NoRegister, Open
<1>6. OneRegisterEach /\ ClosedCashStands /\ ShortOnlyUnheld
  BY <1>5 DEF OneRegisterEach, ClosedCashStands, ShortOnlyUnheld
<1>7. CountersHoldUnlessStale
  BY <1>5 DEF RegistersInit, CountersHoldUnlessStale, OpenOnActiveCounter
<1>8. QED
  BY <1>1, <1>3, <1>4, <1>6, <1>7 DEF IInv, Sound

LEMMA StutterKeeps == ASSUME IInv, UNCHANGED registersVars PROVE IInv'
<1>1. /\ active' = active /\ registers' = registers /\ requests' = requests
      /\ stale' = stale /\ unheld' = unheld
  BY DEF registersVars
<1>2. RegistersTypes'
  BY <1>1 DEF IInv, RegistersTypes
<1>3. LocksHold'
  BY <1>1 DEF IInv, Sound, LocksHold, Exclude, HoldsBranch, Shuts
<1>4. RequestsSound'
  BY <1>1 DEF IInv, Sound, RequestsSound, OpenSeen, TurnSeen, CloseSeen, MoveSeen, MayTurn,
              DrawerHolds, Open, OpenOf, OpenOn
<1>5. OneRegisterEach' /\ CountersHoldUnlessStale' /\ ClosedCashStands' /\ ShortOnlyUnheld'
  BY <1>1 DEF IInv, Sound, OneRegisterEach, CountersHoldUnlessStale, OpenOnActiveCounter,
              ClosedCashStands, ShortOnlyUnheld, Open
<1>6. QED
  BY <1>2, <1>3, <1>4, <1>5 DEF IInv, Sound

LEMMA NextKeeps == ASSUME RegistersAssumption, IInv, [RegistersNext]_registersVars PROVE IInv'
<1>1. CASE UNCHANGED registersVars
  BY <1>1, StutterKeeps
<1>2. ASSUME NEW r \in Calls, NEW u \in Users, NEW c \in Counters, LockToOpen(r, u, c)
      PROVE  IInv'
  BY <1>2, LockToOpenKeeps
<1>3. ASSUME NEW r \in Calls, NEW c \in Counters, NEW on \in BOOLEAN, ReadCounter(r, c, on)
      PROVE  IInv'
  BY <1>3, ReadCounterKeeps
<1>4. ASSUME NEW r \in Calls, NEW op \in Moves, NEW g \in Registers,
             NEW amount \in 1 .. MaxCash, ShareRegister(r, op, g, amount)
      PROVE  IInv'
  BY <1>4, ShareRegisterKeeps
<1>5. ASSUME NEW r \in Calls, NEW g \in Registers, CountCash(r, g)
      PROVE  IInv'
  BY <1>5, CountCashKeeps
<1>6. ASSUME NEW r \in Calls,
             \/ LockToTurn(r) \/ OpenRegister(r) \/ UpdateCounter(r)
             \/ MoveCash(r) \/ CloseRegister(r) \/ Abort(r)
      PROVE  IInv'
  BY <1>6, LockToTurnKeeps, OpenRegisterKeeps, UpdateCounterKeeps, MoveCashKeeps,
     CloseRegisterKeeps, AbortKeeps
<1>7. QED
  BY <1>1, <1>2, <1>3, <1>4, <1>5, <1>6 DEF RegistersNext

\* In every reachable state the rows, the locks and what the requests under way
\* saw fit together.
THEOREM Invariant == RegistersSpec => []IInv
<1>1. RegistersInit => IInv
  BY Initially, RegistersAssumption
<1>2. IInv /\ [RegistersNext]_registersVars => IInv'
  BY NextKeeps, RegistersAssumption
<1>3. QED
  BY <1>1, <1>2, PTL DEF RegistersSpec

\* The rows and requests have their types, for every bound on cash.
THEOREM TypeCorrect == RegistersSpec => []RegistersTypes
<1>1. IInv => RegistersTypes
  BY DEF IInv
<1>2. QED
  BY <1>1, Invariant, PTL

\* However many requests open registers and change counters at once, no counter
\* and no user has two open (registers.service.ts openRegister).
THEOREM OneRegisterEachHolds == RegistersSpec => []OneRegisterEach
<1>1. IInv => OneRegisterEach
  BY DEF IInv, Sound
<1>2. QED
  BY <1>1, Invariant, PTL

\* Reading a counter before the branch is locked is the only way an open one, or
\* the last, is turned off (counters.service.ts updateCounter).
THEOREM CountersHoldUnlessStaleHolds == RegistersSpec => []CountersHoldUnlessStale
<1>1. IInv => CountersHoldUnlessStale
  BY DEF IInv, Sound
<1>2. QED
  BY <1>1, Invariant, PTL

\* Cash never lands on a register after it was counted, nor is cash on its way
\* missed by the count (register-open.ts assertRegisterOpen).
THEOREM ClosedCashStandsHolds == RegistersSpec => []ClosedCashStands
<1>1. IInv => ClosedCashStands
  BY DEF IInv, Sound
<1>2. QED
  BY <1>1, Invariant, PTL

\* Cash-outs and expenses leave a drawer short only when they overlap something
\* else that takes from it (expenses.service.ts assertDrawerHolds).
THEOREM ShortOnlyUnheldHolds == RegistersSpec => []ShortOnlyUnheld
<1>1. IInv => ShortOnlyUnheld
  BY DEF IInv, Sound
<1>2. QED
  BY <1>1, Invariant, PTL

=============================================================================
