------------------------------- MODULE MCShop -------------------------------
(***************************************************************************)
(* Four parts of selling that share no state, each checked alone in one    *)
(* run: the catalogue, what bills and returns come to, the till's checkout *)
(* and paying saved bills.  `part` says which one a behaviour is of; the   *)
(* others rest in their first state.                                       *)
(*                                                                         *)
(* Catalogue: a shirt in two sizes and another item, a code spelled in two *)
(* ways, prices of 1 and 2 and an MRP of 2.  Bills: rates and discounts    *)
(* that do not divide evenly, in every order of goods coming back.         *)
(***************************************************************************)
EXTENDS Catalog, Pricing, Till, Settling, TLC

CONSTANTS abc, ABC, xyz, S, M

VARIABLE part

MCCodes == {abc, ABC, xyz}
MCKey == (abc :> abc) @@ (ABC :> abc) @@ (xyz :> xyz)
At(ask, mrp) == [ask |-> ask, mrp |-> mrp]
None == [u \in {} |-> At(0, 0)]
Box == "box" :> At(2, 0)
MCOps ==
    {[kind |-> "create", code |-> abc, price |-> At(1, 2), units |-> Box, gst |-> TRUE, size |-> S],
     [kind |-> "create", code |-> xyz, price |-> At(1, 2), units |-> None, gst |-> FALSE, size |-> Single],
     [kind |-> "create", code |-> ABC, price |-> At(1, 2), units |-> None, gst |-> FALSE, size |-> Single],
     [kind |-> "addSize", size |-> M, code |-> xyz, price |-> At(1, 2), units |-> None, gst |-> TRUE],
     [kind |-> "priceAll", price |-> At(2, 0)],
     [kind |-> "import", code |-> ABC, price |-> At(2, 2), units |-> None, gst |-> FALSE, size |-> M, barcodes |-> {xyz}],
     [kind |-> "update", item |-> 1, price |-> At(2, 2), units |-> None, gst |-> FALSE],
     [kind |-> "update", item |-> 1, price |-> At(1, 2), units |-> Box, gst |-> TRUE],
     [kind |-> "barcodes", item |-> 1, codes |-> xyz :> "box"],
     [kind |-> "branchPrices", item |-> 1, prices |-> "piece" :> At(2, 2)],
     [kind |-> "delete", item |-> 1]}
    \cup {[kind |-> "sell", item |-> 1, unit |-> u, ask |-> 2, gst |-> g] : u \in Units, g \in BOOLEAN}

L(qty, rate, taxRate, taxMode, discounts) ==
    [qty |-> qty, rate |-> rate, taxRate |-> taxRate, taxMode |-> taxMode, discounts |-> discounts]
Flat(v) == [type |-> "FIXED", value |-> v]
Pc(v) == [type |-> "PERCENTAGE", value |-> v]
LC == {L(3, 33, 18, "INCLUSIVE", <<>>), L(3, 1, 5, "EXCLUSIVE", <<>>), L(2, 101, 5, "EXCLUSIVE", <<Flat(7)>>),
       L(3, 7, 18, "INCLUSIVE", <<Pc(50), Pc(33)>>), L(1, 50, 0, "EXCLUSIVE", <<>>),
       L(3, 17, 28, "INCLUSIVE", <<Flat(40), Flat(30)>>), L(3, 2, 18, "INCLUSIVE", <<>>)}
OC == {<<>>, <<Pc(10)>>, <<Flat(13)>>, <<Flat(2), Pc(60)>>, <<Pc(33), Pc(33)>>, <<Flat(5), Flat(5), Flat(5)>>, <<Pc(50), Flat(400)>>}

\* The bill that parts other than pricing rest with.
EmptyBill == SaleTotals(<<>>, <<>>, FALSE, FALSE, "NONE")

ShopInit ==
    /\ part \in {"catalogue", "pricing", "till", "settling"}
    /\ Init
    /\ part = "catalogue" \/ charged
    /\ IF part = "pricing" THEN PricingInit
       ELSE /\ bill = EmptyBill
            /\ returned = [i \in DOMAIN bill.lines |-> [qty |-> 0, parts |-> NoParts]]
            /\ givenBack = [lines |-> 0, roundOff |-> 0, least |-> 0]
    /\ TillInit /\ SettlingInit

Managing == part = "catalogue" /\ Next /\ UNCHANGED <<pricingVars, tillVars, settlingVars, part>>
GivingBack == part = "pricing" /\ PricingNext /\ UNCHANGED <<vars, tillVars, settlingVars, part>>
CheckingOut == part = "till" /\ TillNext /\ UNCHANGED <<vars, pricingVars, settlingVars, part>>
PayingBills == part = "settling" /\ SettlingNext /\ UNCHANGED <<vars, pricingVars, tillVars, part>>

ShopNext == Managing \/ GivingBack \/ CheckingOut \/ PayingBills

\* Requests, tabs and windows are one set of names, and so are purchases and payments' details.
ShopSymmetry == Permutations(Requests) \cup Permutations(Orders)
=============================================================================
