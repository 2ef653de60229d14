------------------------------ MODULE MCStock ------------------------------
(* Two requests at a time; a milk kept in two batches, the older of which  *)
(* may be sold on the first day only, and a soap.                          *)
EXTENDS Stock, TLC

CONSTANTS main, shop, m1, m2, s1, p1, t1

MCBranches == {main, shop}
MCItems == {1, 2}
MCItemOf == (m1 :> 1) @@ (m2 :> 1)
MCExpiry == (m1 :> 0) @@ (m2 :> 5)
Line(i, q) == [item |-> i, qty |-> q]
In(i, s, q) == [item |-> i, qty |-> q, batch |-> s]
Count(k, b, i, s, q) == [kind |-> k, branch |-> b, item |-> i, batch |-> s, qty |-> q]
MCOps ==
    {Count("opening", shop, 2, NoBatch, 1), Count("reopening", shop, 2, NoBatch, 2),
     Count("adjustIn", main, 2, NoBatch, 1), Count("adjustOut", main, 1, NoBatch, 2),
     [kind |-> "purchase", doc |-> p1, branch |-> main, lines |-> <<In(1, m1, 1), In(1, m2, 1)>>],
     [kind |-> "sendBack", doc |-> p1, line |-> 1, qty |-> 1, free |-> FALSE],
     [kind |-> "transfer", doc |-> t1, branch |-> main, to |-> shop, lines |-> <<Line(1, 1), Line(2, 1)>>],
     [kind |-> "receive", doc |-> t1], [kind |-> "callBack", doc |-> t1],
     [kind |-> "sale", doc |-> s1, branch |-> main, past |-> FALSE, paid |-> FALSE, lines |-> <<Line(1, 1), Line(1, 1)>>],
     [kind |-> "sale", doc |-> s1, branch |-> main, past |-> TRUE, paid |-> TRUE, lines |-> <<Line(2, 1), Line(1, 2)>>],
     [kind |-> "return", doc |-> s1, line |-> 2, qty |-> 1, free |-> FALSE],
     [kind |-> "return", doc |-> s1, line |-> 2, qty |-> 1, free |-> TRUE], [kind |-> "cancel", doc |-> s1]}
Symmetry == Permutations(Requests)
=============================================================================
