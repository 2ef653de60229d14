---------------------------- MODULE MCSaleRequests ----------------------------
(* Two requests at a time against two bills of one registered customer. *)
EXTENDS SaleRequests, TLC

CONSTANTS asha

MCCustomers == {asha}
MCCreditLimit == [c \in MCCustomers |-> 2]
MCBaskets == {[l \in Lines |-> 1]}
\* Sales on credit, part paid, and overpaid; settlements in cash, from the
\* wallet, both, and overpaid; refunds in cash and into the wallet.
One == [l \in Lines |-> 1]
MCOps ==
    {[kind |-> "sale", bill |-> b, customer |-> asha, role |-> "CASHIER", goods |-> One,
      total |-> 2, money |-> m, wallet |-> 0, key |-> NoKey] : b \in Bills, m \in {0, 1}}
    \cup {[kind |-> "settle", bill |-> b, money |-> p[1], wallet |-> p[2], key |-> k] :
             b \in Bills, k \in Keys, p \in {<<3, 0>>, <<0, 1>>, <<1, 1>>}}
    \cup {[kind |-> "return", bill |-> b, role |-> "CASHIER", goods |-> One, mode |-> d] :
             b \in Bills, d \in {"CASH", "WALLET"}}
    \cup {[kind |-> "cancel", bill |-> b] : b \in Bills}
\* Enough to make one wait for another's bill, key, wallet, number and
\* customer, and two for each other: a wallet payment and change into it.
MCLiveOps == {op \in MCOps :
    \/ op.kind = "sale" /\ op.money = 0
    \/ op.kind = "settle" /\ <<op.money, op.wallet>> \in {<<3, 0>>, <<0, 1>>}}
MCLooseLimit == [c \in MCCustomers |-> 4]
Symmetry == Permutations(Bills) \cup Permutations(Requests)
==============================================================================
