------------------------------ MODULE MCSaleBill ------------------------------
(* A shop with a walk-in customer and one registered customer, for TLC. *)
EXTENDS SaleBill, TLC

CONSTANTS walkin, asha

MCCustomers == {walkin, asha}
MCWalkIns == {walkin}
MCCreditLimit == [c \in MCCustomers |-> IF c = asha THEN 2 ELSE NoLimit]
\* One line, one or two of it: what two lines add is the same per line.
BillSymmetry == Permutations(Bills)
MCBaskets == {g \in [Lines -> 0..2] : \E l \in Lines : g[l] > 0}
==============================================================================
