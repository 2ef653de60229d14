------------------------------ MODULE BillRules ------------------------------
(***************************************************************************)
(* What one sale bill (a SaleInvoice row with its lines, returns and stock *)
(* ledger rows) is, and what each operation writes to it: made, paid,      *)
(* goods taken back, cancelled.  Money is in whole units; goods are        *)
(* quantities per line of the bill.                                        *)
(*                                                                         *)
(* What a return is worth is decided by returnLineAmounts and              *)
(* returnRoundOff (pricing.ts), prorated and rounded per line.  A bill     *)
(* only depends on what they promise: a worth is never negative, the       *)
(* worths of a bill's returns never exceed its total, and add up to it     *)
(* exactly once all its goods are back.  `Worths` is any worth that keeps  *)
(* these promises; that the rounding does is not modelled yet.             *)
(***************************************************************************)
EXTENDS Integers

CONSTANTS
    Lines,      \* the lines of a bill
    FreeGoods   \* TRUE: goods may be worth nothing (rate 0, a 100% discount, a
                \* total rounded down to 0, a part worth less than half a paisa)

ASSUME FreeGoodsAssumption == FreeGoods \in BOOLEAN

Goods == [Lines -> Nat]
NoGoods == [l \in Lines |-> 0]
Plus(a, b) == [l \in Lines |-> a[l] + b[l]]
Within(a, b) == \A l \in Lines : a[l] <= b[l]

Smaller(m, n) == IF m <= n THEN m ELSE n
Larger(m, n) == IF m >= n THEN m ELSE n

Roles == {"ADMIN", "CASHIER"}
Statuses == {"DRAFT", "PARTIALLY_SETTLED", "SETTLED", "CANCELLED"}

(***************************************************************************)
(* What is still owed on a bill: its total less payments and returns taken *)
(* off it.                                                                 *)
(***************************************************************************)
Due(i) == Larger(0, i.grand - i.paid - i.credited)

\* Mutant of StatusFor: what returns took off is forgotten.
StatusForPaymentsOnly(i, paid, credited) ==
    IF paid >= i.grand THEN "SETTLED" ELSE "PARTIALLY_SETTLED"

\* The status a bill takes when `paid` and `credited` become its totals.
StatusFor(i, paid, credited) ==
    IF paid + credited >= i.grand THEN "SETTLED" ELSE "PARTIALLY_SETTLED"

\* A new bill: everything on it is owed.  `back` counts the goods the stock
\* ledger says came back: by returns, or by cancelling the bill.
Drafted(c, role, day, goods, total) ==
    [status |-> "DRAFT", customer |-> c, madeBy |-> role, madeOn |-> day,
     sold |-> goods, returned |-> NoGoods, back |-> NoGoods,
     grand |-> total, paid |-> 0, credited |-> 0, refunded |-> 0]

(***************************************************************************)
(* Payment.  What is paid past the amount due does not go on the bill      *)
(* (`Excess`): it is credited to the customer's wallet.                    *)
(***************************************************************************)
Payable(i) == i.status \notin {"SETTLED", "CANCELLED"}
Excess(i, amount) == Larger(0, amount - Due(i))

\* Mutant of Paid: the change goes on the bill too.
PaidWithChange(i, amount) ==
    [i EXCEPT !.paid = @ + amount, !.status = StatusFor(i, i.paid + amount, i.credited)]

Paid(i, amount) ==
    LET paid == i.paid + Smaller(amount, Due(i))
    IN  [i EXCEPT !.paid = paid, !.status = StatusFor(i, paid, i.credited)]

(***************************************************************************)
(* Return.  Goods within what is still out; their worth first brings down  *)
(* what is owed (`dueAdjusted`), and only the rest is handed back          *)
(* (`refundAmount`), never more than was paid and not yet refunded.        *)
(***************************************************************************)
Returnable(i, goods) ==
    /\ i.status # "CANCELLED"
    /\ goods # NoGoods
    /\ Within(Plus(i.returned, goods), i.sold)

\* What of the bill's total no return has given back yet.
LeftToReturn(i) == i.grand - i.credited - i.refunded

\* Mutant of Worths: the last goods back do not make up for earlier rounding.
WorthsRounded(i, goods) ==
    {w \in 0..LeftToReturn(i) : w = 0 => FreeGoods \/ LeftToReturn(i) = 0}

Worths(i, goods) ==
    {w \in 0..LeftToReturn(i) :
        /\ Plus(i.returned, goods) = i.sold => w = LeftToReturn(i)
        /\ w = 0 => FreeGoods \/ LeftToReturn(i) = 0}

\* Mutant of DueAdjusted: a part-paid bill refunds before its due is cleared.
DueAdjustedIfUnpaid(i, worth) == IF i.paid = 0 THEN Smaller(worth, Due(i)) ELSE 0

DueAdjusted(i, worth) == Smaller(worth, Due(i))
RefundAmount(i, worth) == worth - DueAdjusted(i, worth)
RefundAllowed(i, worth) ==
    RefundAmount(i, worth) <= Smaller(i.paid, i.grand) - i.refunded

\* The status is written only when something came off the amount due.
Returned(i, goods, worth) ==
    LET credited == i.credited + DueAdjusted(i, worth)
    IN  [i EXCEPT
            !.credited = credited,
            !.status = IF DueAdjusted(i, worth) > 0
                       THEN StatusFor(i, i.paid, credited) ELSE @,
            !.refunded = @ + RefundAmount(i, worth),
            !.returned = Plus(@, goods),
            !.back = Plus(@, goods)]

(***************************************************************************)
(* Cancelling puts back all that the bill's lines took out of stock,       *)
(* without looking at its returns.                                         *)
(***************************************************************************)
\* Mutant of Cancellable: any bill no payment was taken on.
CancellableUnpaid(i, day) == i.status # "CANCELLED" /\ i.paid = 0 /\ i.madeOn = day

Cancellable(i, day) == i.status = "DRAFT" /\ i.paid = 0 /\ i.madeOn = day
Cancelled(i) == [i EXCEPT !.status = "CANCELLED", !.back = Plus(@, i.sold)]
==============================================================================
