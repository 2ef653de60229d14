------------------------------- MODULE SaleBill -------------------------------
(***************************************************************************)
(* The bills of a shop and its customers' wallets, each operation of the   *)
(* API one step: making a bill (paid or on credit), settling it, taking    *)
(* goods back, cancelling it, and topping up or correcting a wallet.       *)
(*                                                                         *)
(* One step per operation is what the API promises: every operation runs   *)
(* in one transaction that locks the bill's row (SELECT ... FOR UPDATE)    *)
(* before it reads it.  Module SaleRequests has the transactions' own      *)
(* steps, and is shown to implement this one.                              *)
(***************************************************************************)
EXTENDS BillRules, Sums

CONSTANTS
    Bills,        \* ids bills can get
    Customers,
    WalkIns,      \* customers nobody knows: no wallet, no credit at checkout
    CreditLimit,  \* per customer; NoLimit when there is none
    NoLimit,
    Baskets,      \* the goods a bill or a return may be for
    MaxGrand,     \* bound: the largest total of a bill
    MaxPay,       \* bound: the largest payment
    MaxTopup,     \* bound: no top-up takes a wallet above this
    MaxAdjust,    \* bound: corrections together come to at most this, and at least 0
    MaxDay,       \* bound: the last business day
    WindowDays,   \* days a cashier may take goods back for (settings)
    Offline       \* TRUE on a fallback counter's copy (isFallback)

ASSUME SaleBillAssumption ==
    /\ IsFiniteSet(Bills) /\ IsFiniteSet(Customers)
    /\ WalkIns \subseteq Customers
    /\ CreditLimit \in [Customers -> Nat \cup {NoLimit}]
    /\ Baskets \subseteq Goods
    /\ MaxGrand \in Nat /\ MaxPay \in Nat /\ MaxTopup \in Nat /\ MaxAdjust \in Nat
    /\ MaxDay \in Nat /\ WindowDays \in Nat
    /\ Offline \in BOOLEAN

ASSUME NoLimitAssumption == NoLimit \notin Nat

VARIABLES
    bills,     \* the bills made so far, NoBill for an unused id
    wallets,   \* each customer's WalletAccount balance
    drawer,    \* cash and cards taken, less cash handed back
    adjusted,  \* what corrections have added to wallets (no money moved)
    today      \* the business day

vars == <<bills, wallets, drawer, adjusted, today>>

NoBill == [status |-> "NONE"]

Bill ==
    [status : Statuses, customer : Customers, madeBy : Roles, madeOn : Nat,
     sold : Goods, returned : Goods, back : Goods,
     grand : Nat, paid : Nat, credited : Nat, refunded : Nat]

TypeOK ==
    /\ bills \in [Bills -> Bill \cup {NoBill}]
    /\ wallets \in [Customers -> Nat]
    /\ drawer \in Int
    /\ adjusted \in Int
    /\ today \in Nat

Made(b) == bills[b].status # "NONE"

Init ==
    /\ bills = [b \in Bills |-> NoBill]
    /\ wallets = [c \in Customers |-> 0]
    /\ drawer = 0
    /\ adjusted = 0
    /\ today = 0

-----------------------------------------------------------------------------
\* What a customer owes on all their unpaid and part-paid bills.
Owed(bs, c) ==
    LET unpaid == {b \in Bills : /\ bs[b].status \in {"DRAFT", "PARTIALLY_SETTLED"}
                                 /\ bs[b].customer = c}
    IN  Total([b \in unpaid |-> Due(bs[b])])

\* Mutant of WithinCreditLimit: what is owed before the new bill.
WithinCreditLimitBefore(bs, role, c) ==
    role # "ADMIN" /\ CreditLimit[c] # NoLimit => Owed(bills, c) <= CreditLimit[c]

\* A cashier may not take a customer past their credit limit; an admin may.
WithinCreditLimit(bs, role, c) ==
    role # "ADMIN" /\ CreditLimit[c] # NoLimit => Owed(bs, c) <= CreditLimit[c]

\* Mutants of PaymentAllowed: the balance not checked; offline change allowed.
PaymentUnfunded(i, money, wallet, balance) ==
    /\ Payable(i)
    /\ money + wallet > 0
    /\ i.customer \in WalkIns => money + wallet <= Due(i) /\ wallet = 0
    /\ wallet <= Due(i)

PaymentWithOfflineChange(i, money, wallet, balance) ==
    /\ PaymentUnfunded(i, money, wallet, balance)
    /\ wallet <= balance
    /\ Offline => wallet = 0

(***************************************************************************)
(* May `money` (cash or card) and `wallet` together pay for bill i?  A     *)
(* walk-in may not overpay, the wallet pays no more than is due or than it *)
(* holds, and offline neither it nor change into it is available.          *)
(***************************************************************************)
PaymentAllowed(i, money, wallet, balance) ==
    /\ Payable(i)
    /\ money + wallet > 0
    /\ i.customer \in WalkIns => money + wallet <= Due(i) /\ wallet = 0
    /\ wallet <= Due(i)
    /\ Offline => wallet = 0 /\ Excess(i, money + wallet) = 0
    /\ wallet <= balance

\* Mutant of WalletAfter: the change is kept.
WalletAfterNoChange(i, money, wallet, balance) == balance - wallet

\* The customer's balance once that payment is made.
WalletAfter(i, money, wallet, balance) ==
    (balance - wallet) + Excess(i, money + wallet)

Settle(b, money, wallet) ==
    LET i == bills[b] IN
    /\ Made(b)
    /\ PaymentAllowed(i, money, wallet, wallets[i.customer])
    /\ bills' = [bills EXCEPT ![b] = Paid(i, money + wallet)]
    /\ wallets' = [wallets EXCEPT ![i.customer] = WalletAfter(i, money, wallet, @)]
    /\ drawer' = drawer + money
    /\ UNCHANGED <<adjusted, today>>

(***************************************************************************)
(* A checkout makes the bill and takes its payment in one transaction.     *)
(* With no payment, or too little, it is a credit sale: registered         *)
(* customers only, within their limit.                                     *)
(***************************************************************************)
Checkout(b, c, role, goods, total, money, wallet) ==
    LET new == Drafted(c, role, today, goods, total)
        made == IF money + wallet = 0 THEN new ELSE Paid(new, money + wallet)
    IN
    /\ ~Made(b)
    /\ goods # NoGoods
    /\ money + wallet > 0 => PaymentAllowed(new, money, wallet, wallets[c])
    /\ bills' = [bills EXCEPT ![b] = made]
    /\ made.status # "SETTLED" => c \notin WalkIns /\ WithinCreditLimit(bills', role, c)
    /\ wallets' = [wallets EXCEPT
                      ![c] = IF money + wallet = 0 THEN @ ELSE WalletAfter(new, money, wallet, @)]
    /\ drawer' = drawer + money
    /\ UNCHANGED <<adjusted, today>>

\* An unpaid bill, to be settled later.
CreateSale(b, c, role, goods, total) ==
    /\ ~Made(b)
    /\ goods # NoGoods
    /\ bills' = [bills EXCEPT ![b] = Drafted(c, role, today, goods, total)]
    /\ WithinCreditLimit(bills', role, c)
    /\ UNCHANGED <<wallets, drawer, adjusted, today>>

CreateReturn(b, role, goods, mode) ==
    LET i == bills[b] IN
    /\ Made(b)
    /\ Returnable(i, goods)
    /\ role = "ADMIN" \/ today - i.madeOn <= WindowDays
    /\ \E worth \in Worths(i, goods) :
        LET refund == RefundAmount(i, worth) IN
        /\ RefundAllowed(i, worth)
        /\ refund > 0 /\ mode = "WALLET" => i.customer \notin WalkIns /\ ~Offline
        /\ bills' = [bills EXCEPT ![b] = Returned(i, goods, worth)]
        /\ IF mode = "WALLET"
           THEN /\ wallets' = [wallets EXCEPT ![i.customer] = @ + refund]
                /\ drawer' = drawer
           ELSE /\ wallets' = wallets
                /\ drawer' = drawer - refund
    /\ UNCHANGED <<adjusted, today>>

CancelSale(b) ==
    /\ Made(b)
    /\ Cancellable(bills[b], today)
    /\ bills' = [bills EXCEPT ![b] = Cancelled(@)]
    /\ UNCHANGED <<wallets, drawer, adjusted, today>>

TopupWallet(c, amount) ==
    /\ ~Offline
    /\ c \notin WalkIns
    /\ wallets[c] + amount <= MaxTopup
    /\ wallets' = [wallets EXCEPT ![c] = @ + amount]
    /\ drawer' = drawer + amount
    /\ UNCHANGED <<bills, adjusted, today>>

\* An admin's correction, up or down, that may not take the balance below 0.
AdjustWallet(c, change) ==
    /\ ~Offline
    /\ c \notin WalkIns
    /\ change # 0
    /\ change < 0 => wallets[c] >= -change
    /\ adjusted + change \in 0..MaxAdjust
    /\ wallets' = [wallets EXCEPT ![c] = @ + change]
    /\ adjusted' = adjusted + change
    /\ UNCHANGED <<bills, drawer, today>>

NextDay ==
    /\ today < MaxDay
    /\ today' = today + 1
    /\ UNCHANGED <<bills, wallets, drawer, adjusted>>

Next ==
    \/ \E b \in Bills, c \in Customers, role \in Roles, goods \in Baskets,
          total \in (IF FreeGoods THEN 0 ELSE 1)..MaxGrand :
            \/ CreateSale(b, c, role, goods, total)
            \/ \E money, wallet \in 0..MaxPay :
                  Checkout(b, c, role, goods, total, money, wallet)
    \/ \E b \in Bills, money, wallet \in 0..MaxPay : Settle(b, money, wallet)
    \/ \E b \in Bills, role \in Roles, goods \in Baskets, mode \in {"CASH", "WALLET"} :
            CreateReturn(b, role, goods, mode)
    \/ \E b \in Bills : CancelSale(b)
    \/ \E c \in Customers, amount \in 1..MaxTopup : TopupWallet(c, amount)
    \/ \E c \in Customers, change \in (-MaxAdjust)..MaxAdjust : AdjustWallet(c, change)
    \/ NextDay

Spec == Init /\ [][Next]_vars

-----------------------------------------------------------------------------
(***************************************************************************)
(* A bill never has more collected on it (paid, or taken off by returns)   *)
(* than its total, and nothing is handed back before all of it is covered: *)
(* settlements and returns in any order keep what invoiceDue and           *)
(* splitReturn rely on.                                                    *)
(***************************************************************************)
BillBalanced(i) ==
    /\ i.paid + i.credited <= i.grand
    /\ i.refunded <= i.paid
    /\ i.refunded > 0 => i.paid + i.credited = i.grand

NeverOverCollected == \A b \in Bills : Made(b) => BillBalanced(bills[b])

(***************************************************************************)
(* The status, written by three operations with three conditions, always   *)
(* agrees with the money: what the unpaid-bills list and the credit limit  *)
(* select by status is exactly what is owed on.                            *)
(***************************************************************************)
StatusTellsDue ==
    \A b \in Bills : Made(b) =>
        LET i == bills[b] IN
        /\ i.status = "SETTLED" => Due(i) = 0
        /\ i.status = "PARTIALLY_SETTLED" => Due(i) > 0 /\ i.paid + i.credited > 0
        /\ i.status = "DRAFT" => Due(i) = i.grand
        /\ i.status = "CANCELLED" => i.paid = 0 /\ i.credited = 0 /\ i.refunded = 0

(***************************************************************************)
(* A bill whose goods all came back owes nothing, and the customer got     *)
(* back exactly what they paid, however payments and returns alternated.   *)
(***************************************************************************)
FullReturnSquares ==
    \A b \in Bills : Made(b) /\ bills[b].returned = bills[b].sold =>
        LET i == bills[b] IN
        i.status # "CANCELLED" => Due(i) = 0 /\ i.refunded = i.paid

(***************************************************************************)
(* createReturn's last check ("Refund would be more than was paid for this *)
(* invoice") never refuses goods that passed the quantity check: a         *)
(* customer is not turned away by the arithmetic.                          *)
(***************************************************************************)
RefundCheckNeverBites ==
    \A b \in Bills, goods \in Baskets :
        Made(b) /\ Returnable(bills[b], goods) =>
            \A worth \in Worths(bills[b], goods) : RefundAllowed(bills[b], worth)

(***************************************************************************)
(* What a bill says of its money is so, after payments, returns and a      *)
(* cancellation in any order: the three above.                             *)
(***************************************************************************)
MoneyAgrees == NeverOverCollected /\ StatusTellsDue /\ RefundCheckNeverBites

(***************************************************************************)
(* Goods come back at most once: never more than the line sold, whether by *)
(* returns or by cancelling the bill.                                      *)
(***************************************************************************)
GoodsBackAtMostOnce ==
    \A b \in Bills : Made(b) => Within(bills[b].back, bills[b].sold)

(***************************************************************************)
(* Every rupee taken is on a bill or in a wallet, once: what was taken     *)
(* over the counter, with the corrections, is what bills hold net of       *)
(* refunds plus what the wallets hold.  Change credited to a wallet is     *)
(* never wallet money.                                                     *)
(***************************************************************************)
MoneyAccountedFor ==
    drawer + adjusted =
        Total([b \in {n \in Bills : Made(n)} |-> bills[b].paid - bills[b].refunded]) + Total(wallets)

(***************************************************************************)
(* A customer over their credit limit owes on a bill an admin made:        *)
(* cashiers alone never take anyone past it, whatever is settled, returned *)
(* or cancelled in between.                                                *)
(***************************************************************************)
OverLimitOnlyByAdmin ==
    \A c \in Customers :
        CreditLimit[c] # NoLimit /\ Owed(bills, c) > CreditLimit[c] =>
            \E b \in Bills : /\ Made(b)
                             /\ bills[b].customer = c
                             /\ bills[b].madeBy = "ADMIN"
                             /\ Due(bills[b]) > 0

(***************************************************************************)
(* A bill's days only close: once settled it is never reopened, and once   *)
(* cancelled nothing on it changes any more.  Returns on a settled bill    *)
(* move money out, never its amount due.                                   *)
(***************************************************************************)
SettledStaysSettled ==
    [][\A b \in Bills : Made(b) =>
         /\ bills[b].status = "SETTLED" => /\ bills'[b].status = "SETTLED"
                                           /\ bills'[b].paid = bills[b].paid
         /\ bills[b].status = "CANCELLED" => bills'[b] = bills[b]]_vars

\* Working offline, nothing touches a wallet: the balances are the server's.
OfflineLeavesWallets == [][Offline => UNCHANGED wallets]_vars
==============================================================================
