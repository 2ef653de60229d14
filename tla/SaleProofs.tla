----------------------------- MODULE SaleProofs -----------------------------
(***************************************************************************)
(* The safety of SaleBill and of SaleRequests, for any requests, bills,    *)
(* customers, goods and amounts.                                           *)
(*                                                                         *)
(* SaleBill: none of the invariants the runs check is inductive alone: the *)
(* status must be tied to the sums (StatusOf), what returns gave back to   *)
(* the total (ReturnsOf), and the goods back in stock to those returned    *)
(* (GoodsOf).  BillSound is their conjunction for one bill; one lemma per  *)
(* operation shows it keeps a bill sound, and Sound is the invariant.      *)
(*                                                                         *)
(* SaleRequests: its transactions implement SaleBill, and a settlement key *)
(* pays at most once.  The invariant says what each request under way may  *)
(* rely on while others commit: the bill it locked is as it read it, the   *)
(* bill it inserted is its own, the wallet it debited still holds the      *)
(* money, the customer it found within their limit stays within it.  A     *)
(* commit is then a step of SaleBill, and every other step changes nothing *)
(* SaleBill speaks of.                                                     *)
(***************************************************************************)
EXTENDS SaleRequests, SumsProofs, TLAPS

USE FreeGoodsAssumption

StatusOf(i) ==
    /\ i.status = "DRAFT" => i.paid = 0 /\ i.credited = 0
    /\ i.status = "PARTIALLY_SETTLED" => /\ i.paid + i.credited < i.grand
                                         /\ i.paid + i.credited > 0
    /\ i.status = "SETTLED" => i.paid + i.credited = i.grand
    /\ i.status = "CANCELLED" => i.paid = 0 /\ i.credited = 0

ReturnsOf(i) ==
    /\ i.credited + i.refunded <= i.grand
    /\ i.returned = i.sold => i.credited + i.refunded = i.grand
    /\ ~FreeGoods => i.grand > 0
    /\ ~FreeGoods /\ i.returned # NoGoods => i.credited + i.refunded > 0

GoodsOf(i) ==
    /\ Within(i.returned, i.sold)
    /\ i.sold # NoGoods
    /\ i.status # "CANCELLED" => i.back = i.returned
    /\ i.status = "CANCELLED" /\ ~FreeGoods => i.back = i.sold

BillSound(i) == BillBalanced(i) /\ StatusOf(i) /\ ReturnsOf(i) /\ GoodsOf(i)

Sound == \A b \in Bills : Made(b) => BillSound(bills[b])

-----------------------------------------------------------------------------
\* Sums of goods.
LEMMA NoGoodsType == NoGoods \in Goods
BY DEF NoGoods, Goods

LEMMA PlusType == ASSUME NEW x \in Goods, NEW y \in Goods PROVE Plus(x, y) \in Goods
BY DEF Plus, Goods

LEMMA PlusNothing == ASSUME NEW x \in Goods PROVE Plus(NoGoods, x) = x
BY DEF Plus, Goods, NoGoods

LEMMA PlusSomething ==
    ASSUME NEW x \in Goods, NEW y \in Goods, y # NoGoods
    PROVE  Plus(x, y) # NoGoods
<1>1. PICK l \in Lines : y[l] # 0
  BY DEF Goods, NoGoods
<1>2. Plus(x, y)[l] # 0
  BY <1>1 DEF Plus, Goods
<1>3. QED
  BY <1>2 DEF NoGoods

\* The record type's updates.
LEMMA BillFields ==
    ASSUME NEW i \in Bill
    PROVE  /\ i.status \in Statuses /\ i.customer \in Customers /\ i.madeBy \in Roles
           /\ i.madeOn \in Nat /\ i.sold \in Goods /\ i.returned \in Goods /\ i.back \in Goods
           /\ i.grand \in Nat /\ i.paid \in Nat /\ i.credited \in Nat /\ i.refunded \in Nat
BY DEF Bill

-----------------------------------------------------------------------------
\* A new bill is sound.
LEMMA DraftedSound ==
    ASSUME NEW c \in Customers, NEW role \in Roles, NEW day \in Nat, NEW goods \in Goods,
           NEW total \in Nat, goods # NoGoods, FreeGoods \/ total > 0
    PROVE  /\ Drafted(c, role, day, goods, total) \in Bill
           /\ BillSound(Drafted(c, role, day, goods, total))
<1> DEFINE i == Drafted(c, role, day, goods, total)
<1>1. i \in Bill
  BY NoGoodsType DEF Drafted, Bill, Statuses
<1>2. BillBalanced(i) /\ StatusOf(i)
  BY DEF Drafted, BillBalanced, StatusOf
<1>3. ReturnsOf(i)
  BY DEF Drafted, ReturnsOf
<1>4. GoodsOf(i)
  BY DEF Drafted, GoodsOf, Within, NoGoods, Goods
<1>5. QED
  BY <1>1, <1>2, <1>3, <1>4 DEF BillSound

\* A payment keeps a payable bill sound, and changes nothing but the money paid.
LEMMA PaidSound ==
    ASSUME NEW i \in Bill, BillSound(i), Payable(i), NEW amount \in Nat, amount > 0
    PROVE  Paid(i, amount) \in Bill /\ BillSound(Paid(i, amount))
<1> DEFINE p == i.paid + Smaller(amount, Due(i))
           j == Paid(i, amount)
<1> USE BillFields
<1>1. p \in Nat /\ p + i.credited <= i.grand /\ i.paid <= p
  BY DEF Smaller, Due, Larger, BillSound, BillBalanced
<1>2. p + i.credited < i.grand => p > 0
  BY DEF Smaller, Due, Larger, BillSound, BillBalanced
<1>3. /\ j \in Bill
      /\ j.paid = p /\ j.status = StatusFor(i, p, i.credited)
      /\ j.grand = i.grand /\ j.credited = i.credited /\ j.refunded = i.refunded
      /\ j.sold = i.sold /\ j.returned = i.returned /\ j.back = i.back
  <2>1. StatusFor(i, p, i.credited) \in Statuses
    BY DEF StatusFor, Statuses
  <2>2. j = [i EXCEPT !.paid = p, !.status = StatusFor(i, p, i.credited)]
    BY DEF Paid
  <2>3. QED
    BY <1>1, <2>1, <2>2 DEF Bill
<1>4. BillBalanced(j)
  BY <1>1, <1>3 DEF BillSound, BillBalanced
<1>5. StatusOf(j)
  BY <1>1, <1>2, <1>3 DEF StatusFor, StatusOf
<1>6. ReturnsOf(j)
  BY <1>3 DEF BillSound, ReturnsOf
<1>7. GoodsOf(j)
  BY <1>3 DEF BillSound, GoodsOf, Payable, StatusFor
<1>8. QED
  BY <1>3, <1>4, <1>5, <1>6, <1>7 DEF BillSound

\* Any return of a sound bill refunds no more than was paid and not refunded.
LEMMA RefundsArePaid ==
    ASSUME NEW i \in Bill, BillSound(i), NEW goods \in Goods, NEW worth \in Worths(i, goods)
    PROVE  /\ worth \in Nat /\ worth <= LeftToReturn(i)
           /\ DueAdjusted(i, worth) \in Nat /\ RefundAmount(i, worth) \in Nat
           /\ RefundAllowed(i, worth)
<1> USE BillFields
<1>1. LeftToReturn(i) \in Nat
  BY DEF LeftToReturn, BillSound, ReturnsOf
<1>2. worth \in Nat /\ worth <= LeftToReturn(i)
  BY <1>1 DEF Worths
<1>3. DueAdjusted(i, worth) \in Nat /\ RefundAmount(i, worth) \in Nat
  BY <1>2 DEF DueAdjusted, RefundAmount, Smaller, Due, Larger
<1>4. RefundAllowed(i, worth)
  BY <1>2 DEF RefundAllowed, RefundAmount, DueAdjusted, Smaller, Due, Larger, LeftToReturn,
              BillSound, BillBalanced
<1>5. QED
  BY <1>2, <1>3, <1>4

\* A return keeps a bill sound.
LEMMA ReturnedSound ==
    ASSUME NEW i \in Bill, BillSound(i), NEW goods \in Goods, Returnable(i, goods),
           NEW worth \in Worths(i, goods)
    PROVE  Returned(i, goods, worth) \in Bill /\ BillSound(Returned(i, goods, worth))
<1> DEFINE off == DueAdjusted(i, worth)
           credited == i.credited + off
           refunded == i.refunded + RefundAmount(i, worth)
           status == IF off > 0 THEN StatusFor(i, i.paid, credited) ELSE i.status
           j == Returned(i, goods, worth)
<1> USE BillFields, RefundsArePaid
<1>1. credited \in Nat /\ refunded \in Nat /\ credited + refunded = i.credited + i.refunded + worth
  BY DEF RefundAmount
<1>2. status \in Statuses
  BY DEF StatusFor, Statuses
<1>3. Plus(i.returned, goods) \in Goods /\ Plus(i.back, goods) \in Goods
  BY PlusType
<1>4. /\ j \in Bill
      /\ j.status = status /\ j.credited = credited /\ j.refunded = refunded
      /\ j.returned = Plus(i.returned, goods) /\ j.back = Plus(i.back, goods)
      /\ j.grand = i.grand /\ j.paid = i.paid /\ j.sold = i.sold
  <2>1. j = [i EXCEPT !.credited = credited, !.status = status, !.refunded = refunded,
                      !.returned = Plus(i.returned, goods), !.back = Plus(i.back, goods)]
    BY DEF Returned
  <2>2. QED
    BY <1>1, <1>2, <1>3, <2>1 DEF Bill
<1>5. BillBalanced(j)
  BY <1>1, <1>4 DEF BillSound, BillBalanced, RefundAmount, DueAdjusted, Smaller, Due, Larger,
                    RefundAllowed
<1>6. StatusOf(j)
  <2>1. CASE off > 0
    BY <1>1, <1>4, <1>5, <2>1 DEF StatusFor, StatusOf, BillBalanced
  <2>2. CASE ~(off > 0)
    BY <1>1, <1>4, <2>2 DEF BillSound, StatusOf
  <2>3. QED
    BY <2>1, <2>2
<1>7. ReturnsOf(j)
  <2>1. credited + refunded <= i.grand
    BY <1>1 DEF LeftToReturn
  <2>2. Plus(i.returned, goods) = i.sold => credited + refunded = i.grand
    BY <1>1 DEF Worths, LeftToReturn
  <2>3. ~FreeGoods => i.grand > 0
    BY DEF BillSound, ReturnsOf
  <2>4. ~FreeGoods => credited + refunded > 0
    BY <1>1, <2>3 DEF Worths, LeftToReturn
  <2>5. QED
    BY <1>4, <2>1, <2>2, <2>3, <2>4 DEF ReturnsOf
<1>8. GoodsOf(j)
  BY <1>4 DEF BillSound, GoodsOf, Returnable, StatusFor
<1>9. QED
  BY <1>4, <1>5, <1>6, <1>7, <1>8 DEF BillSound

\* Cancelling keeps a bill sound: a bill nothing came off has had no goods
\* worth anything returned, so what goes back is what it sold.
LEMMA CancelledSound ==
    ASSUME NEW i \in Bill, BillSound(i), NEW day, Cancellable(i, day)
    PROVE  Cancelled(i) \in Bill /\ BillSound(Cancelled(i))
<1> DEFINE j == Cancelled(i)
<1> USE BillFields
<1>1. i.status = "DRAFT" /\ i.paid = 0 /\ i.credited = 0 /\ i.refunded = 0
  BY DEF Cancellable, BillSound, StatusOf, BillBalanced
<1>2. /\ j \in Bill
      /\ j.status = "CANCELLED" /\ j.back = Plus(i.back, i.sold)
      /\ j.grand = i.grand /\ j.paid = i.paid /\ j.credited = i.credited /\ j.refunded = i.refunded
      /\ j.sold = i.sold /\ j.returned = i.returned
  <2>1. Plus(i.back, i.sold) \in Goods
    BY PlusType
  <2>2. QED
    BY <2>1 DEF Cancelled, Bill, Statuses
<1>3. ~FreeGoods => i.returned = NoGoods
  BY <1>1 DEF BillSound, ReturnsOf
<1>4. ~FreeGoods => j.back = j.sold
  BY <1>1, <1>2, <1>3, PlusNothing DEF BillSound, GoodsOf
<1>5. BillBalanced(j) /\ StatusOf(j) /\ ReturnsOf(j)
  BY <1>1, <1>2 DEF BillSound, BillBalanced, StatusOf, ReturnsOf
<1>6. GoodsOf(j)
  BY <1>2, <1>4 DEF BillSound, GoodsOf
<1>7. QED
  BY <1>2, <1>5, <1>6 DEF BillSound

-----------------------------------------------------------------------------
IInv == TypeOK /\ Sound

LEMMA MadeIsBill ==
    ASSUME TypeOK, NEW b \in Bills, Made(b)
    PROVE  bills[b] \in Bill /\ bills[b].customer \in Customers
<1>1. bills[b] # NoBill
  BY DEF Made, NoBill
<1>2. QED
  BY <1>1 DEF TypeOK, Bill

\* Writing one sound bill keeps all of them sound.
LEMMA OneBillWritten ==
    ASSUME IInv, NEW b \in Bills, NEW i \in Bill, BillSound(i),
           bills' = [bills EXCEPT ![b] = i]
    PROVE  /\ bills' \in [Bills -> Bill \cup {NoBill}]
           /\ Sound'
<1>1. bills' \in [Bills -> Bill \cup {NoBill}]
  BY DEF IInv, TypeOK
<1>2. ASSUME NEW d \in Bills, Made(d)' PROVE BillSound(bills'[d])
  <2>1. CASE d = b
    BY <2>1 DEF IInv, TypeOK
  <2>2. CASE d # b
    <3>1. bills'[d] = bills[d]
      BY <2>2 DEF IInv, TypeOK
    <3>2. QED
      BY <1>2, <3>1 DEF IInv, Sound, Made
  <2>3. QED
    BY <2>1, <2>2
<1>3. QED
  BY <1>1, <1>2 DEF Sound

\* A wallet after a payment it covers holds no less than nothing.
LEMMA WalletAfterType ==
    ASSUME NEW i \in Bill, NEW money \in Nat, NEW wallet \in Nat, NEW balance \in Nat,
           wallet <= balance
    PROVE  WalletAfter(i, money, wallet, balance) \in Nat
BY BillFields DEF WalletAfter, Excess, Larger, Due

LEMMA Initially == Init => IInv
<1> SUFFICES ASSUME Init PROVE IInv
  OBVIOUS
<1>1. TypeOK
  BY DEF Init, TypeOK
<1>2. Sound
  BY DEF Init, Sound, Made, NoBill
<1>3. QED
  BY <1>1, <1>2 DEF IInv

LEMMA SettleKeeps ==
    ASSUME IInv, NEW b \in Bills, NEW money \in Nat, NEW wallet \in Nat, Settle(b, money, wallet)
    PROVE  IInv'
<1> DEFINE i == bills[b]
<1>1. i \in Bill /\ i.customer \in Customers /\ BillSound(i)
  BY MadeIsBill DEF Settle, IInv, Sound
<1>2. /\ Payable(i) /\ money + wallet > 0 /\ wallet <= wallets[i.customer]
      /\ bills' = [bills EXCEPT ![b] = Paid(i, money + wallet)]
      /\ wallets' = [wallets EXCEPT ![i.customer] = WalletAfter(i, money, wallet, wallets[i.customer])]
      /\ drawer' = drawer + money /\ adjusted' = adjusted /\ today' = today
  BY DEF Settle, PaymentAllowed
<1>3. Paid(i, money + wallet) \in Bill /\ BillSound(Paid(i, money + wallet))
  BY <1>1, <1>2, PaidSound
<1>4. bills' \in [Bills -> Bill \cup {NoBill}] /\ Sound'
  BY <1>2, <1>3, OneBillWritten
<1>5. wallets' \in [Customers -> Nat]
  BY <1>1, <1>2, WalletAfterType DEF IInv, TypeOK
<1>6. QED
  BY <1>2, <1>4, <1>5 DEF IInv, TypeOK

LEMMA CheckoutKeeps ==
    ASSUME IInv, SaleBillAssumption, NEW b \in Bills, NEW c \in Customers, NEW role \in Roles,
           NEW goods \in Baskets, NEW total \in Nat, FreeGoods \/ total > 0,
           NEW money \in Nat, NEW wallet \in Nat,
           Checkout(b, c, role, goods, total, money, wallet)
    PROVE  IInv'
<1> DEFINE new == Drafted(c, role, today, goods, total)
           made == IF money + wallet = 0 THEN new ELSE Paid(new, money + wallet)
<1>1. new \in Bill /\ BillSound(new)
  BY DraftedSound DEF Checkout, SaleBillAssumption, IInv, TypeOK
<1>2. /\ money + wallet > 0 => PaymentAllowed(new, money, wallet, wallets[c])
      /\ bills' = [bills EXCEPT ![b] = made]
      /\ wallets' = [wallets EXCEPT ![c] = IF money + wallet = 0 THEN wallets[c]
                                           ELSE WalletAfter(new, money, wallet, wallets[c])]
      /\ drawer' = drawer + money /\ adjusted' = adjusted /\ today' = today
  BY DEF Checkout
<1>3. made \in Bill /\ BillSound(made)
  BY <1>1, <1>2, PaidSound DEF PaymentAllowed
<1>4. bills' \in [Bills -> Bill \cup {NoBill}] /\ Sound'
  BY <1>2, <1>3, OneBillWritten
<1>5. wallets' \in [Customers -> Nat]
  <2>1. wallets \in [Customers -> Nat]
    BY DEF IInv, TypeOK
  <2>2. CASE money + wallet = 0
    BY <1>2, <2>1, <2>2
  <2>3. CASE money + wallet > 0
    <3>1. wallet <= wallets[c]
      BY <1>2, <2>3 DEF PaymentAllowed
    <3>2. WalletAfter(new, money, wallet, wallets[c]) \in Nat
      BY <1>1, <2>1, <3>1, WalletAfterType
    <3>3. QED
      BY <1>2, <2>1, <2>3, <3>2
  <2>4. QED
    BY <2>2, <2>3
<1>6. QED
  BY <1>2, <1>4, <1>5 DEF IInv, TypeOK

LEMMA CreateSaleKeeps ==
    ASSUME IInv, SaleBillAssumption, NEW b \in Bills, NEW c \in Customers, NEW role \in Roles,
           NEW goods \in Baskets, NEW total \in Nat, FreeGoods \/ total > 0,
           CreateSale(b, c, role, goods, total)
    PROVE  IInv'
<1> DEFINE new == Drafted(c, role, today, goods, total)
<1>1. new \in Bill /\ BillSound(new)
  BY DraftedSound DEF CreateSale, SaleBillAssumption, IInv, TypeOK
<1>2. bills' \in [Bills -> Bill \cup {NoBill}] /\ Sound'
  BY <1>1, OneBillWritten DEF CreateSale
<1>3. QED
  BY <1>2 DEF CreateSale, IInv, TypeOK

LEMMA CreateReturnKeeps ==
    ASSUME IInv, SaleBillAssumption, NEW b \in Bills, NEW role \in Roles, NEW goods \in Baskets,
           NEW mode \in {"CASH", "WALLET"}, CreateReturn(b, role, goods, mode)
    PROVE  IInv'
<1> DEFINE i == bills[b]
<1>1. i \in Bill /\ i.customer \in Customers /\ BillSound(i) /\ Returnable(i, goods)
  BY MadeIsBill DEF CreateReturn, IInv, Sound
<1>2. PICK worth \in Worths(i, goods) :
        /\ bills' = [bills EXCEPT ![b] = Returned(i, goods, worth)]
        /\ IF mode = "WALLET"
           THEN /\ wallets' = [wallets EXCEPT ![i.customer] = wallets[i.customer] + RefundAmount(i, worth)]
                /\ drawer' = drawer
           ELSE /\ wallets' = wallets
                /\ drawer' = drawer - RefundAmount(i, worth)
  BY DEF CreateReturn
<1>3. goods \in Goods
  BY DEF SaleBillAssumption
<1>4. Returned(i, goods, worth) \in Bill /\ BillSound(Returned(i, goods, worth))
  BY <1>1, <1>3, ReturnedSound
<1>5. bills' \in [Bills -> Bill \cup {NoBill}] /\ Sound'
  BY <1>2, <1>4, OneBillWritten
<1>6. RefundAmount(i, worth) \in Nat
  BY <1>1, <1>3, RefundsArePaid
<1>7. wallets' \in [Customers -> Nat] /\ drawer' \in Int
  BY <1>1, <1>2, <1>6 DEF IInv, TypeOK
<1>8. adjusted' = adjusted /\ today' = today
  BY DEF CreateReturn
<1>9. QED
  BY <1>5, <1>7, <1>8 DEF IInv, TypeOK

LEMMA CancelSaleKeeps ==
    ASSUME IInv, NEW b \in Bills, CancelSale(b)
    PROVE  IInv'
<1>1. bills[b] \in Bill /\ BillSound(bills[b]) /\ Cancellable(bills[b], today)
  BY MadeIsBill DEF CancelSale, IInv, Sound
<1>2. Cancelled(bills[b]) \in Bill /\ BillSound(Cancelled(bills[b]))
  BY <1>1, CancelledSound
<1>3. bills' = [bills EXCEPT ![b] = Cancelled(bills[b])]
  BY DEF CancelSale
<1>4. bills' \in [Bills -> Bill \cup {NoBill}] /\ Sound'
  BY <1>2, <1>3, OneBillWritten
<1>5. QED
  BY <1>4 DEF CancelSale, IInv, TypeOK

\* What leaves the bills alone keeps them sound.
LEMMA BillsUntouched == Sound /\ bills' = bills => Sound'
BY DEF Sound, Made

LEMMA EveryStepKeeps == SaleBillAssumption /\ IInv /\ [Next]_vars => IInv'
<1> SUFFICES ASSUME SaleBillAssumption, IInv, [Next]_vars PROVE IInv'
  OBVIOUS
<1> USE DEF SaleBillAssumption
<1>1. ASSUME NEW b \in Bills, NEW c \in Customers, NEW role \in Roles, NEW goods \in Baskets,
             NEW total \in (IF FreeGoods THEN 0 ELSE 1)..MaxGrand,
             \/ CreateSale(b, c, role, goods, total)
             \/ \E money, wallet \in 0..MaxPay : Checkout(b, c, role, goods, total, money, wallet)
      PROVE  IInv'
  <2>1. total \in Nat /\ (FreeGoods \/ total > 0)
    OBVIOUS
  <2>2. QED
    BY <1>1, <2>1, CreateSaleKeeps, CheckoutKeeps
<1>2. ASSUME NEW b \in Bills, NEW money \in 0..MaxPay, NEW wallet \in 0..MaxPay,
             Settle(b, money, wallet)
      PROVE  IInv'
  BY <1>2, SettleKeeps
<1>3. ASSUME NEW b \in Bills, NEW role \in Roles, NEW goods \in Baskets,
             NEW mode \in {"CASH", "WALLET"}, CreateReturn(b, role, goods, mode)
      PROVE  IInv'
  BY <1>3, CreateReturnKeeps
<1>4. ASSUME NEW b \in Bills, CancelSale(b) PROVE IInv'
  BY <1>4, CancelSaleKeeps
<1>5. ASSUME NEW c \in Customers, NEW amount \in 1..MaxTopup, TopupWallet(c, amount) PROVE IInv'
  BY <1>5, BillsUntouched DEF TopupWallet, IInv, TypeOK
<1>6. ASSUME NEW c \in Customers, NEW change \in (-MaxAdjust)..MaxAdjust, AdjustWallet(c, change)
      PROVE  IInv'
  BY <1>6, BillsUntouched DEF AdjustWallet, IInv, TypeOK
<1>7. CASE NextDay
  BY <1>7, BillsUntouched DEF NextDay, IInv, TypeOK
<1>8. CASE UNCHANGED vars
  BY <1>8, BillsUntouched DEF vars, IInv, TypeOK
<1>9. QED
  BY <1>1, <1>2, <1>3, <1>4, <1>5, <1>6, <1>7, <1>8 DEF Next

LEMMA Invariant == Spec => []IInv
BY Initially, EveryStepKeeps, SaleBillAssumption, PTL DEF Spec

-----------------------------------------------------------------------------
(***************************************************************************)
(* The rows keep their types; in particular no wallet goes below 0.        *)
(***************************************************************************)
THEOREM TypesKept == Spec => []TypeOK
<1>1. IInv => TypeOK
  BY DEF IInv
<1>2. QED
  BY Invariant, <1>1, PTL

(***************************************************************************)
(* No bill ever has more collected than its total, or hands back money     *)
(* before it is covered.                                                   *)
(***************************************************************************)
THEOREM NeverOverCollectedHolds == Spec => []NeverOverCollected
<1>1. IInv => NeverOverCollected
  BY DEF IInv, Sound, BillSound, NeverOverCollected
<1>2. QED
  BY Invariant, <1>1, PTL

(***************************************************************************)
(* A bill's status always agrees with its money.                           *)
(***************************************************************************)
THEOREM StatusTellsDueHolds == Spec => []StatusTellsDue
<1>1. IInv => StatusTellsDue
  <2> SUFFICES ASSUME IInv, NEW b \in Bills, Made(b)
               PROVE  LET i == bills[b] IN
                      /\ i.status = "SETTLED" => Due(i) = 0
                      /\ i.status = "PARTIALLY_SETTLED" => Due(i) > 0 /\ i.paid + i.credited > 0
                      /\ i.status = "DRAFT" => Due(i) = i.grand
                      /\ i.status = "CANCELLED" => i.paid = 0 /\ i.credited = 0 /\ i.refunded = 0
    BY DEF StatusTellsDue
  <2>1. bills[b] \in Bill /\ BillSound(bills[b])
    BY MadeIsBill DEF IInv, Sound
  <2>2. QED
    BY <2>1, BillFields DEF BillSound, StatusOf, BillBalanced, Due, Larger
<1>2. QED
  BY Invariant, <1>1, PTL

(***************************************************************************)
(* Goods all back: nothing owed, and exactly what was paid handed back.    *)
(***************************************************************************)
THEOREM FullReturnSquaresHolds == Spec => []FullReturnSquares
<1>1. IInv => FullReturnSquares
  <2> SUFFICES ASSUME IInv, NEW b \in Bills, Made(b), bills[b].returned = bills[b].sold,
                      bills[b].status # "CANCELLED"
               PROVE  Due(bills[b]) = 0 /\ bills[b].refunded = bills[b].paid
    BY DEF FullReturnSquares
  <2>1. bills[b] \in Bill /\ BillSound(bills[b])
    BY MadeIsBill DEF IInv, Sound
  <2>2. /\ bills[b].grand \in Nat /\ bills[b].paid \in Nat
        /\ bills[b].credited \in Nat /\ bills[b].refunded \in Nat
    BY <2>1, BillFields
  <2>3. bills[b].refunded = bills[b].paid /\ bills[b].paid + bills[b].credited = bills[b].grand
    BY <2>1, <2>2 DEF BillSound, ReturnsOf, BillBalanced
  <2>4. QED
    BY <2>2, <2>3 DEF Due, Larger
<1>2. QED
  BY Invariant, <1>1, PTL

(***************************************************************************)
(* createReturn's refund check never refuses goods that are still out.     *)
(***************************************************************************)
THEOREM RefundCheckNeverBitesHolds == Spec => []RefundCheckNeverBites
<1>1. IInv => RefundCheckNeverBites
  BY SaleBillAssumption, MadeIsBill, RefundsArePaid
     DEF IInv, Sound, RefundCheckNeverBites, SaleBillAssumption
<1>2. QED
  BY Invariant, <1>1, PTL

(***************************************************************************)
(* What a bill says of its money is always so.                             *)
(***************************************************************************)
THEOREM MoneyAgreesHolds == Spec => []MoneyAgrees
<1>1. NeverOverCollected /\ StatusTellsDue /\ RefundCheckNeverBites => MoneyAgrees
  BY DEF MoneyAgrees
<1>2. QED
  BY NeverOverCollectedHolds, StatusTellsDueHolds, RefundCheckNeverBitesHolds, <1>1, PTL

(***************************************************************************)
(* When no line is worth nothing, goods come back at most once.  (With     *)
(* free lines they can come back twice: see the finding on cancelSale.)    *)
(***************************************************************************)
THEOREM GoodsBackAtMostOnceHolds ==
    ASSUME ~FreeGoods
    PROVE  Spec => []GoodsBackAtMostOnce
<1>1. IInv => GoodsBackAtMostOnce
  <2> SUFFICES ASSUME IInv, NEW b \in Bills, Made(b)
               PROVE  Within(bills[b].back, bills[b].sold)
    BY DEF GoodsBackAtMostOnce
  <2>1. bills[b] \in Bill /\ BillSound(bills[b])
    BY MadeIsBill DEF IInv, Sound
  <2>2. CASE bills[b].status = "CANCELLED"
    <3>1. bills[b].back = bills[b].sold /\ bills[b].sold \in Goods
      BY <2>1, <2>2, BillFields DEF BillSound, GoodsOf
    <3>2. QED
      BY <3>1 DEF Within, Goods
  <2>3. CASE bills[b].status # "CANCELLED"
    BY <2>1, <2>3 DEF BillSound, GoodsOf
  <2>4. QED
    BY <2>2, <2>3
<1>2. QED
  BY Invariant, <1>1, PTL

-----------------------------------------------------------------------------
\* What may not change about bill b in a step: nothing it was closed with.
ClosedKept(b) ==
    Made(b) =>
        /\ bills[b].status = "SETTLED" => /\ bills'[b].status = "SETTLED"
                                          /\ bills'[b].paid = bills[b].paid
        /\ bills[b].status = "CANCELLED" => bills'[b] = bills[b]

\* A bill made by the step was none before it, and no other bill changes.
LEMMA NewBillCloses ==
    ASSUME TypeOK, NEW n \in Bills, ~Made(n), NEW i, bills' = [bills EXCEPT ![n] = i],
           NEW b \in Bills
    PROVE  ClosedKept(b)
<1>1. Made(b) => bills'[b] = bills[b]
  BY DEF TypeOK
<1>2. QED
  BY <1>1 DEF ClosedKept

\* A return of a settled bill takes nothing off its due and leaves its status.
LEMMA SettledReturned ==
    ASSUME NEW i \in Bill, BillSound(i), i.status = "SETTLED", NEW goods \in Goods,
           NEW worth \in Worths(i, goods)
    PROVE  /\ Returned(i, goods, worth).status = "SETTLED"
           /\ Returned(i, goods, worth).paid = i.paid
<1>1. i.grand \in Nat /\ i.paid \in Nat /\ i.credited \in Nat /\ worth \in Nat
  BY BillFields, RefundsArePaid
<1>2. i.paid + i.credited = i.grand
  BY DEF BillSound, StatusOf
<1>3. Due(i) = 0
  BY <1>1, <1>2 DEF Due, Larger
<1>4. DueAdjusted(i, worth) = 0
  BY <1>1, <1>3 DEF DueAdjusted, Smaller
<1>5. QED
  BY <1>4 DEF Returned, Bill

LEMMA StepKeepsClosed ==
    ASSUME SaleBillAssumption, IInv, [Next]_vars, NEW b \in Bills
    PROVE  ClosedKept(b)
<1> USE DEF IInv
<1>1. ASSUME NEW n \in Bills, NEW c \in Customers, NEW role \in Roles, NEW goods \in Baskets,
             NEW total \in (IF FreeGoods THEN 0 ELSE 1)..MaxGrand,
             \/ CreateSale(n, c, role, goods, total)
             \/ \E money, wallet \in 0..MaxPay : Checkout(n, c, role, goods, total, money, wallet)
      PROVE  ClosedKept(b)
  BY <1>1, NewBillCloses DEF CreateSale, Checkout
<1>2. ASSUME NEW n \in Bills, NEW money \in 0..MaxPay, NEW wallet \in 0..MaxPay,
             Settle(n, money, wallet)
      PROVE  ClosedKept(b)
  <2>1. bills[n].status \notin {"SETTLED", "CANCELLED"}
    BY <1>2 DEF Settle, PaymentAllowed, Payable
  <2>2. b # n => bills'[b] = bills[b]
    BY <1>2 DEF Settle, TypeOK
  <2>3. QED
    BY <2>1, <2>2 DEF ClosedKept
<1>3. ASSUME NEW n \in Bills, NEW role \in Roles, NEW goods \in Baskets,
             NEW mode \in {"CASH", "WALLET"}, CreateReturn(n, role, goods, mode)
      PROVE  ClosedKept(b)
  <2>1. PICK worth \in Worths(bills[n], goods) :
          bills' = [bills EXCEPT ![n] = Returned(bills[n], goods, worth)]
    BY <1>3 DEF CreateReturn
  <2>2. bills[n] \in Bill /\ BillSound(bills[n]) /\ bills[n].status # "CANCELLED" /\ goods \in Goods
    BY <1>3, MadeIsBill DEF CreateReturn, Returnable, Sound, SaleBillAssumption
  <2>3. CASE b # n
    BY <2>1, <2>3 DEF TypeOK, ClosedKept
  <2>4. CASE b = n
    <3>1. bills'[b] = Returned(bills[b], goods, worth)
      BY <2>1, <2>4 DEF TypeOK
    <3>2. QED
      BY <2>2, <2>4, <3>1, SettledReturned DEF ClosedKept
  <2>5. QED
    BY <2>3, <2>4
<1>4. ASSUME NEW n \in Bills, CancelSale(n) PROVE ClosedKept(b)
  <2>1. bills[n].status = "DRAFT"
    BY <1>4 DEF CancelSale, Cancellable
  <2>2. b # n => bills'[b] = bills[b]
    BY <1>4 DEF CancelSale, TypeOK
  <2>3. QED
    BY <2>1, <2>2 DEF ClosedKept
<1>5. bills' = bills => ClosedKept(b)
  BY DEF ClosedKept
<1>6. QED
  BY <1>1, <1>2, <1>3, <1>4, <1>5 DEF Next, TopupWallet, AdjustWallet, NextDay, vars

(***************************************************************************)
(* A settled bill stays settled with what was paid on it, and a cancelled  *)
(* one never changes: no order of payments, returns and cancellations      *)
(* reopens either.                                                         *)
(***************************************************************************)
THEOREM SettledStaysSettledHolds == Spec => SettledStaysSettled
<1>1. SaleBillAssumption /\ IInv /\ [Next]_vars =>
        [\A b \in Bills : Made(b) =>
           /\ bills[b].status = "SETTLED" => /\ bills'[b].status = "SETTLED"
                                             /\ bills'[b].paid = bills[b].paid
           /\ bills[b].status = "CANCELLED" => bills'[b] = bills[b]]_vars
  BY StepKeepsClosed DEF ClosedKept
<1>2. QED
  BY Invariant, <1>1, SaleBillAssumption, PTL DEF Spec, SettledStaysSettled

\* Offline, a payment that is allowed leaves the wallet as it was.
LEMMA OfflinePayment ==
    ASSUME Offline, NEW i \in Bill, NEW money \in Nat, NEW wallet \in Nat, NEW balance \in Nat,
           PaymentAllowed(i, money, wallet, balance)
    PROVE  WalletAfter(i, money, wallet, balance) = balance
BY DEF PaymentAllowed, WalletAfter

LEMMA OfflineStep ==
    ASSUME SaleBillAssumption, IInv, [Next]_vars, Offline
    PROVE  wallets' = wallets
<1> USE DEF IInv
<1>1. wallets \in [Customers -> Nat]
  BY DEF TypeOK
<1>2. ASSUME NEW n \in Bills, NEW c \in Customers, NEW role \in Roles, NEW goods \in Baskets,
             NEW total \in (IF FreeGoods THEN 0 ELSE 1)..MaxGrand, NEW money \in 0..MaxPay,
             NEW wallet \in 0..MaxPay, Checkout(n, c, role, goods, total, money, wallet)
      PROVE  wallets' = wallets
  <2> DEFINE new == Drafted(c, role, today, goods, total)
  <2>1. new \in Bill /\ money \in Nat /\ wallet \in Nat
    BY <1>2, DraftedSound DEF Checkout, SaleBillAssumption, TypeOK
  <2>2. money + wallet > 0 => WalletAfter(new, money, wallet, wallets[c]) = wallets[c]
    BY <1>1, <1>2, <2>1, OfflinePayment DEF Checkout
  <2>3. wallets' = [wallets EXCEPT ![c] = IF money + wallet = 0 THEN wallets[c]
                                          ELSE WalletAfter(new, money, wallet, wallets[c])]
    BY <1>2 DEF Checkout
  <2>4. wallets' = [wallets EXCEPT ![c] = wallets[c]]
    <3>1. CASE money + wallet = 0
      BY <2>3, <3>1
    <3>2. CASE money + wallet > 0
      <4>1. money + wallet # 0
        BY <2>1, <3>2
      <4>2. QED
        BY <2>2, <2>3, <3>2, <4>1, Zenon
    <3>3. QED
      BY <2>1, <3>1, <3>2
  <2>5. QED
    BY <1>1, <2>4
<1>3. ASSUME NEW n \in Bills, NEW money \in 0..MaxPay, NEW wallet \in 0..MaxPay,
             Settle(n, money, wallet)
      PROVE  wallets' = wallets
  <2> DEFINE c == bills[n].customer
  <2>1. bills[n] \in Bill /\ c \in Customers /\ money \in Nat /\ wallet \in Nat
    BY <1>3, MadeIsBill DEF Settle, SaleBillAssumption
  <2>2. WalletAfter(bills[n], money, wallet, wallets[c]) = wallets[c]
    BY <1>1, <1>3, <2>1, OfflinePayment DEF Settle
  <2>3. wallets' = [wallets EXCEPT ![c] = WalletAfter(bills[n], money, wallet, wallets[c])]
    BY <1>3 DEF Settle
  <2>4. QED
    BY <1>1, <2>2, <2>3
<1>4. ASSUME NEW n \in Bills, NEW role \in Roles, NEW goods \in Baskets,
             NEW mode \in {"CASH", "WALLET"}, CreateReturn(n, role, goods, mode)
      PROVE  wallets' = wallets
  <2> DEFINE c == bills[n].customer
  <2>1. PICK worth \in Worths(bills[n], goods) :
          /\ RefundAmount(bills[n], worth) > 0 /\ mode = "WALLET" => ~Offline
          /\ IF mode = "WALLET"
             THEN wallets' = [wallets EXCEPT ![c] = wallets[c] + RefundAmount(bills[n], worth)]
             ELSE wallets' = wallets
    BY <1>4 DEF CreateReturn
  <2>2. RefundAmount(bills[n], worth) \in Nat
    BY <1>4, MadeIsBill, RefundsArePaid DEF CreateReturn, Sound, SaleBillAssumption
  <2>3. mode = "WALLET" => RefundAmount(bills[n], worth) = 0
    BY <2>1, <2>2
  <2>4. c \in Customers
    BY <1>4, MadeIsBill DEF CreateReturn
  <2>5. QED
    BY <1>1, <2>1, <2>3, <2>4
<1>5. QED
  BY <1>2, <1>3, <1>4 DEF Next, CreateSale, CancelSale, TopupWallet, AdjustWallet, NextDay, vars

(***************************************************************************)
(* On a fallback counter's copy no wallet changes, whatever is sold, paid  *)
(* or returned there.                                                      *)
(***************************************************************************)
THEOREM OfflineLeavesWalletsHolds == Spec => OfflineLeavesWallets
<1>1. SaleBillAssumption /\ IInv /\ [Next]_vars => [Offline => UNCHANGED wallets]_vars
  BY OfflineStep
<1>2. QED
  BY Invariant, <1>1, SaleBillAssumption, PTL DEF Spec, OfflineLeavesWallets

-----------------------------------------------------------------------------
(* Sums over bills and wallets: one bill or one wallet is changed a step.  *)

LEMMA WalletTotal ==
    ASSUME SaleBillAssumption, wallets \in [Customers -> Nat], wallets' \in [Customers -> Nat],
           NEW c \in Customers, \A d \in Customers \ {c} : wallets[d] = wallets'[d]
    PROVE  /\ Total(wallets') = Total(wallets) - wallets[c] + wallets'[c]
           /\ Total(wallets) \in Int /\ wallets[c] \in Nat /\ wallets'[c] \in Nat
<1>1. wallets \in [Customers -> Int] /\ wallets' \in [Customers -> Int] /\ IsFiniteSet(Customers)
  BY DEF SaleBillAssumption
<1>2. QED
  BY <1>1, TotalChanged, TotalType

\* What a bill holds: nothing before it is made.
Holds(i) == IF i.status = "NONE" THEN 0 ELSE i.paid - i.refunded
Holdings(bs) == [b \in Bills |-> Holds(bs[b])]

LEMMA HoldingsTyped ==
    ASSUME NEW bs \in [Bills -> Bill \cup {NoBill}]
    PROVE  Holdings(bs) \in [Bills -> Int] /\ \A b \in Bills : Holdings(bs)[b] = Holds(bs[b])
<1>1. \A b \in Bills : Holds(bs[b]) \in Int
  <2>1. SUFFICES ASSUME NEW b \in Bills PROVE Holds(bs[b]) \in Int
    OBVIOUS
  <2>2. CASE bs[b] \in Bill
    BY <2>2, BillFields DEF Holds
  <2>3. CASE bs[b] = NoBill
    BY <2>3 DEF Holds, NoBill
  <2>4. QED
    BY <2>2, <2>3
<1>2. QED
  BY <1>1 DEF Holdings

LEMMA HoldingsTotal ==
    ASSUME SaleBillAssumption, TypeOK, TypeOK', NEW b \in Bills,
           \A d \in Bills \ {b} : bills[d] = bills'[d]
    PROVE  /\ Total(Holdings(bills')) = Total(Holdings(bills)) - Holds(bills[b]) + Holds(bills'[b])
           /\ Total(Holdings(bills)) \in Int
<1>1. /\ Holdings(bills) \in [Bills -> Int] /\ \A d \in Bills : Holdings(bills)[d] = Holds(bills[d])
      /\ Holdings(bills') \in [Bills -> Int] /\ \A d \in Bills : Holdings(bills')[d] = Holds(bills'[d])
      /\ IsFiniteSet(Bills)
  BY HoldingsTyped DEF SaleBillAssumption, TypeOK
<1>2. \A d \in Bills \ {b} : Holdings(bills)[d] = Holdings(bills')[d]
  BY <1>1
<1>3. /\ Total(Holdings(bills')) = Total(Holdings(bills)) - Holdings(bills)[b] + Holdings(bills')[b]
      /\ Total(Holdings(bills)) \in Int
  BY <1>1, <1>2, TotalChanged, TotalType
<1>4. QED
  BY <1>1, <1>3

MoneyInv == drawer + adjusted = Total(Holdings(bills)) + Total(wallets)

LEMMA MoneyByBills ==
    ASSUME SaleBillAssumption, TypeOK, MoneyInv
    PROVE  MoneyAccountedFor
<1> DEFINE T == {n \in Bills : Made(n)}
           f == [b \in T |-> bills[b].paid - bills[b].refunded]
<1>1. \A b \in T : bills[b].paid - bills[b].refunded \in Int
  BY MadeIsBill, BillFields
<1>2. f \in [T -> Int] /\ T \in SUBSET Bills /\ IsFiniteSet(Bills) /\ Holdings(bills) \in [Bills -> Int]
  BY <1>1, HoldingsTyped DEF SaleBillAssumption, TypeOK
<1>3. \A b \in Bills : Holdings(bills)[b] = IF b \in T THEN f[b] ELSE 0
  BY DEF Holdings, Holds, Made
<1>4. MoneyAccountedFor <=> drawer + adjusted = Total(f) + Total(wallets)
  BY DEF MoneyAccountedFor
<1> HIDE DEF T, f
<1>5. Total(f) = Total(Holdings(bills))
  BY <1>2, <1>3, TotalRestricted
<1>6. QED
  BY <1>4, <1>5 DEF MoneyInv

\* A payment goes on the bill or into the wallet, and nowhere else.
LEMMA PaymentSplits ==
    ASSUME NEW i \in Bill, NEW money \in Nat, NEW wallet \in Nat, NEW balance \in Nat
    PROVE  /\ Paid(i, money + wallet).refunded = i.refunded
           /\ Paid(i, money + wallet).paid + WalletAfter(i, money, wallet, balance) = i.paid + balance + money
<1> DEFINE p == i.paid + Smaller(money + wallet, Due(i))
<1>1. /\ Paid(i, money + wallet).refunded = i.refunded
      /\ Paid(i, money + wallet).paid = p
  BY DEF Paid, Bill
<1>2. Due(i) \in Nat /\ i.paid \in Nat
  BY BillFields DEF Due, Larger
<1>3. p + WalletAfter(i, money, wallet, balance) = i.paid + balance + money
  BY <1>2 DEF WalletAfter, Excess, Larger, Smaller
<1>4. QED
  BY <1>1, <1>3

\* The drawer, a bill and a wallet change together.
LEMMA OneStepMoney ==
    ASSUME SaleBillAssumption, TypeOK, TypeOK', MoneyInv, NEW b \in Bills, NEW c \in Customers,
           \A d \in Bills \ {b} : bills[d] = bills'[d],
           \A d \in Customers \ {c} : wallets[d] = wallets'[d],
           (drawer' - drawer) + (adjusted' - adjusted)
             = (Holds(bills'[b]) - Holds(bills[b])) + (wallets'[c] - wallets[c])
    PROVE  MoneyInv'
<1>1. /\ Total(Holdings(bills')) = Total(Holdings(bills)) - Holds(bills[b]) + Holds(bills'[b])
      /\ Total(Holdings(bills)) \in Int
  BY HoldingsTotal
<1>2. /\ Total(wallets') = Total(wallets) - wallets[c] + wallets'[c]
      /\ Total(wallets) \in Int /\ wallets[c] \in Nat /\ wallets'[c] \in Nat
  BY WalletTotal DEF TypeOK
<1>3. Holds(bills[b]) \in Int /\ Holds(bills'[b]) \in Int
  BY HoldingsTyped DEF TypeOK
<1>4. drawer \in Int /\ drawer' \in Int /\ adjusted \in Int /\ adjusted' \in Int
  BY DEF TypeOK
<1>5. drawer' + adjusted' = Total(Holdings(bills')) + Total(wallets')
  BY <1>1, <1>2, <1>3, <1>4 DEF MoneyInv
<1>6. QED
  BY <1>5 DEF MoneyInv

LEMMA SettleMoney ==
    ASSUME SaleBillAssumption, IInv, TypeOK', MoneyInv, NEW b \in Bills, NEW money \in Nat, NEW wallet \in Nat,
           Settle(b, money, wallet)
    PROVE  MoneyInv'
<1> DEFINE i == bills[b]
           c == i.customer
<1>1. i \in Bill /\ c \in Customers /\ TypeOK /\ i.status # "NONE"
  BY MadeIsBill DEF Settle, IInv, Made
<1>2. /\ bills' = [bills EXCEPT ![b] = Paid(i, money + wallet)]
      /\ wallets' = [wallets EXCEPT ![c] = WalletAfter(i, money, wallet, wallets[c])]
      /\ drawer' = drawer + money /\ adjusted' = adjusted
  BY DEF Settle
<1>3. /\ bills'[b] = Paid(i, money + wallet) /\ wallets'[c] = WalletAfter(i, money, wallet, wallets[c])
      /\ \A d \in Bills \ {b} : bills[d] = bills'[d]
      /\ \A d \in Customers \ {c} : wallets[d] = wallets'[d]
  BY <1>1, <1>2 DEF TypeOK
<1>4. wallets[c] \in Nat /\ wallets'[c] \in Nat /\ drawer \in Int /\ adjusted \in Int
  BY <1>1 DEF TypeOK
<1>5. bills'[b] \in Bill /\ bills'[b].status # "NONE"
  <2>1. Paid(i, money + wallet).status # "NONE"
    BY <1>1 DEF Paid, StatusFor, Bill
  <2>2. bills'[b] # NoBill
    BY <1>3, <2>1 DEF NoBill
  <2>3. QED
    BY <1>3, <2>1, <2>2 DEF TypeOK
<1> HIDE DEF i, c
<1>6. bills'[b].refunded = i.refunded /\ bills'[b].paid + wallets'[c] = i.paid + wallets[c] + money
  BY <1>1, <1>3, <1>4, PaymentSplits
<1>7. Holds(i) = i.paid - i.refunded /\ Holds(bills'[b]) = bills'[b].paid - bills'[b].refunded
  BY <1>1, <1>5 DEF Holds
<1>8. i.paid \in Nat /\ i.refunded \in Nat /\ bills'[b].paid \in Nat
  BY <1>1, <1>5, BillFields
<1>9. (drawer' - drawer) + (adjusted' - adjusted)
        = (Holds(bills'[b]) - Holds(bills[b])) + (wallets'[c] - wallets[c])
  BY <1>2, <1>4, <1>6, <1>7, <1>8 DEF i
<1>10. QED
  BY <1>1, <1>3, <1>9, OneStepMoney

LEMMA CheckoutMoney ==
    ASSUME SaleBillAssumption, IInv, TypeOK', MoneyInv, NEW b \in Bills, NEW c \in Customers, NEW role \in Roles,
           NEW goods \in Baskets, NEW total \in Nat, FreeGoods \/ total > 0,
           NEW money \in Nat, NEW wallet \in Nat, Checkout(b, c, role, goods, total, money, wallet)
    PROVE  MoneyInv'
<1> DEFINE new == Drafted(c, role, today, goods, total)
           made == IF money + wallet = 0 THEN new ELSE Paid(new, money + wallet)
<1>1. /\ new \in Bill /\ new.paid = 0 /\ new.refunded = 0 /\ TypeOK
      /\ new.status # "NONE" /\ bills[b].status = "NONE"
  BY DraftedSound DEF Checkout, SaleBillAssumption, IInv, TypeOK, Drafted, Made
<1>2. /\ bills' = [bills EXCEPT ![b] = made]
      /\ wallets' = [wallets EXCEPT ![c] = IF money + wallet = 0 THEN wallets[c]
                                           ELSE WalletAfter(new, money, wallet, wallets[c])]
      /\ drawer' = drawer + money /\ adjusted' = adjusted
  BY DEF Checkout
<1>3. /\ bills'[b] = made
      /\ wallets'[c] = IF money + wallet = 0 THEN wallets[c] ELSE WalletAfter(new, money, wallet, wallets[c])
      /\ drawer' = drawer + money /\ adjusted' = adjusted
      /\ \A d \in Bills \ {b} : bills[d] = bills'[d]
      /\ \A d \in Customers \ {c} : wallets[d] = wallets'[d]
  BY <1>1, <1>2 DEF TypeOK
<1>4. wallets[c] \in Nat /\ wallets'[c] \in Nat /\ drawer \in Int /\ adjusted \in Int
  BY <1>1 DEF TypeOK
<1>5. bills'[b] \in Bill /\ bills'[b].status # "NONE"
  <2>1. made.status # "NONE"
    BY <1>1 DEF Paid, StatusFor, Bill
  <2>2. bills'[b] # NoBill
    BY <1>3, <2>1 DEF NoBill
  <2>3. QED
    BY <1>3, <2>1, <2>2 DEF TypeOK
<1>6. bills'[b].refunded = 0 /\ bills'[b].paid + wallets'[c] = wallets[c] + money
  <2>1. CASE money + wallet = 0
    BY <1>1, <1>3, <1>4, <2>1
  <2>2. CASE money + wallet # 0
    <3>1. bills'[b] = Paid(new, money + wallet) /\ wallets'[c] = WalletAfter(new, money, wallet, wallets[c])
      BY <1>3, <2>2
    <3> HIDE DEF new
    <3>2. /\ Paid(new, money + wallet).refunded = new.refunded
          /\ Paid(new, money + wallet).paid + WalletAfter(new, money, wallet, wallets[c])
                = new.paid + wallets[c] + money
      <4>1. new \in Bill /\ money \in Nat /\ wallet \in Nat /\ wallets[c] \in Nat
        BY <1>1, <1>4
      <4>2. QED
        BY ONLY <4>1, PaymentSplits
    <3>3. new.paid + wallets[c] + money = wallets[c] + money
      BY <1>1, <1>4
    <3>4. QED
      BY <1>1, <3>1, <3>2, <3>3, Zenon
  <2>3. QED
    BY <2>1, <2>2
<1> HIDE DEF new, made
<1>7. Holds(bills[b]) = 0 /\ Holds(bills'[b]) = bills'[b].paid - bills'[b].refunded
  BY <1>1, <1>5 DEF Holds
<1>8. bills'[b].paid \in Nat
  BY <1>5, BillFields
<1>9. (drawer' - drawer) + (adjusted' - adjusted)
        = (Holds(bills'[b]) - Holds(bills[b])) + (wallets'[c] - wallets[c])
  <2>1. drawer' = drawer + money /\ adjusted' = adjusted
    BY <1>3
  <2>2. QED
    BY <1>4, <1>6, <1>7, <1>8, <2>1
<1>10. QED
  BY <1>1, <1>3, <1>9, OneStepMoney

LEMMA CreateSaleMoney ==
    ASSUME SaleBillAssumption, IInv, TypeOK', MoneyInv, NEW b \in Bills, NEW c \in Customers, NEW role \in Roles,
           NEW goods \in Baskets, NEW total \in Nat, FreeGoods \/ total > 0, CreateSale(b, c, role, goods, total)
    PROVE  MoneyInv'
<1> DEFINE new == Drafted(c, role, today, goods, total)
<1>1. /\ new.paid = 0 /\ new.refunded = 0 /\ TypeOK /\ new.status # "NONE" /\ bills[b].status = "NONE"
  BY DEF CreateSale, IInv, Drafted, Made
<1>2. /\ bills' = [bills EXCEPT ![b] = new] /\ wallets' = wallets /\ drawer' = drawer /\ adjusted' = adjusted
  BY DEF CreateSale
<1>3. bills'[b] = new /\ \A d \in Bills \ {b} : bills[d] = bills'[d]
  BY <1>1, <1>2 DEF TypeOK
<1>4. Holds(bills[b]) = 0 /\ Holds(bills'[b]) = 0
  BY <1>1, <1>3 DEF Holds
<1>5. wallets[c] \in Nat /\ drawer \in Int /\ adjusted \in Int /\ \A d \in Customers : wallets[d] = wallets'[d]
  BY <1>1, <1>2 DEF TypeOK
<1> HIDE DEF new
<1>6. (drawer' - drawer) + (adjusted' - adjusted)
        = (Holds(bills'[b]) - Holds(bills[b])) + (wallets'[c] - wallets[c])
  BY <1>2, <1>4, <1>5
<1>7. QED
  BY <1>1, <1>3, <1>5, <1>6, OneStepMoney

LEMMA CreateReturnMoney ==
    ASSUME SaleBillAssumption, IInv, TypeOK', MoneyInv, NEW b \in Bills, NEW role \in Roles, NEW goods \in Baskets,
           NEW mode \in {"CASH", "WALLET"}, CreateReturn(b, role, goods, mode)
    PROVE  MoneyInv'
<1> DEFINE i == bills[b]
           c == i.customer
<1>1. i \in Bill /\ c \in Customers /\ BillSound(i) /\ TypeOK /\ i.status # "NONE" /\ adjusted' = adjusted
  BY MadeIsBill DEF CreateReturn, IInv, Made, Sound
<1>2. PICK worth \in Worths(i, goods) :
        /\ bills' = [bills EXCEPT ![b] = Returned(i, goods, worth)]
        /\ IF mode = "WALLET"
           THEN /\ wallets' = [wallets EXCEPT ![c] = wallets[c] + RefundAmount(i, worth)]
                /\ drawer' = drawer
           ELSE /\ wallets' = wallets
                /\ drawer' = drawer - RefundAmount(i, worth)
  BY DEF CreateReturn
<1> DEFINE refund == RefundAmount(i, worth)
<1>3. goods \in Goods /\ refund \in Nat
  BY <1>1, RefundsArePaid DEF SaleBillAssumption
<1>4. /\ bills'[b] = Returned(i, goods, worth)
      /\ \A d \in Bills \ {b} : bills[d] = bills'[d]
      /\ \A d \in Customers \ {c} : wallets[d] = wallets'[d]
      /\ wallets'[c] = IF mode = "WALLET" THEN wallets[c] + refund ELSE wallets[c]
      /\ drawer' = IF mode = "WALLET" THEN drawer ELSE drawer - refund
  BY <1>1, <1>2 DEF TypeOK
<1>5. bills'[b].refunded = i.refunded + refund /\ bills'[b].paid = i.paid /\ bills'[b].status # "NONE"
  BY <1>1, <1>4 DEF Returned, StatusFor, Bill
<1>6. wallets[c] \in Nat /\ drawer \in Int /\ adjusted \in Int /\ i.paid \in Nat /\ i.refunded \in Nat
  BY <1>1, BillFields DEF TypeOK
<1> HIDE DEF i, c, refund
<1>7. Holds(i) = i.paid - i.refunded /\ Holds(bills'[b]) = i.paid - (i.refunded + refund)
  BY <1>1, <1>5 DEF Holds
<1>8. (drawer' - drawer) + (adjusted' - adjusted)
        = (Holds(bills'[b]) - Holds(bills[b])) + (wallets'[c] - wallets[c])
  BY <1>1, <1>3, <1>4, <1>6, <1>7 DEF i
<1>9. QED
  BY <1>1, <1>4, <1>8, OneStepMoney

LEMMA CancelSaleMoney ==
    ASSUME SaleBillAssumption, IInv, TypeOK', MoneyInv, NEW b \in Bills, CancelSale(b)
    PROVE  MoneyInv'
<1> DEFINE i == bills[b]
           c == i.customer
<1>1. i \in Bill /\ c \in Customers /\ TypeOK /\ i.status # "NONE"
  BY MadeIsBill DEF CancelSale, IInv, Made
<1>2. bills' = [bills EXCEPT ![b] = Cancelled(i)] /\ wallets' = wallets /\ drawer' = drawer /\ adjusted' = adjusted
  BY DEF CancelSale
<1>3. bills'[b] = Cancelled(i) /\ \A d \in Bills \ {b} : bills[d] = bills'[d]
  BY <1>1, <1>2 DEF TypeOK
<1>4. Holds(bills'[b]) = Holds(bills[b]) /\ Holds(bills[b]) \in Int
  BY <1>1, <1>3, BillFields DEF Holds, Cancelled, Bill
<1>5. wallets[c] \in Nat /\ drawer \in Int /\ adjusted \in Int /\ \A d \in Customers : wallets[d] = wallets'[d]
  BY <1>1, <1>2 DEF TypeOK
<1> HIDE DEF i, c
<1>6. (drawer' - drawer) + (adjusted' - adjusted)
        = (Holds(bills'[b]) - Holds(bills[b])) + (wallets'[c] - wallets[c])
  BY <1>2, <1>4, <1>5
<1>7. QED
  BY <1>1, <1>3, <1>5, <1>6, OneStepMoney

\* Money put into a wallet, or a correction of it.
LEMMA WalletMoney ==
    ASSUME SaleBillAssumption, TypeOK, TypeOK', MoneyInv, NEW c \in Customers, bills' = bills,
           \A d \in Customers \ {c} : wallets[d] = wallets'[d],
           (drawer' - drawer) + (adjusted' - adjusted) = wallets'[c] - wallets[c]
    PROVE  MoneyInv'
<1>1. /\ Total(wallets') = Total(wallets) - wallets[c] + wallets'[c]
      /\ Total(wallets) \in Int /\ wallets[c] \in Nat /\ wallets'[c] \in Nat
  BY WalletTotal DEF TypeOK
<1>2. drawer \in Int /\ drawer' \in Int /\ adjusted \in Int /\ adjusted' \in Int
  BY DEF TypeOK
<1>3. Total(Holdings(bills)) \in Int /\ Holdings(bills') = Holdings(bills)
  <2>1. Holdings(bills) \in [Bills -> Int] /\ IsFiniteSet(Bills)
    BY HoldingsTyped DEF TypeOK, SaleBillAssumption
  <2>2. QED
    BY <2>1, TotalType DEF Holdings
<1>4. drawer' + adjusted' = Total(Holdings(bills')) + Total(wallets')
  BY <1>1, <1>2, <1>3 DEF MoneyInv
<1>5. QED
  BY <1>4 DEF MoneyInv

LEMMA MoneyKept ==
    ASSUME SaleBillAssumption, IInv, IInv', MoneyInv, [Next]_vars
    PROVE  MoneyInv'
<1>0. TypeOK /\ TypeOK'
  BY DEF IInv
<1>1. ASSUME NEW b \in Bills, NEW c \in Customers, NEW role \in Roles, NEW goods \in Baskets,
             NEW total \in (IF FreeGoods THEN 0 ELSE 1)..MaxGrand,
             \/ CreateSale(b, c, role, goods, total)
             \/ \E money, wallet \in 0..MaxPay : Checkout(b, c, role, goods, total, money, wallet)
      PROVE  MoneyInv'
  <2>1. total \in Nat /\ (FreeGoods \/ total > 0)
    BY DEF SaleBillAssumption
  <2>2. CASE CreateSale(b, c, role, goods, total)
    BY <1>0, <2>1, <2>2, CreateSaleMoney
  <2>3. ASSUME NEW money \in 0..MaxPay, NEW wallet \in 0..MaxPay, Checkout(b, c, role, goods, total, money, wallet)
        PROVE  MoneyInv'
    <3>1. money \in Nat /\ wallet \in Nat
      BY DEF SaleBillAssumption
    <3>2. QED
      BY <1>0, <2>1, <2>3, <3>1, CheckoutMoney
  <2>4. QED
    BY <1>1, <2>2, <2>3
<1>2. ASSUME NEW b \in Bills, NEW money \in 0..MaxPay, NEW wallet \in 0..MaxPay, Settle(b, money, wallet)
      PROVE  MoneyInv'
  <2>1. money \in Nat /\ wallet \in Nat
    BY DEF SaleBillAssumption
  <2>2. QED
    BY <1>0, <1>2, <2>1, SettleMoney
<1>3. ASSUME NEW b \in Bills, NEW role \in Roles, NEW goods \in Baskets,
             NEW mode \in {"CASH", "WALLET"}, CreateReturn(b, role, goods, mode)
      PROVE  MoneyInv'
  BY <1>0, <1>3, CreateReturnMoney
<1>4. ASSUME NEW b \in Bills, CancelSale(b) PROVE MoneyInv'
  BY <1>0, <1>4, CancelSaleMoney
<1>5. ASSUME NEW c \in Customers, NEW amount \in 1..MaxTopup, TopupWallet(c, amount) PROVE MoneyInv'
  <2>1. /\ bills' = bills /\ \A d \in Customers \ {c} : wallets[d] = wallets'[d]
        /\ (drawer' - drawer) + (adjusted' - adjusted) = wallets'[c] - wallets[c]
    BY <1>0, <1>5 DEF TopupWallet, TypeOK, SaleBillAssumption
  <2>2. QED
    BY <1>0, <2>1, WalletMoney
<1>6. ASSUME NEW c \in Customers, NEW change \in (-MaxAdjust)..MaxAdjust, AdjustWallet(c, change)
      PROVE  MoneyInv'
  <2>1. /\ bills' = bills /\ \A d \in Customers \ {c} : wallets[d] = wallets'[d]
        /\ (drawer' - drawer) + (adjusted' - adjusted) = wallets'[c] - wallets[c]
    BY <1>0, <1>6 DEF AdjustWallet, TypeOK, SaleBillAssumption
  <2>2. QED
    BY <1>0, <2>1, WalletMoney
<1>7. CASE UNCHANGED <<bills, wallets, drawer, adjusted>>
  BY <1>7 DEF MoneyInv
<1>8. QED
  BY <1>1, <1>2, <1>3, <1>4, <1>5, <1>6, <1>7 DEF Next, NextDay, vars

LEMMA MoneyStarts ==
    ASSUME SaleBillAssumption, Init
    PROVE  MoneyInv
<1>1. Holdings(bills) \in [Bills -> Int] /\ \A b \in Bills : Holdings(bills)[b] = 0
  BY DEF Init, Holdings, Holds, NoBill
<1>2. wallets \in [Customers -> Int] /\ \A c \in Customers : wallets[c] = 0
  BY DEF Init
<1>3. IsFiniteSet(Bills) /\ IsFiniteSet(Customers)
  BY DEF SaleBillAssumption
<1>4. Total(Holdings(bills)) = 0 /\ Total(wallets) = 0
  BY <1>1, <1>2, <1>3, TotalOfNone
<1>5. QED
  BY <1>4 DEF Init, MoneyInv

\* Every rupee taken is on a bill or in a wallet, once (invoice.service.ts settleInvoice and
\* createReturn, wallet.service.ts), for every number of bills, customers and amounts.
THEOREM MoneyAccountedForHolds == Spec => []MoneyAccountedFor
<1>1. Init => MoneyInv
  BY MoneyStarts, SaleBillAssumption
<1>2. IInv /\ IInv' /\ MoneyInv /\ [Next]_vars => MoneyInv'
  BY MoneyKept, SaleBillAssumption
<1>3. IInv /\ MoneyInv => MoneyAccountedFor
  BY MoneyByBills, SaleBillAssumption DEF IInv
<1>4. QED
  BY <1>1, <1>2, <1>3, Invariant, PTL DEF Spec

-----------------------------------------------------------------------------
(* What customers owe.  OverLimitOnlyByAdmin is not inductive: settling    *)
(* the admin's bill could leave the others above the limit.  What is kept  *)
(* is that the bills cashiers made are within it together.                 *)

Unpaid == {"DRAFT", "PARTIALLY_SETTLED"}
DueOn(i, c) == IF i.status \in Unpaid /\ i.customer = c THEN Due(i) ELSE 0
CashierDueOn(i, c) == IF i.status \in Unpaid /\ i.customer = c /\ i.madeBy # "ADMIN" THEN Due(i) ELSE 0
Dues(bs, c) == [b \in Bills |-> DueOn(bs[b], c)]
CashierDues(bs, c) == [b \in Bills |-> CashierDueOn(bs[b], c)]

LimitInv ==
  \A c \in Customers : CreditLimit[c] # NoLimit => Total(CashierDues(bills, c)) <= CreditLimit[c]

LEMMA DuesTyped ==
    ASSUME NEW bs \in [Bills -> Bill \cup {NoBill}], NEW c
    PROVE  /\ Dues(bs, c) \in [Bills -> Int] /\ CashierDues(bs, c) \in [Bills -> Int]
           /\ \A b \in Bills : /\ Dues(bs, c)[b] = DueOn(bs[b], c) /\ DueOn(bs[b], c) \in Nat
                               /\ CashierDues(bs, c)[b] = CashierDueOn(bs[b], c)
                               /\ CashierDueOn(bs[b], c) \in Nat
<1>1. \A b \in Bills : DueOn(bs[b], c) \in Nat /\ CashierDueOn(bs[b], c) \in Nat
  <2>1. SUFFICES ASSUME NEW b \in Bills PROVE DueOn(bs[b], c) \in Nat /\ CashierDueOn(bs[b], c) \in Nat
    OBVIOUS
  <2>2. CASE bs[b] \in Bill
    <3>1. Due(bs[b]) \in Nat
      BY <2>2, BillFields DEF Due, Larger
    <3>2. QED
      BY <3>1 DEF DueOn, CashierDueOn
  <2>3. CASE bs[b] = NoBill
    BY <2>3 DEF DueOn, CashierDueOn, NoBill, Unpaid
  <2>4. QED
    BY <2>2, <2>3
<1>2. QED
  BY <1>1 DEF Dues, CashierDues

LEMMA OwedTotal ==
    ASSUME SaleBillAssumption, NEW bs \in [Bills -> Bill \cup {NoBill}], NEW c
    PROVE  Owed(bs, c) = Total(Dues(bs, c)) /\ Total(CashierDues(bs, c)) <= Owed(bs, c)
<1> DEFINE T == {b \in Bills : bs[b].status \in {"DRAFT", "PARTIALLY_SETTLED"} /\ bs[b].customer = c}
           f == [b \in T |-> Due(bs[b])]
<1>1. \A b \in Bills : Dues(bs, c)[b] = IF b \in T THEN f[b] ELSE 0
  BY DEF Dues, DueOn, Unpaid
<1>2. /\ Dues(bs, c) \in [Bills -> Int] /\ CashierDues(bs, c) \in [Bills -> Int]
      /\ \A b \in Bills : CashierDues(bs, c)[b] <= Dues(bs, c)[b]
  <2>1. \A b \in Bills : CashierDueOn(bs[b], c) <= DueOn(bs[b], c)
    <3>1. SUFFICES ASSUME NEW b \in Bills PROVE CashierDueOn(bs[b], c) <= DueOn(bs[b], c)
      OBVIOUS
    <3>2. CashierDueOn(bs[b], c) = DueOn(bs[b], c) \/ CashierDueOn(bs[b], c) = 0
      BY DEF CashierDueOn, DueOn
    <3>3. DueOn(bs[b], c) \in Nat /\ CashierDueOn(bs[b], c) \in Nat
      BY DuesTyped
    <3>4. QED
      BY <3>2, <3>3
  <2>2. QED
    BY <2>1, DuesTyped
<1>3. f \in [T -> Int] /\ T \in SUBSET Bills /\ IsFiniteSet(Bills)
  <2>1. \A b \in T : f[b] \in Int
    <3>1. \A b \in T : f[b] = DueOn(bs[b], c)
      BY DEF DueOn, Unpaid
    <3>2. \A b \in Bills : DueOn(bs[b], c) \in Nat
      BY DuesTyped
    <3> HIDE DEF f
    <3>3. QED
      BY <3>1, <3>2
  <2>2. QED
    BY <2>1 DEF SaleBillAssumption
<1>4. Owed(bs, c) = Total(f)
  BY DEF Owed
<1> HIDE DEF T, f
<1>5. Total(f) = Total(Dues(bs, c))
  BY <1>1, <1>2, <1>3, TotalRestricted
<1>6. Total(CashierDues(bs, c)) <= Total(Dues(bs, c))
  BY <1>2, <1>3, TotalAtMost
<1>7. QED
  BY <1>4, <1>5, <1>6

LEMMA LimitTells ==
    ASSUME SaleBillAssumption, TypeOK, LimitInv
    PROVE  OverLimitOnlyByAdmin
<1>1. SUFFICES ASSUME NEW c \in Customers, CreditLimit[c] # NoLimit, Owed(bills, c) > CreditLimit[c],
                      \A b \in Bills : ~(/\ Made(b) /\ bills[b].customer = c
                                         /\ bills[b].madeBy = "ADMIN" /\ Due(bills[b]) > 0)
               PROVE  FALSE
  BY DEF OverLimitOnlyByAdmin
<1>2. bills \in [Bills -> Bill \cup {NoBill}]
  BY DEF TypeOK
<1>3. \A b \in Bills : DueOn(bills[b], c) = CashierDueOn(bills[b], c)
  <2>1. SUFFICES ASSUME NEW b \in Bills, bills[b].status \in Unpaid, bills[b].customer = c,
                        bills[b].madeBy = "ADMIN"
                 PROVE  Due(bills[b]) = 0
    BY DEF DueOn, CashierDueOn
  <2>2. Made(b)
    BY <2>1 DEF Made, Unpaid
  <2>3. Due(bills[b]) \in Nat
    BY <2>2, MadeIsBill, BillFields DEF Due, Larger
  <2>4. QED
    BY <1>1, <2>1, <2>2, <2>3
<1>4. Dues(bills, c) = CashierDues(bills, c)
  BY <1>3 DEF Dues, CashierDues
<1>5. Owed(bills, c) = Total(CashierDues(bills, c))
  BY <1>2, <1>4, OwedTotal
<1>6. Total(CashierDues(bills, c)) \in Int /\ CreditLimit[c] \in Int
  <2>1. Total(CashierDues(bills, c)) \in Int
    BY <1>2, DuesTyped, TotalType DEF SaleBillAssumption
  <2>2. QED
    BY <1>1, <2>1 DEF SaleBillAssumption
<1>7. Total(CashierDues(bills, c)) <= CreditLimit[c]
  BY <1>1 DEF LimitInv
<1>8. QED
  BY <1>1, <1>5, <1>6, <1>7

LEMMA NoMoreOwed ==
    ASSUME SaleBillAssumption, TypeOK, TypeOK', LimitInv, NEW c \in Customers, CreditLimit[c] # NoLimit,
           \A b \in Bills : CashierDueOn(bills'[b], c) <= CashierDueOn(bills[b], c)
    PROVE  Total(CashierDues(bills', c)) <= CreditLimit[c]
<1>1. /\ CashierDues(bills, c) \in [Bills -> Int] /\ CashierDues(bills', c) \in [Bills -> Int]
      /\ \A b \in Bills : /\ CashierDues(bills, c)[b] = CashierDueOn(bills[b], c)
                          /\ CashierDues(bills', c)[b] = CashierDueOn(bills'[b], c)
      /\ IsFiniteSet(Bills)
  BY DuesTyped DEF TypeOK, SaleBillAssumption
<1>2. /\ Total(CashierDues(bills', c)) <= Total(CashierDues(bills, c))
      /\ Total(CashierDues(bills', c)) \in Int /\ Total(CashierDues(bills, c)) \in Int
  BY <1>1, TotalAtMost, TotalType
<1>3. Total(CashierDues(bills, c)) <= CreditLimit[c] /\ CreditLimit[c] \in Int
  BY DEF LimitInv, SaleBillAssumption
<1>4. QED
  BY <1>2, <1>3

\* A bill whose due did not grow, the others as they were.
LEMMA OneBillOwesLess ==
    ASSUME SaleBillAssumption, TypeOK, TypeOK', LimitInv, NEW b \in Bills,
           \A d \in Bills \ {b} : bills[d] = bills'[d],
           \A c \in Customers : CashierDueOn(bills'[b], c) <= CashierDueOn(bills[b], c)
    PROVE  LimitInv'
<1>1. SUFFICES ASSUME NEW c \in Customers, CreditLimit[c] # NoLimit
               PROVE  Total(CashierDues(bills', c)) <= CreditLimit[c]
  BY DEF LimitInv
<1>2. \A d \in Bills : CashierDueOn(bills'[d], c) <= CashierDueOn(bills[d], c)
  <2>1. \A d \in Bills : CashierDueOn(bills[d], c) \in Nat
    BY DuesTyped DEF TypeOK
  <2>2. QED
    BY <2>1
<1>3. QED
  BY <1>1, <1>2, NoMoreOwed

\* A new bill: an admin's, one paid in full, or one within the limit.
LEMMA NewBillWithin ==
    ASSUME SaleBillAssumption, TypeOK, TypeOK', LimitInv, NEW b \in Bills, ~Made(b), NEW c \in Customers,
           NEW role, \A d \in Bills \ {b} : bills[d] = bills'[d],
           bills'[b].customer = c, bills'[b].madeBy = role,
           bills'[b].status \in Unpaid => WithinCreditLimit(bills', role, c)
    PROVE  LimitInv'
<1>1. SUFFICES ASSUME NEW d \in Customers, CreditLimit[d] # NoLimit
               PROVE  Total(CashierDues(bills', d)) <= CreditLimit[d]
  BY DEF LimitInv
<1>2. CASE d = c /\ role # "ADMIN" /\ bills'[b].status \in Unpaid
  <2>1. Owed(bills', c) <= CreditLimit[c]
    BY <1>1, <1>2 DEF WithinCreditLimit
  <2>2. bills' \in [Bills -> Bill \cup {NoBill}]
    BY DEF TypeOK
  <2>3. Total(CashierDues(bills', c)) <= Owed(bills', c) /\ Owed(bills', c) = Total(Dues(bills', c))
    BY <2>2, OwedTotal
  <2>4. Total(CashierDues(bills', c)) \in Int /\ Total(Dues(bills', c)) \in Int /\ CreditLimit[c] \in Int
    <3>1. CashierDues(bills', c) \in [Bills -> Int] /\ Dues(bills', c) \in [Bills -> Int] /\ IsFiniteSet(Bills)
      BY <2>2, DuesTyped DEF SaleBillAssumption
    <3>2. CreditLimit[c] \in Int
      BY <1>1, <1>2 DEF SaleBillAssumption
    <3>3. QED
      BY <3>1, <3>2, TotalType
  <2>5. QED
    BY <1>2, <2>1, <2>3, <2>4
<1>3. CASE ~(d = c /\ role # "ADMIN" /\ bills'[b].status \in Unpaid)
  <2>1. CashierDueOn(bills'[b], d) = 0 /\ CashierDueOn(bills[b], d) = 0
    BY <1>3 DEF CashierDueOn, Made, Unpaid
  <2>2. \A e \in Bills : CashierDueOn(bills[e], d) \in Nat
    BY DuesTyped DEF TypeOK
  <2>3. \A e \in Bills : CashierDueOn(bills'[e], d) <= CashierDueOn(bills[e], d)
    BY <2>1, <2>2
  <2>4. QED
    BY <1>1, <2>3, NoMoreOwed
<1>4. QED
  BY <1>2, <1>3

LEMMA SettleLimit ==
    ASSUME SaleBillAssumption, IInv, TypeOK', LimitInv, NEW b \in Bills, NEW money \in Nat, NEW wallet \in Nat,
           Settle(b, money, wallet)
    PROVE  LimitInv'
<1> DEFINE i == bills[b]
           a == money + wallet
<1>1. i \in Bill /\ TypeOK /\ Payable(i) /\ a \in Nat /\ bills' = [bills EXCEPT ![b] = Paid(i, a)]
  BY MadeIsBill DEF Settle, IInv, PaymentAllowed
<1>2. bills'[b] = Paid(i, a) /\ \A d \in Bills \ {b} : bills[d] = bills'[d]
  BY <1>1 DEF TypeOK
<1> HIDE DEF a
<1>3. i.status \in Unpaid
  BY <1>1, BillFields DEF Payable, Statuses, Unpaid
<1>4. /\ bills'[b].customer = i.customer /\ bills'[b].madeBy = i.madeBy /\ bills'[b].grand = i.grand
      /\ bills'[b].credited = i.credited /\ bills'[b].paid = i.paid + Smaller(a, Due(i))
  <2>1. i \in Bill
    BY <1>1
  <2>2. /\ Paid(i, a).customer = i.customer /\ Paid(i, a).madeBy = i.madeBy /\ Paid(i, a).grand = i.grand
        /\ Paid(i, a).credited = i.credited /\ Paid(i, a).paid = i.paid + Smaller(a, Due(i))
    BY <2>1 DEF Paid, Bill
  <2>3. QED
    BY <1>2, <2>2
<1>5. Due(bills'[b]) <= Due(i) /\ Due(i) \in Nat
  BY <1>1, <1>4, BillFields DEF Due, Larger, Smaller
<1>6. \A c \in Customers : CashierDueOn(bills'[b], c) <= CashierDueOn(bills[b], c)
  BY <1>3, <1>4, <1>5 DEF CashierDueOn
<1>7. QED
  BY <1>1, <1>2, <1>6, OneBillOwesLess

LEMMA CreateReturnLimit ==
    ASSUME SaleBillAssumption, IInv, TypeOK', LimitInv, NEW b \in Bills, NEW role \in Roles, NEW goods \in Baskets,
           NEW mode \in {"CASH", "WALLET"}, CreateReturn(b, role, goods, mode)
    PROVE  LimitInv'
<1> DEFINE i == bills[b]
<1>1. i \in Bill /\ TypeOK /\ BillSound(i) /\ goods \in Goods
  BY MadeIsBill DEF CreateReturn, IInv, Sound, SaleBillAssumption
<1>2. PICK worth \in Worths(i, goods) : bills' = [bills EXCEPT ![b] = Returned(i, goods, worth)]
  BY DEF CreateReturn
<1>3. bills'[b] = Returned(i, goods, worth) /\ \A d \in Bills \ {b} : bills[d] = bills'[d]
  BY <1>1, <1>2 DEF TypeOK
<1>4. DueAdjusted(i, worth) \in Nat /\ i.status = "SETTLED" => bills'[b].status = "SETTLED"
  BY <1>1, <1>3, RefundsArePaid, SettledReturned
<1>5. /\ bills'[b].customer = i.customer /\ bills'[b].madeBy = i.madeBy /\ bills'[b].grand = i.grand
      /\ bills'[b].paid = i.paid /\ bills'[b].credited = i.credited + DueAdjusted(i, worth)
      /\ bills'[b].status \in Unpaid => i.status \in Unpaid
  <2>1. /\ bills'[b].customer = i.customer /\ bills'[b].madeBy = i.madeBy /\ bills'[b].grand = i.grand
        /\ bills'[b].paid = i.paid /\ bills'[b].credited = i.credited + DueAdjusted(i, worth)
    BY <1>1, <1>3 DEF Returned, Bill
  <2>2. i.status # "CANCELLED"
    BY DEF CreateReturn, Returnable
  <2>3. i.status \in Unpaid \/ i.status = "SETTLED"
    BY <1>1, <2>2, BillFields DEF Statuses, Unpaid
  <2>4. DueAdjusted(i, worth) \in Nat
    BY <1>1, RefundsArePaid
  <2>5. QED
    BY <1>4, <2>1, <2>3, <2>4 DEF Unpaid
<1>6. DueAdjusted(i, worth) \in Nat
  BY <1>1, RefundsArePaid
<1>7. Due(bills'[b]) <= Due(i) /\ Due(i) \in Nat
  BY <1>1, <1>5, <1>6, BillFields DEF Due, Larger
<1>8. \A c \in Customers : CashierDueOn(bills'[b], c) <= CashierDueOn(bills[b], c)
  BY <1>5, <1>7 DEF CashierDueOn
<1>9. QED
  BY <1>1, <1>3, <1>8, OneBillOwesLess

LEMMA CancelSaleLimit ==
    ASSUME SaleBillAssumption, IInv, TypeOK', LimitInv, NEW b \in Bills, CancelSale(b)
    PROVE  LimitInv'
<1>1. bills[b] \in Bill /\ TypeOK /\ bills' = [bills EXCEPT ![b] = Cancelled(bills[b])]
  BY MadeIsBill DEF CancelSale, IInv
<1>2. bills'[b].status = "CANCELLED" /\ \A d \in Bills \ {b} : bills[d] = bills'[d]
  BY <1>1 DEF TypeOK, Cancelled, Bill
<1>3. \A c \in Customers : CashierDueOn(bills'[b], c) = 0 /\ CashierDueOn(bills[b], c) \in Nat
  <2>1. ASSUME NEW c \in Customers
        PROVE  CashierDueOn(bills[b], c) \in Nat
    BY <1>1, DuesTyped DEF TypeOK
  <2>2. ASSUME NEW c \in Customers
        PROVE  CashierDueOn(bills'[b], c) = 0
    BY <1>2 DEF CashierDueOn, Unpaid
  <2>3. QED
    BY <2>1, <2>2
<1>4. \A c \in Customers : CashierDueOn(bills'[b], c) <= CashierDueOn(bills[b], c)
  BY <1>3
<1>5. QED
  BY <1>1, <1>2, <1>4, OneBillOwesLess

LEMMA CheckoutLimit ==
    ASSUME SaleBillAssumption, IInv, TypeOK', LimitInv, NEW b \in Bills, NEW c \in Customers, NEW role \in Roles,
           NEW goods, NEW total, NEW money, NEW wallet, Checkout(b, c, role, goods, total, money, wallet)
    PROVE  LimitInv'
<1> DEFINE new == Drafted(c, role, today, goods, total)
           made == IF money + wallet = 0 THEN new ELSE Paid(new, money + wallet)
<1>1. /\ ~Made(b) /\ TypeOK /\ bills' = [bills EXCEPT ![b] = made]
      /\ made.status # "SETTLED" => WithinCreditLimit(bills', role, c)
  BY DEF Checkout, IInv
<1>2. bills'[b] = made /\ \A d \in Bills \ {b} : bills[d] = bills'[d]
  BY <1>1 DEF TypeOK
<1>3. made.customer = c /\ made.madeBy = role
  BY DEF Drafted, Paid
<1> HIDE DEF made
<1>4. bills'[b].status \in Unpaid => WithinCreditLimit(bills', role, c)
  BY <1>1, <1>2 DEF Unpaid
<1>5. QED
  BY <1>1, <1>2, <1>3, <1>4, NewBillWithin

LEMMA CreateSaleLimit ==
    ASSUME SaleBillAssumption, IInv, TypeOK', LimitInv, NEW b \in Bills, NEW c \in Customers, NEW role \in Roles,
           NEW goods, NEW total, CreateSale(b, c, role, goods, total)
    PROVE  LimitInv'
<1> DEFINE new == Drafted(c, role, today, goods, total)
<1>1. ~Made(b) /\ TypeOK /\ bills' = [bills EXCEPT ![b] = new] /\ WithinCreditLimit(bills', role, c)
  BY DEF CreateSale, IInv
<1>2. bills'[b] = new /\ \A d \in Bills \ {b} : bills[d] = bills'[d]
  BY <1>1 DEF TypeOK
<1>3. new.customer = c /\ new.madeBy = role
  BY DEF Drafted
<1> HIDE DEF new
<1>4. QED
  BY <1>1, <1>2, <1>3, NewBillWithin

LEMMA LimitKept ==
    ASSUME SaleBillAssumption, IInv, IInv', LimitInv, [Next]_vars
    PROVE  LimitInv'
<1>0. TypeOK /\ TypeOK'
  BY DEF IInv
<1>1. ASSUME NEW b \in Bills, NEW c \in Customers, NEW role \in Roles, NEW goods \in Baskets,
             NEW total \in (IF FreeGoods THEN 0 ELSE 1)..MaxGrand,
             \/ CreateSale(b, c, role, goods, total)
             \/ \E money, wallet \in 0..MaxPay : Checkout(b, c, role, goods, total, money, wallet)
      PROVE  LimitInv'
  BY <1>0, <1>1, CreateSaleLimit, CheckoutLimit
<1>2. ASSUME NEW b \in Bills, NEW money \in 0..MaxPay, NEW wallet \in 0..MaxPay, Settle(b, money, wallet)
      PROVE  LimitInv'
  <2>1. money \in Nat /\ wallet \in Nat
    BY DEF SaleBillAssumption
  <2>2. QED
    BY <1>0, <1>2, <2>1, SettleLimit
<1>3. ASSUME NEW b \in Bills, NEW role \in Roles, NEW goods \in Baskets,
             NEW mode \in {"CASH", "WALLET"}, CreateReturn(b, role, goods, mode)
      PROVE  LimitInv'
  BY <1>0, <1>3, CreateReturnLimit
<1>4. ASSUME NEW b \in Bills, CancelSale(b) PROVE LimitInv'
  BY <1>0, <1>4, CancelSaleLimit
<1>5. CASE bills' = bills
  BY <1>5 DEF LimitInv
<1>6. QED
  BY <1>1, <1>2, <1>3, <1>4, <1>5 DEF Next, TopupWallet, AdjustWallet, NextDay, vars

LEMMA LimitStarts ==
    ASSUME SaleBillAssumption, Init
    PROVE  LimitInv
<1>1. SUFFICES ASSUME NEW c \in Customers, CreditLimit[c] # NoLimit
               PROVE  Total(CashierDues(bills, c)) <= CreditLimit[c]
  BY DEF LimitInv
<1>2. /\ CashierDues(bills, c) \in [Bills -> Int] /\ \A b \in Bills : CashierDues(bills, c)[b] = 0
      /\ IsFiniteSet(Bills)
  BY DEF Init, CashierDues, CashierDueOn, NoBill, Unpaid, SaleBillAssumption
<1>3. Total(CashierDues(bills, c)) = 0
  BY <1>2, TotalOfNone
<1>4. CreditLimit[c] \in Nat
  BY <1>1 DEF SaleBillAssumption
<1>5. QED
  BY <1>3, <1>4

\* Only an admin's bill takes a customer past their credit limit (invoice.service.ts, the limit check
\* of a checkout and of a sale on credit), for every number of bills and whatever is paid, returned
\* or cancelled in between.
THEOREM OverLimitOnlyByAdminHolds == Spec => []OverLimitOnlyByAdmin
<1>1. Init => LimitInv
  BY LimitStarts, SaleBillAssumption
<1>2. IInv /\ IInv' /\ LimitInv /\ [Next]_vars => LimitInv'
  BY LimitKept, SaleBillAssumption
<1>3. IInv /\ LimitInv => OverLimitOnlyByAdmin
  BY LimitTells, SaleBillAssumption DEF IInv
<1>4. QED
  BY <1>1, <1>2, <1>3, Invariant, PTL DEF Spec

-----------------------------------------------------------------------------
(* SaleRequests.                                                           *)

Receipt == [bill : Bills, key : Keys \cup {NoKey}, money : Nat, wallet : Nat]
Request == [pc : Steps, op : Ops, row : Bill \cup {NoBill}, worth : Nat]

ReqTyped ==
    /\ reqs \in [Requests -> {Idle} \cup Request]
    /\ lock \in [Locks -> Requests \cup {Nobody}]
    /\ receipts \in Seq(Receipt)

Busy(q) == ~At(q, "idle")
Op(q) == reqs[q].op
Sells(q) == Busy(q) /\ Op(q).kind = "sale"
Serves(q) == Busy(q) /\ Op(q).kind # "sale"

\* A sale's bill is its own, and as it was inserted, until it commits.
SaleIsOwn(q) ==
    Sells(q) =>
        /\ ~At(q, "key") /\ ~At(q, "bill") /\ ~At(q, "read")
        /\ reqs[q].row = Drafted(Op(q).customer, Op(q).role, today, Op(q).goods, Op(q).total)
        /\ ~Made(Op(q).bill)
        /\ Op(q).customer \notin WalkIns \/ Amount(Op(q)) = Op(q).total
        /\ Amount(Op(q)) > 0 => PaymentAllowed(reqs[q].row, Op(q).money, Op(q).wallet, Op(q).wallet)
        /\ At(q, "wallet") \/ At(q, "branch") => Amount(Op(q)) > 0
        /\ At(q, "change") => Amount(Op(q)) > 0 /\ Written(q).status = "SETTLED"
NoOtherSells(q) == \A p \in Requests : p # q /\ Sells(p) /\ Sells(q) => Op(p).bill # Op(q).bill

\* Once past its lock, the bill (and the key) a request read is as it read it.
RowIsLocked(q) ==
    Serves(q) =>
        /\ Made(Op(q).bill)
        /\ ~At(q, "customer")
        /\ At(q, "key") => Op(q).kind = "settle"
        /\ Op(q).kind = "settle" /\ ~At(q, "key") => lock[<<"key", Op(q).key>>] = q
        /\ ~At(q, "key") /\ ~At(q, "bill") => lock[<<"bill", Op(q).bill>>] = q
RowIsRead(q) ==
    Serves(q) /\ ~At(q, "key") /\ ~At(q, "bill") /\ ~At(q, "read") =>
        /\ reqs[q].row = bills[Op(q).bill]
        /\ ~KeyUsed(Op(q)) /\ Acceptable(Op(q), reqs[q].row)
        /\ Op(q).kind = "return" =>
              /\ reqs[q].worth \in Worths(reqs[q].row, Op(q).goods)
              /\ RefundAllowed(reqs[q].row, reqs[q].worth)
        /\ RefundTo(Op(q), reqs[q].row, reqs[q].worth) > 0 => reqs[q].row.customer \notin WalkIns /\ ~Offline
        /\ At(q, "wallet") \/ At(q, "branch") => Op(q).kind = "settle"

\* Money debited from a wallet stays there until the payment commits.
WalletCovers(q) ==
    Busy(q) /\ Pays(Op(q)) /\ Op(q).wallet > 0
      /\ ~At(q, "key") /\ ~At(q, "bill") /\ ~At(q, "read") /\ ~At(q, "wallet") =>
        /\ lock[<<"wallet", Owner(q)>>] = q
        /\ wallets[Owner(q)] >= Op(q).wallet

\* A sale on credit that was found within the limit stays within it.
CreditHolds(q) ==
    Sells(q) /\ At(q, "commit") /\ Written(q).status # "SETTLED" =>
        /\ lock[<<"customer", Op(q).customer>>] = q
        /\ \A p \in Requests : p # q => ~Inserted(p, Op(q).customer)
        /\ WithinCreditLimit([bills EXCEPT ![Op(q).bill] = Written(q)], Op(q).role, Op(q).customer)

\* Only a sale to a customer holds their row.
HoldsForSale(q) == \A c \in Customers : lock[<<"customer", c>>] = q => Inserted(q, c)

Stands(q) ==
    /\ SaleIsOwn(q) /\ NoOtherSells(q) /\ RowIsLocked(q) /\ RowIsRead(q)
    /\ WalletCovers(q) /\ CreditHolds(q) /\ HoldsForSale(q)

KeysDiffer ==
    \A m, n \in 1..Len(receipts) :
        receipts[m].key = receipts[n].key /\ m # n => receipts[m].key = NoKey

ReqInv == IInv /\ ReqTyped /\ KeysDiffer /\ \A q \in Requests : Stands(q)

-----------------------------------------------------------------------------
\* The fields of requests, and of what the tills may send.
LEMMA OpForms ==
    ASSUME NEW op \in Ops
    PROVE  /\ op.bill \in Bills /\ op.kind \in {"sale", "settle", "return", "cancel"}
           /\ op.kind = "sale" =>
                 /\ op.customer \in Customers /\ op.role \in Roles /\ op.goods \in Baskets
                 /\ op.goods # NoGoods /\ op.total \in 1..MaxGrand /\ op.key = NoKey
           /\ op.kind = "settle" => op.key \in Keys
           /\ Pays(op) => op.money \in 0..MaxPay /\ op.wallet \in 0..MaxPay
           /\ op.kind = "return" => op.role \in Roles /\ op.goods \in Baskets /\ op.mode \in {"CASH", "WALLET"}
<1>1. op \in RequestForms
  BY OpsAssumption
<1>2. QED
  BY <1>1 DEF RequestForms, Amounts, Pays

LEMMA Fields ==
    ASSUME ReqTyped, NEW r \in Requests, Busy(r)
    PROVE  /\ reqs[r] \in Request /\ reqs[r].pc \in Steps /\ Op(r) \in Ops
           /\ reqs[r].row \in Bill \cup {NoBill} /\ reqs[r].worth \in Nat
<1>1. reqs[r] # Idle
  BY DEF Busy, At, Idle
<1>2. reqs[r] \in Request
  BY <1>1 DEF ReqTyped
<1>3. QED
  BY <1>2 DEF Request, Op

\* What a sale inserts, and the row a request works on from there.
LEMMA NewRow ==
    ASSUME SaleBillAssumption, IInv, NEW op \in Ops, op.kind = "sale"
    PROVE  /\ Drafted(op.customer, op.role, today, op.goods, op.total) \in Bill
           /\ BillSound(Drafted(op.customer, op.role, today, op.goods, op.total))
           /\ Drafted(op.customer, op.role, today, op.goods, op.total).customer = op.customer
<1>1. /\ op.customer \in Customers /\ op.role \in Roles /\ op.goods \in Goods /\ op.goods # NoGoods
      /\ op.total \in Nat /\ op.total > 0 /\ today \in Nat
  BY OpForms DEF SaleBillAssumption, IInv, TypeOK
<1>2. QED
  BY <1>1, DraftedSound DEF Drafted

LEMMA RowIsBill ==
    ASSUME SaleBillAssumption, ReqInv, NEW r \in Requests, Busy(r), Stands(r),
           ~At(r, "key"), ~At(r, "bill"), ~At(r, "read")
    PROVE  /\ reqs[r].row \in Bill /\ BillSound(reqs[r].row) /\ Owner(r) \in Customers
           /\ Sells(r) => Owner(r) = Op(r).customer
<1>1. Op(r) \in Ops
  BY Fields DEF ReqInv
<1>2. CASE Op(r).kind = "sale"
  <2>1. reqs[r].row = Drafted(Op(r).customer, Op(r).role, today, Op(r).goods, Op(r).total)
    BY <1>2 DEF Stands, SaleIsOwn, Sells
  <2>2. QED
    BY <1>1, <1>2, <2>1, NewRow, BillFields DEF ReqInv, Owner
<1>3. CASE Op(r).kind # "sale"
  <2>1. reqs[r].row = bills[Op(r).bill] /\ Made(Op(r).bill)
    BY <1>3 DEF Stands, RowIsRead, RowIsLocked, Serves
  <2>2. bills[Op(r).bill] \in Bill /\ BillSound(bills[Op(r).bill])
    BY <1>1, <2>1, OpForms, MadeIsBill DEF ReqInv, IInv, Sound
  <2>3. QED
    BY <1>3, <2>1, <2>2, BillFields DEF Owner, Sells
<1>4. QED
  BY <1>2, <1>3

-----------------------------------------------------------------------------
(* Steps that commit nothing: what they leave to the other requests.       *)

LEMMA OthersStand ==
    ASSUME SaleBillAssumption, ReqInv, NEW r \in Requests, UNCHANGED <<vars, receipts>>,
           \A q \in Requests : q # r => reqs'[q] = reqs[q],
           \A q \in Requests, l \in Locks : q # r => (lock'[l] = q <=> lock[l] = q),
           \A q \in Requests, c \in Customers :
              q # r /\ lock[<<"customer", c>>] = q => ~Inserted(r, c)' \/ Inserted(r, c),
           \A q \in Requests : q # r /\ Sells(q) /\ Sells(r)' => Op(r)'.bill # Op(q).bill
    PROVE  \A q \in Requests : q # r => Stands(q)'
<1>1. SUFFICES ASSUME NEW q \in Requests, q # r PROVE Stands(q)'
  OBVIOUS
<1>2. /\ reqs'[q] = reqs[q] /\ bills' = bills /\ wallets' = wallets /\ today' = today /\ receipts' = receipts
  <2>1. reqs'[q] = reqs[q]
    BY <1>1
  <2>2. QED
    BY <2>1 DEF vars
<1>3. CASE ~Busy(q)
  <2>1. ~Busy(q)'
    BY <1>2, <1>3 DEF Busy, At
  <2>2. HoldsForSale(q)'
    <3>1. HoldsForSale(q) /\ \A c \in Customers : ~Inserted(q, c)
      BY <1>3 DEF ReqInv, Stands, Inserted, Busy
    <3>2. \A c \in Customers : <<"customer", c>> \in Locks
      BY DEF Locks
    <3>3. \A l \in Locks : lock'[l] = q <=> lock[l] = q
      BY <1>1
    <3>4. QED
      BY <3>1, <3>2, <3>3 DEF HoldsForSale
  <2>3. QED
    BY <2>1, <2>2 DEF Stands, SaleIsOwn, NoOtherSells, RowIsLocked, RowIsRead, WalletCovers, CreditHolds, Sells, Serves
<1>4. CASE Busy(q)
  <2>0. \A l \in Locks : lock'[l] = q <=> lock[l] = q
    BY <1>1
  <2>1. /\ Stands(q) /\ Op(q) \in Ops
        /\ \A l \in Locks : lock'[l] = q <=> lock[l] = q
    BY <1>4, <2>0, Fields DEF ReqInv
  <2>2. /\ Op(q)' = Op(q) /\ Busy(q)' = Busy(q) /\ Sells(q)' = Sells(q) /\ Serves(q)' = Serves(q)
        /\ \A pc \in Steps : At(q, pc)' = At(q, pc)
        /\ Owner(q)' = Owner(q) /\ Written(q)' = Written(q)
    BY <1>2 DEF Op, Busy, Sells, Serves, At, Owner, Written
  <2>3. SaleIsOwn(q)'
    BY <1>2, <2>1, <2>2 DEF Stands, SaleIsOwn, Made, PaymentAllowed, Steps
  <2>4. NoOtherSells(q)'
    <3>1. SUFFICES ASSUME NEW p \in Requests, p # q, Sells(p)', Sells(q)'
                   PROVE  Op(p)'.bill # Op(q)'.bill
      BY DEF NoOtherSells
    <3>2. CASE p = r
      BY <1>1, <2>2, <3>1, <3>2
    <3>3. CASE p # r
      BY <2>1, <2>2, <3>1, <3>3 DEF Stands, NoOtherSells, Sells, Busy, At, Op
    <3>4. QED
      BY <3>2, <3>3
  <2>5. RowIsLocked(q)'
    <3>1. Serves(q) /\ Op(q).kind = "settle" => <<"key", Op(q).key>> \in Locks
      BY <2>1, OpForms DEF Locks
    <3>2. <<"bill", Op(q).bill>> \in Locks
      BY <2>1, OpForms DEF Locks
    <3>3. QED
      BY <1>2, <2>1, <2>2, <3>1, <3>2 DEF Stands, RowIsLocked, Made, Steps
  <2>6. RowIsRead(q)'
    BY <1>2, <2>1, <2>2 DEF Stands, RowIsRead, KeyUsed, Acceptable, PaymentAllowed, Steps
  <2>7. WalletCovers(q)'
    <3>1. SUFFICES ASSUME Pays(Op(q)), Op(q).wallet > 0, ~At(q, "key"), ~At(q, "bill"), ~At(q, "read"), ~At(q, "wallet")
                   PROVE  lock'[<<"wallet", Owner(q)>>] = q /\ wallets'[Owner(q)] >= Op(q).wallet
      BY <2>2 DEF WalletCovers, Steps
    <3>2. <<"wallet", Owner(q)>> \in Locks
      BY <1>4, <2>1, <3>1, RowIsBill DEF Locks
    <3>3. QED
      BY <1>2, <1>4, <2>1, <3>1, <3>2 DEF Stands, WalletCovers
  <2>8. CreditHolds(q)'
    <3>1. SUFFICES ASSUME Sells(q), At(q, "commit"), Written(q).status # "SETTLED"
                   PROVE  /\ lock'[<<"customer", Op(q).customer>>] = q
                          /\ \A p \in Requests : p # q => ~Inserted(p, Op(q).customer)'
                          /\ WithinCreditLimit([bills EXCEPT ![Op(q).bill] = Written(q)], Op(q).role, Op(q).customer)'
      BY <1>2, <2>2 DEF CreditHolds, Steps
    <3>2. Op(q).customer \in Customers /\ <<"customer", Op(q).customer>> \in Locks
      BY <2>1, <3>1, OpForms DEF Sells, Locks
    <3>3. /\ lock[<<"customer", Op(q).customer>>] = q
          /\ \A p \in Requests : p # q => ~Inserted(p, Op(q).customer)
          /\ WithinCreditLimit([bills EXCEPT ![Op(q).bill] = Written(q)], Op(q).role, Op(q).customer)
      BY <2>1, <3>1 DEF Stands, CreditHolds
    <3>4. ASSUME NEW p \in Requests, p # q, p # r
          PROVE  ~Inserted(p, Op(q).customer)'
      <4>1. reqs'[p] = reqs[p]
        BY <3>4
      <4>2. QED
        BY <3>3, <3>4, <4>1, <1>2 DEF Inserted, At, Op
    <3>5. ~Inserted(r, Op(q).customer)'
      <4>1. ~Inserted(r, Op(q).customer)
        BY <1>1, <3>3
      <4>2. \A c \in Customers : lock[<<"customer", c>>] = q => ~Inserted(r, c)' \/ Inserted(r, c)
        BY <1>1
      <4>3. Op(q)' = Op(q)
        BY <2>2
      <4>4. QED
        BY <3>2, <3>3, <4>1, <4>2, <4>3 DEF Inserted, At
    <3>6. QED
      BY <1>2, <2>1, <2>2, <3>2, <3>3, <3>4, <3>5 DEF WithinCreditLimit, Owed
  <2>9. HoldsForSale(q)'
    <3>1. \A c \in Customers : <<"customer", c>> \in Locks
      BY DEF Locks
    <3>2. \A c \in Customers : Inserted(q, c) => Inserted(q, c)'
      BY <1>2 DEF Inserted, At
    <3>3. QED
      BY <2>1, <3>1, <3>2 DEF Stands, HoldsForSale
  <2>10. QED
    BY <2>3, <2>4, <2>5, <2>6, <2>7, <2>8, <2>9 DEF Stands
<1>5. QED
  BY <1>3, <1>4

-----------------------------------------------------------------------------
(* Steps of one request.                                                   *)

LEMMA TakeKeeps ==
    ASSUME ReqTyped, NEW r \in Requests, NEW l \in Locks, Take(r, l)
    PROVE  /\ lock' \in [Locks -> Requests \cup {Nobody}] /\ lock'[l] = r
           /\ \A q \in Requests, m \in Locks : q # r => (lock'[m] = q <=> lock[m] = q)
           /\ \A m \in Locks : lock[m] = r => lock'[m] = r
           /\ \A m \in Locks : m # l => lock'[m] = lock[m]
<1>1. lock \in [Locks -> Requests \cup {Nobody}] /\ lock' = [lock EXCEPT ![l] = r] /\ lock[l] \in {Nobody, r}
  BY DEF ReqTyped, Take, Free
<1>2. Nobody \notin Requests
  BY OpsAssumption
<1>3. lock'[l] = r /\ \A m \in Locks : m # l => lock'[m] = lock[m]
  BY <1>1
<1>4. QED
  BY <1>1, <1>2, <1>3

LEMMA ReleasedKeeps ==
    ASSUME ReqTyped, NEW r \in Requests, lock' = Released(r)
    PROVE  /\ lock' \in [Locks -> Requests \cup {Nobody}]
           /\ \A q \in Requests, m \in Locks : q # r => (lock'[m] = q <=> lock[m] = q)
           /\ \A m \in Locks : lock'[m] # r
<1>1. lock \in [Locks -> Requests \cup {Nobody}] /\ Nobody \notin Requests
  BY OpsAssumption DEF ReqTyped
<1>2. \A m \in Locks : lock'[m] = IF lock[m] = r THEN Nobody ELSE lock[m]
  BY DEF Released
<1>3. lock' \in [Locks -> Requests \cup {Nobody}]
  BY <1>1 DEF Released
<1>4. QED
  BY <1>1, <1>2, <1>3

LEMMA RollBackKeeps ==
    ASSUME SaleBillAssumption, ReqInv, NEW r \in Requests, RollBack(r)
    PROVE  ReqInv'
<1>1. /\ reqs' \in [Requests -> {Idle} \cup Request] /\ reqs'[r] = Idle
      /\ \A q \in Requests : q # r => reqs'[q] = reqs[q]
  BY DEF RollBack, ReqInv, ReqTyped
<1>2. UNCHANGED <<vars, receipts>> /\ lock' = Released(r)
  BY DEF RollBack
<1>3. /\ lock' \in [Locks -> Requests \cup {Nobody}]
      /\ \A q \in Requests, m \in Locks : q # r => (lock'[m] = q <=> lock[m] = q)
      /\ \A m \in Locks : lock'[m] # r
  BY <1>2, ReleasedKeeps DEF ReqInv
<1>4. ~Busy(r)' /\ (\A c : ~Inserted(r, c)') /\ ~Sells(r)'
  BY <1>1 DEF Busy, At, Idle, Inserted, Sells
<1>5. \A q \in Requests : q # r => Stands(q)'
  BY <1>1, <1>2, <1>3, <1>4, OthersStand
<1>6. Stands(r)'
  <2>1. HoldsForSale(r)'
    BY <1>3 DEF HoldsForSale, Locks
  <2>2. QED
    BY <1>4, <2>1 DEF Stands, SaleIsOwn, NoOtherSells, RowIsLocked, RowIsRead, WalletCovers, CreditHolds, Sells, Serves
<1>7. IInv' /\ ReqTyped' /\ KeysDiffer'
  BY <1>1, <1>2, <1>3 DEF ReqInv, IInv, TypeOK, Sound, Made, vars, ReqTyped, KeysDiffer
<1>8. QED
  BY <1>5, <1>6, <1>7 DEF ReqInv

\* A request goes on to its next step: what must be so for it to stand there.
LEMMA GoOnKeeps ==
    ASSUME SaleBillAssumption, ReqInv, NEW r \in Requests, Busy(r), UNCHANGED <<vars, receipts>>,
           NEW pc \in Steps, GoTo(r, pc), pc # "key",
           lock' \in [Locks -> Requests \cup {Nobody}],
           \A q \in Requests, m \in Locks : q # r => (lock'[m] = q <=> lock[m] = q),
           \A m \in Locks : lock[m] = r => lock'[m] = r,
           \A c \in Customers : lock'[<<"customer", c>>] = r => Inserted(r, c),
           Sells(r) => /\ pc \notin {"bill", "read"}
                       /\ pc \in {"wallet", "branch"} => Amount(Op(r)) > 0
                       /\ pc = "change" => Amount(Op(r)) > 0 /\ Written(r).status = "SETTLED"
                       /\ pc = "commit" /\ Written(r).status # "SETTLED" =>
                            /\ lock'[<<"customer", Op(r).customer>>] = r
                            /\ \A p \in Requests : p # r => ~Inserted(p, Op(r).customer)
                            /\ WithinCreditLimit([bills EXCEPT ![Op(r).bill] = Written(r)], Op(r).role, Op(r).customer),
           Serves(r) => /\ pc # "customer"
                        /\ Op(r).kind = "settle" => lock'[<<"key", Op(r).key>>] = r
                        /\ pc # "bill" => lock'[<<"bill", Op(r).bill>>] = r
                        /\ pc \notin {"bill", "read"} => ~At(r, "key") /\ ~At(r, "bill") /\ ~At(r, "read")
                        /\ pc \in {"wallet", "branch"} => Op(r).kind = "settle",
           Pays(Op(r)) /\ Op(r).wallet > 0 /\ pc \notin {"bill", "read", "wallet"} =>
               lock'[<<"wallet", Owner(r)>>] = r /\ wallets[Owner(r)] >= Op(r).wallet
    PROVE  ReqInv'
<1>1. /\ reqs[r] \in Request /\ reqs \in [Requests -> {Idle} \cup Request] /\ reqs' = [reqs EXCEPT ![r].pc = pc]
  BY Fields DEF ReqInv, ReqTyped, GoTo
<1>2. reqs' \in [Requests -> {Idle} \cup Request] /\ \A q \in Requests : q # r => reqs'[q] = reqs[q]
  BY <1>1 DEF Request
<1>3. reqs'[r] \in Request /\ reqs'[r].pc = pc /\ reqs'[r].op = reqs[r].op /\ reqs'[r].row = reqs[r].row /\ reqs'[r].worth = reqs[r].worth
  BY <1>1 DEF Request
<1>4. pc # "idle"
  BY DEF Steps
<1>5. /\ Op(r)' = Op(r) /\ Busy(r)' /\ Sells(r)' = Sells(r) /\ Serves(r)' = Serves(r)
      /\ Owner(r)' = Owner(r) /\ Written(r)' = Written(r)
      /\ \A c : Inserted(r, c)' = Inserted(r, c)
      /\ \A s : At(r, s)' = (s = pc)
  BY <1>3, <1>4 DEF Op, Busy, Sells, Serves, At, Owner, Written, Inserted
<1>6. /\ bills' = bills /\ wallets' = wallets /\ today' = today /\ receipts' = receipts
  BY DEF vars
<1>7. \A q \in Requests : q # r => Stands(q)'
  <2>1. \A q \in Requests : q # r /\ Sells(q) /\ Sells(r)' => Op(r)'.bill # Op(q).bill
    <3>1. NoOtherSells(r)
      BY DEF ReqInv, Stands
    <3>2. QED
      BY <1>5, <3>1 DEF NoOtherSells
  <2>2. \A q \in Requests, c \in Customers :
              q # r /\ lock[<<"customer", c>>] = q => ~Inserted(r, c)' \/ Inserted(r, c)
    BY <1>5
  <2>3. QED
    BY <1>2, <2>1, <2>2, OthersStand
<1>8. Stands(r) /\ Op(r) \in Ops
  BY Fields DEF ReqInv
<1>9. SaleIsOwn(r)'
  BY <1>5, <1>6, <1>3, <1>8 DEF Stands, SaleIsOwn, Made, PaymentAllowed
<1>10. NoOtherSells(r)'
  <2>1. SUFFICES ASSUME NEW p \in Requests, p # r, Sells(p)', Sells(r)' PROVE Op(p)'.bill # Op(r)'.bill
    BY DEF NoOtherSells
  <2>2. reqs'[p] = reqs[p]
    BY <1>2, <2>1
  <2>3. QED
    BY <1>5, <1>8, <2>1, <2>2 DEF Stands, NoOtherSells, Sells, Busy, At, Op
<1>11. RowIsLocked(r)'
  BY <1>5, <1>6, <1>8 DEF Stands, RowIsLocked, Made
<1>12. RowIsRead(r)'
  BY <1>3, <1>5, <1>6, <1>8 DEF Stands, RowIsRead, KeyUsed, Acceptable, PaymentAllowed
<1>13. WalletCovers(r)'
  BY <1>5, <1>6, <1>8 DEF Stands, WalletCovers
<1>14. CreditHolds(r)'
  <2>1. SUFFICES ASSUME Sells(r), pc = "commit", Written(r).status # "SETTLED"
                 PROVE  /\ lock'[<<"customer", Op(r).customer>>] = r
                        /\ \A p \in Requests : p # r => ~Inserted(p, Op(r).customer)'
                        /\ WithinCreditLimit([bills EXCEPT ![Op(r).bill] = Written(r)], Op(r).role, Op(r).customer)'
    BY <1>5 DEF CreditHolds
  <2>2. \A p \in Requests : p # r => ~Inserted(p, Op(r).customer)'
    <3>1. SUFFICES ASSUME NEW p \in Requests, p # r PROVE ~Inserted(p, Op(r).customer)'
      OBVIOUS
    <3>2. reqs'[p] = reqs[p]
      BY <1>2, <3>1
    <3>3. QED
      BY <1>5, <2>1, <3>1, <3>2 DEF Inserted, At
  <2>3. QED
    BY <1>5, <1>6, <2>1, <2>2 DEF WithinCreditLimit, Owed
<1>15. HoldsForSale(r)'
  BY <1>5 DEF HoldsForSale
<1>16. IInv' /\ ReqTyped' /\ KeysDiffer'
  BY <1>2, <1>6 DEF ReqInv, IInv, TypeOK, Sound, Made, vars, ReqTyped, KeysDiffer
<1>17. QED
  BY <1>7, <1>9, <1>10, <1>11, <1>12, <1>13, <1>14, <1>15, <1>16 DEF ReqInv, Stands

\* A payment that leaves change settles the bill.
LEMMA ChangeSettles ==
    ASSUME NEW i \in Bill, BillSound(i), NEW amount \in Nat, Excess(i, amount) > 0
    PROVE  Paid(i, amount).status = "SETTLED"
<1>1. i.grand \in Nat /\ i.paid \in Nat /\ i.credited \in Nat
  BY BillFields
<1>2. i.paid + Smaller(amount, Due(i)) + i.credited >= i.grand
  BY <1>1 DEF Excess, Due, Larger, Smaller
<1>3. Paid(i, amount).status = StatusFor(i, i.paid + Smaller(amount, Due(i)), i.credited)
  BY DEF Paid, Bill
<1>4. QED
  BY <1>2, <1>3 DEF StatusFor

LEMMA LockKeyKeeps == ASSUME SaleBillAssumption, ReqInv, NEW r \in Requests, LockKey(r) PROVE ReqInv'
<1>1. Busy(r) /\ UNCHANGED <<vars, receipts>> /\ GoTo(r, "bill") /\ At(r, "key") /\ "bill" \in Steps
  BY DEF LockKey, Busy, At, Steps
<1>2. Stands(r) /\ Op(r) \in Ops
  BY <1>1, Fields DEF ReqInv
<1>3. Serves(r) /\ ~Sells(r) /\ Op(r).kind = "settle"
  BY <1>1, <1>2 DEF Stands, SaleIsOwn, RowIsLocked, Serves, Sells
<1>4. <<"key", Op(r).key>> \in Locks /\ Take(r, <<"key", Op(r).key>>)
  BY <1>2, <1>3, OpForms DEF Locks, LockKey, Op
<1>5. /\ lock' \in [Locks -> Requests \cup {Nobody}] /\ lock'[<<"key", Op(r).key>>] = r
      /\ \A q \in Requests, m \in Locks : q # r => (lock'[m] = q <=> lock[m] = q)
      /\ \A m \in Locks : lock[m] = r => lock'[m] = r
      /\ \A m \in Locks : m # <<"key", Op(r).key>> => lock'[m] = lock[m]
  BY <1>4, TakeKeeps DEF ReqInv
<1>6. \A c \in Customers : lock'[<<"customer", c>>] = r => Inserted(r, c)
  BY <1>2, <1>5 DEF Stands, HoldsForSale, Locks
<1>7. QED
  BY <1>1, <1>3, <1>5, <1>6, GoOnKeeps

LEMMA LockBillKeeps == ASSUME SaleBillAssumption, ReqInv, NEW r \in Requests, LockBill(r) PROVE ReqInv'
<1>1. Busy(r) /\ UNCHANGED <<vars, receipts>> /\ GoTo(r, "read") /\ At(r, "bill") /\ "read" \in Steps
  BY DEF LockBill, Busy, At, Steps
<1>2. Stands(r) /\ Op(r) \in Ops
  BY <1>1, Fields DEF ReqInv
<1>3. Serves(r) /\ ~Sells(r) /\ ~At(r, "key")
  BY <1>1, <1>2 DEF Stands, SaleIsOwn, Serves, Sells, At
<1>4. <<"bill", Op(r).bill>> \in Locks /\ Take(r, <<"bill", Op(r).bill>>)
  BY <1>2, <1>3, OpForms DEF Locks, LockBill, Op
<1>5. /\ lock' \in [Locks -> Requests \cup {Nobody}] /\ lock'[<<"bill", Op(r).bill>>] = r
      /\ \A q \in Requests, m \in Locks : q # r => (lock'[m] = q <=> lock[m] = q)
      /\ \A m \in Locks : lock[m] = r => lock'[m] = r
      /\ \A m \in Locks : m # <<"bill", Op(r).bill>> => lock'[m] = lock[m]
  BY <1>4, TakeKeeps DEF ReqInv
<1>6. \A c \in Customers : lock'[<<"customer", c>>] = r => Inserted(r, c)
  BY <1>2, <1>5 DEF Stands, HoldsForSale, Locks
<1>7. Op(r).kind = "settle" => lock'[<<"key", Op(r).key>>] = r
  BY <1>2, <1>3, <1>5, OpForms DEF Stands, RowIsLocked, Locks
<1>8. QED
  BY <1>1, <1>3, <1>5, <1>6, <1>7, GoOnKeeps

\* What a request past its read still holds after taking one more lock.
LEMMA StillHeld ==
    ASSUME SaleBillAssumption, ReqInv, NEW r \in Requests, Busy(r), ~At(r, "key"), ~At(r, "bill"), ~At(r, "read"),
           \A m \in Locks : lock[m] = r => lock'[m] = r
    PROVE  /\ Serves(r) => /\ Op(r).kind = "settle" => lock'[<<"key", Op(r).key>>] = r
                           /\ lock'[<<"bill", Op(r).bill>>] = r
           /\ Pays(Op(r)) /\ Op(r).wallet > 0 /\ ~At(r, "wallet") =>
                  lock'[<<"wallet", Owner(r)>>] = r /\ wallets[Owner(r)] >= Op(r).wallet
<1>1. Stands(r) /\ Op(r) \in Ops /\ Owner(r) \in Customers
  BY Fields, RowIsBill DEF ReqInv
<1>2. <<"wallet", Owner(r)>> \in Locks /\ <<"bill", Op(r).bill>> \in Locks
  BY <1>1, OpForms DEF Locks
<1>3. Op(r).kind = "settle" => <<"key", Op(r).key>> \in Locks
  BY <1>1, OpForms DEF Locks
<1>4. QED
  BY <1>1, <1>2, <1>3 DEF Stands, RowIsLocked, WalletCovers

LEMMA DebitWalletKeeps == ASSUME SaleBillAssumption, ReqInv, NEW r \in Requests, DebitWallet(r) PROVE ReqInv'
<1>1. /\ Busy(r) /\ UNCHANGED <<vars, receipts>> /\ GoTo(r, "branch") /\ At(r, "wallet") /\ "branch" \in Steps
      /\ ~At(r, "key") /\ ~At(r, "bill") /\ ~At(r, "read")
  BY DEF DebitWallet, Busy, At, Steps
<1>2. Stands(r) /\ Owner(r) \in Customers
  BY <1>1, RowIsBill DEF ReqInv
<1>3. /\ <<"wallet", Owner(r)>> \in Locks /\ Take(r, <<"wallet", Owner(r)>>)
      /\ wallets[Owner(r)] >= Op(r).wallet
  BY <1>2 DEF Locks, DebitWallet, Op
<1>4. /\ lock' \in [Locks -> Requests \cup {Nobody}] /\ lock'[<<"wallet", Owner(r)>>] = r
      /\ \A q \in Requests, m \in Locks : q # r => (lock'[m] = q <=> lock[m] = q)
      /\ \A m \in Locks : lock[m] = r => lock'[m] = r
      /\ \A m \in Locks : m # <<"wallet", Owner(r)>> => lock'[m] = lock[m]
  BY <1>3, TakeKeeps DEF ReqInv
<1>5. \A c \in Customers : lock'[<<"customer", c>>] = r => Inserted(r, c)
  BY <1>2, <1>4 DEF Stands, HoldsForSale, Locks
<1>6. Serves(r) => /\ Op(r).kind = "settle" => lock'[<<"key", Op(r).key>>] = r
                   /\ lock'[<<"bill", Op(r).bill>>] = r
  BY <1>1, <1>4, StillHeld
<1>7. (Sells(r) => Amount(Op(r)) > 0) /\ (Serves(r) => Op(r).kind = "settle")
  BY <1>1, <1>2 DEF Stands, SaleIsOwn, RowIsRead
<1>8. QED
  BY <1>1, <1>3, <1>4, <1>5, <1>6, <1>7, GoOnKeeps

LEMMA TakeReceiptNumberKeeps ==
    ASSUME SaleBillAssumption, ReqInv, NEW r \in Requests, TakeReceiptNumber(r) PROVE ReqInv'
<1>1. /\ Busy(r) /\ UNCHANGED <<vars, receipts>> /\ GoTo(r, AfterBranch(r)) /\ At(r, "branch")
      /\ ~At(r, "key") /\ ~At(r, "bill") /\ ~At(r, "read") /\ ~At(r, "wallet")
  BY DEF TakeReceiptNumber, Busy, At
<1>2. Stands(r) /\ Op(r) \in Ops /\ reqs[r].row \in Bill /\ BillSound(reqs[r].row)
  BY <1>1, Fields, RowIsBill DEF ReqInv
<1>3. <<"branch", "main">> \in Locks /\ Take(r, <<"branch", "main">>)
  BY DEF Locks, TakeReceiptNumber
<1>4. /\ lock' \in [Locks -> Requests \cup {Nobody}]
      /\ \A q \in Requests, m \in Locks : q # r => (lock'[m] = q <=> lock[m] = q)
      /\ \A m \in Locks : lock[m] = r => lock'[m] = r
      /\ \A m \in Locks : m # <<"branch", "main">> => lock'[m] = lock[m]
  BY <1>3, TakeKeeps DEF ReqInv
<1>5. \A c \in Customers : lock'[<<"customer", c>>] = r => Inserted(r, c)
  BY <1>2, <1>4 DEF Stands, HoldsForSale, Locks
<1>6. /\ Serves(r) => /\ Op(r).kind = "settle" => lock'[<<"key", Op(r).key>>] = r
                      /\ lock'[<<"bill", Op(r).bill>>] = r
      /\ Pays(Op(r)) /\ Op(r).wallet > 0 =>
            lock'[<<"wallet", Owner(r)>>] = r /\ wallets[Owner(r)] >= Op(r).wallet
  BY <1>1, <1>4, StillHeld
<1>7. (Sells(r) => Amount(Op(r)) > 0) /\ (Serves(r) => Op(r).kind = "settle") /\ Pays(Op(r))
  BY <1>1, <1>2 DEF Stands, SaleIsOwn, RowIsRead, Serves, Sells, Pays
<1>8. Amount(Op(r)) \in Nat
  BY <1>2, <1>7, OpForms DEF Amount, SaleBillAssumption
<1>9. Sells(r) /\ Excess(reqs[r].row, Amount(Op(r))) > 0 => Written(r).status = "SETTLED"
  <2>1. Sells(r) => Written(r) = Paid(reqs[r].row, Amount(Op(r)))
    <3>1. Sells(r) => Pays(reqs[r].op) /\ Amount(reqs[r].op) > 0 /\ reqs[r].op.kind = "sale"
      BY <1>7 DEF Sells, Op
    <3>2. Sells(r) => reqs[r].op.kind # "return" /\ reqs[r].op.kind # "cancel" /\ Amount(reqs[r].op) # 0
      BY <1>8, <3>1
    <3>3. QED
      BY <3>1, <3>2 DEF Written, Op
  <2>2. QED
    BY <1>2, <1>8, <2>1, ChangeSettles
<1>10. /\ AfterBranch(r) \in {"change", "customer", "commit"}
       /\ AfterBranch(r) = "change" <=> Excess(reqs[r].row, Amount(Op(r))) > 0
       /\ AfterBranch(r) = "customer" => Op(r).kind = "sale"
       /\ Sells(r) /\ AfterBranch(r) = "commit" => Written(r).status = "SETTLED"
  BY DEF AfterBranch, Op, Sells
<1> DEFINE pc == AfterBranch(r)
<1>11. pc \in Steps /\ pc # "key" /\ GoTo(r, pc)
  BY <1>1, <1>10 DEF Steps
<1>12. Serves(r) => pc # "customer"
  BY <1>10 DEF Serves
<1> HIDE DEF pc
<1>13. /\ pc \in {"change", "customer", "commit"}
       /\ Sells(r) /\ pc = "change" => Written(r).status = "SETTLED"
       /\ Sells(r) /\ pc = "commit" => Written(r).status = "SETTLED"
  BY <1>9, <1>10 DEF pc
<1>14. QED
  BY <1>1, <1>4, <1>5, <1>6, <1>7, <1>11, <1>12, <1>13, GoOnKeeps

LEMMA CreditWalletKeeps == ASSUME SaleBillAssumption, ReqInv, NEW r \in Requests, CreditWallet(r) PROVE ReqInv'
<1>1. /\ Busy(r) /\ UNCHANGED <<vars, receipts>> /\ GoTo(r, "commit") /\ At(r, "change") /\ "commit" \in Steps
      /\ ~At(r, "key") /\ ~At(r, "bill") /\ ~At(r, "read") /\ ~At(r, "wallet")
  BY DEF CreditWallet, Busy, At, Steps
<1>2. Stands(r) /\ Owner(r) \in Customers
  BY <1>1, RowIsBill DEF ReqInv
<1>3. <<"wallet", Owner(r)>> \in Locks /\ Take(r, <<"wallet", Owner(r)>>)
  BY <1>2 DEF Locks, CreditWallet
<1>4. /\ lock' \in [Locks -> Requests \cup {Nobody}]
      /\ \A q \in Requests, m \in Locks : q # r => (lock'[m] = q <=> lock[m] = q)
      /\ \A m \in Locks : lock[m] = r => lock'[m] = r
      /\ \A m \in Locks : m # <<"wallet", Owner(r)>> => lock'[m] = lock[m]
  BY <1>3, TakeKeeps DEF ReqInv
<1>5. \A c \in Customers : lock'[<<"customer", c>>] = r => Inserted(r, c)
  BY <1>2, <1>4 DEF Stands, HoldsForSale, Locks
<1>6. /\ Serves(r) => /\ Op(r).kind = "settle" => lock'[<<"key", Op(r).key>>] = r
                      /\ lock'[<<"bill", Op(r).bill>>] = r
      /\ Pays(Op(r)) /\ Op(r).wallet > 0 =>
            lock'[<<"wallet", Owner(r)>>] = r /\ wallets[Owner(r)] >= Op(r).wallet
  BY <1>1, <1>4, StillHeld
<1>7. Sells(r) => Written(r).status = "SETTLED"
  BY <1>1, <1>2 DEF Stands, SaleIsOwn
<1>8. QED
  BY <1>1, <1>4, <1>5, <1>6, <1>7, GoOnKeeps

LEMMA CheckCreditKeeps == ASSUME SaleBillAssumption, ReqInv, NEW r \in Requests, CheckCredit(r) PROVE ReqInv'
<1>1. /\ Busy(r) /\ At(r, "customer") /\ "commit" \in Steps
      /\ ~At(r, "key") /\ ~At(r, "bill") /\ ~At(r, "read") /\ ~At(r, "wallet")
  BY DEF CheckCredit, Busy, At, Steps
<1>2. Stands(r) /\ Owner(r) \in Customers
  BY <1>1, RowIsBill DEF ReqInv
<1>3. Sells(r) /\ ~Serves(r)
  BY <1>1, <1>2 DEF Stands, RowIsLocked, Serves, Sells
<1>4. Owner(r) = Op(r).customer /\ Inserted(r, Owner(r))
  <2>1. Owner(r) = Op(r).customer
    BY <1>1, <1>2, <1>3, RowIsBill
  <2>2. QED
    BY <1>3, <2>1 DEF Inserted, Sells, Busy, Op
<1>5. CASE RollBack(r)
  BY <1>5, RollBackKeeps
<1>6. CASE ~RollBack(r)
  <2>1. /\ WithinCreditLimit([bills EXCEPT ![Op(r).bill] = Written(r)], Op(r).role, Owner(r))
        /\ lock' = [lock EXCEPT ![<<"customer", Owner(r)>>] = r]
        /\ GoTo(r, "commit") /\ UNCHANGED <<vars, receipts>>
        /\ \A q \in Requests : q # r => ~Inserted(q, Owner(r))
    BY <1>6 DEF CheckCredit, Op
  <2>2. lock \in [Locks -> Requests \cup {Nobody}] /\ <<"customer", Owner(r)>> \in Locks
    BY <1>2 DEF ReqInv, ReqTyped, Locks
  <2>3. /\ lock' \in [Locks -> Requests \cup {Nobody}] /\ lock'[<<"customer", Owner(r)>>] = r
        /\ \A m \in Locks : m # <<"customer", Owner(r)>> => lock'[m] = lock[m]
        /\ \A m \in Locks : lock[m] = r => lock'[m] = r
    BY <2>1, <2>2
  <2>4. \A q \in Requests : q # r => lock[<<"customer", Owner(r)>>] # q
    BY <1>2, <2>1 DEF ReqInv, Stands, HoldsForSale
  <2>5. \A q \in Requests, m \in Locks : q # r => (lock'[m] = q <=> lock[m] = q)
    BY <2>3, <2>4
  <2>6. \A c \in Customers : lock'[<<"customer", c>>] = r => Inserted(r, c)
    <3>1. \A c \in Customers : <<"customer", c>> \in Locks /\ (lock[<<"customer", c>>] = r => Inserted(r, c))
      BY <1>2 DEF Stands, HoldsForSale, Locks
    <3>2. \A c \in Customers : c # Owner(r) => <<"customer", c>> # <<"customer", Owner(r)>>
      OBVIOUS
    <3>3. QED
      BY <1>4, <2>3, <3>1, <3>2
  <2>7. Pays(Op(r)) /\ Op(r).wallet > 0 =>
            lock'[<<"wallet", Owner(r)>>] = r /\ wallets[Owner(r)] >= Op(r).wallet
    BY <1>1, <2>3, StillHeld
  <2>8. /\ lock'[<<"customer", Op(r).customer>>] = r
        /\ \A p \in Requests : p # r => ~Inserted(p, Op(r).customer)
        /\ WithinCreditLimit([bills EXCEPT ![Op(r).bill] = Written(r)], Op(r).role, Op(r).customer)
    BY <1>4, <2>1, <2>3
  <2>9. UNCHANGED <<vars, receipts>> /\ GoTo(r, "commit")
    BY <2>1
  <2>10. QED
    BY <1>1, <1>3, <2>3, <2>5, <2>6, <2>7, <2>8, <2>9, GoOnKeeps
<1>7. QED
  BY <1>5, <1>6

LEMMA ReadBillKeeps == ASSUME SaleBillAssumption, ReqInv, NEW r \in Requests, ReadBill(r) PROVE ReqInv'
<1> DEFINE op == reqs[r].op
           row == bills[op.bill]
<1>1. Busy(r) /\ UNCHANGED <<vars, receipts, lock>> /\ At(r, "read") /\ ~At(r, "key") /\ ~At(r, "bill") /\ ~At(r, "wallet")
  BY DEF ReadBill, Busy, At
<1>2. Stands(r) /\ op \in Ops /\ reqs[r] \in Request
  BY <1>1, Fields DEF ReqInv, Op
<1>3. Serves(r) /\ ~Sells(r) /\ op.kind # "sale" /\ ~KeyUsed(op) /\ Acceptable(op, row)
  BY <1>1, <1>2 DEF Stands, SaleIsOwn, Serves, Sells, ReadBill, Op
<1>4. PICK worth \in (IF op.kind = "return" THEN Worths(row, op.goods) ELSE {0}) :
        /\ op.kind = "return" => RefundAllowed(row, worth)
        /\ RefundTo(op, row, worth) > 0 => row.customer \notin WalkIns /\ ~Offline
        /\ reqs' = [reqs EXCEPT ![r].row = row, ![r].worth = worth,
                      ![r].pc = IF RefundTo(op, row, worth) > 0 THEN "change" ELSE AfterRead(op)]
  BY DEF ReadBill
<1> DEFINE pc == IF RefundTo(op, row, worth) > 0 THEN "change" ELSE AfterRead(op)
<1>5. row \in Bill /\ BillSound(row)
  BY <1>2, <1>3, OpForms, MadeIsBill DEF ReqInv, Stands, RowIsLocked, IInv, Sound, Op
<1>6. worth \in Nat
  <2>1. LeftToReturn(row) \in Int
    BY <1>5, BillFields DEF LeftToReturn
  <2>2. QED
    BY <1>4, <2>1 DEF Worths
<1>7. /\ pc \in {"change", "wallet", "branch", "commit"}
      /\ pc = "change" => op.kind = "return"
      /\ pc \in {"wallet", "branch"} => op.kind = "settle"
      /\ Pays(op) /\ op.wallet > 0 => pc = "wallet"
  <2>1. Pays(op) <=> op.kind = "settle"
    BY <1>3 DEF Pays
  <2>2. RefundTo(op, row, worth) > 0 => op.kind = "return"
    BY DEF RefundTo
  <2>3. QED
    BY <1>3, <2>1, <2>2 DEF AfterRead
<1> HIDE DEF pc
<1>8. reqs' = [reqs EXCEPT ![r].row = row, ![r].worth = worth, ![r].pc = pc]
  BY <1>4 DEF pc
<1>9. pc \in Steps /\ reqs \in [Requests -> {Idle} \cup Request]
  BY <1>7 DEF Steps, ReqInv, ReqTyped
<1>10. [reqs[r] EXCEPT !.row = row, !.worth = worth, !.pc = pc] \in Request
  BY <1>2, <1>5, <1>6, <1>9 DEF Request
<1>11. reqs' \in [Requests -> {Idle} \cup Request] /\ \A q \in Requests : q # r => reqs'[q] = reqs[q]
  BY <1>8, <1>9, <1>10
<1>12. reqs'[r].pc = pc /\ reqs'[r].op = op /\ reqs'[r].row = row /\ reqs'[r].worth = worth
  BY <1>2, <1>8, <1>9 DEF Request
<1> HIDE DEF row
<1>13. /\ Op(r)' = op /\ Op(r) = op /\ Busy(r)' /\ ~Sells(r)' /\ Serves(r)' /\ Owner(r)' = row.customer
       /\ (\A c : ~Inserted(r, c)')
       /\ \A s : At(r, s)' = (s = pc)
  BY <1>3, <1>7, <1>12 DEF Op, Busy, Sells, Serves, At, Owner, Inserted
<1>14. /\ bills' = bills /\ wallets' = wallets /\ today' = today /\ receipts' = receipts /\ lock' = lock
  BY <1>1 DEF vars
<1>15. \A q \in Requests : q # r => Stands(q)'
  BY <1>1, <1>11, <1>13, OthersStand
<1>16. SaleIsOwn(r)' /\ NoOtherSells(r)' /\ CreditHolds(r)'
  BY <1>13 DEF SaleIsOwn, NoOtherSells, CreditHolds
<1>17. RowIsLocked(r)'
  BY <1>1, <1>2, <1>3, <1>7, <1>13, <1>14 DEF Stands, RowIsLocked, Made
<1>18. RowIsRead(r)'
  <2>1. row = bills[op.bill]
    BY DEF row
  <2>2. Acceptable(op, row)' /\ ~KeyUsed(op)'
    BY <1>3, <1>12, <1>14, <2>1 DEF Acceptable, PaymentAllowed, KeyUsed, row
  <2>3. op.kind = "return" => worth \in Worths(row, op.goods) /\ RefundAllowed(row, worth)
    BY <1>4
  <2>4. QED
    BY <1>3, <1>4, <1>7, <1>12, <1>13, <1>14, <2>1, <2>2, <2>3 DEF RowIsRead, RefundTo, Acceptable, PaymentAllowed, KeyUsed
<1>19. WalletCovers(r)'
  BY <1>7, <1>13 DEF WalletCovers
<1>20. HoldsForSale(r)'
  <2>1. \A c \in Customers : lock[<<"customer", c>>] # r
    BY <1>2, <1>3, <1>13 DEF Stands, HoldsForSale, Inserted, Sells, Busy, Op
  <2>2. QED
    BY <1>14, <2>1 DEF HoldsForSale
<1>21. IInv' /\ ReqTyped' /\ KeysDiffer'
  BY <1>1, <1>11, <1>14 DEF ReqInv, IInv, TypeOK, Sound, Made, vars, ReqTyped, KeysDiffer
<1>22. QED
  BY <1>15, <1>16, <1>17, <1>18, <1>19, <1>20, <1>21 DEF ReqInv, Stands

LEMMA BeginKeeps == ASSUME SaleBillAssumption, ReqInv, NEW r \in Requests, NEW op \in Ops, Begin(r, op) PROVE ReqInv'
<1> DEFINE new == Drafted(op.customer, op.role, today, op.goods, op.total)
           x == [pc |-> IF op.kind = "sale" THEN AfterRead(op) ELSE IF op.kind = "settle" THEN "key" ELSE "bill",
                 op |-> op, row |-> IF op.kind = "sale" THEN new ELSE NoBill, worth |-> 0]
<1>1. reqs' = [reqs EXCEPT ![r] = x] /\ UNCHANGED <<vars, receipts, lock>> /\ ~Busy(r)
  BY DEF Begin, Busy
<1>2. op.kind = "sale" =>
        /\ ~Made(op.bill) /\ Free(r, <<"customer", op.customer>>)
        /\ \A q \in Requests : Busy(q) => Op(q).bill # op.bill
        /\ op.customer \notin WalkIns \/ Amount(op) = op.total
        /\ Amount(op) > 0 => PaymentAllowed(new, op.money, op.wallet, op.wallet)
  BY DEF Begin, Busy, Op
<1>3. op.kind # "sale" => Made(op.bill)
  BY DEF Begin
<1>4. /\ op.kind = "sale" => x.pc \in {"wallet", "branch", "customer"}
      /\ op.kind = "sale" /\ x.pc \in {"wallet", "branch"} => Amount(op) > 0
      /\ op.kind = "sale" /\ op.wallet > 0 => x.pc = "wallet"
      /\ op.kind # "sale" => x.pc \in {"key", "bill"} /\ (x.pc = "key" <=> op.kind = "settle")
  <2>1. op.kind = "sale" => op.money \in Nat /\ op.wallet \in Nat /\ Pays(op)
    BY OpForms DEF Pays, SaleBillAssumption
  <2>2. QED
    BY <2>1 DEF AfterRead, Amount
<1>5. x.pc \in Steps /\ x.op = op /\ x.row \in Bill \cup {NoBill} /\ x.worth = 0 /\ (op.kind = "sale" => x.row = new)
  <2>1. op.kind = "sale" => new \in Bill
    BY NewRow DEF ReqInv
  <2>2. x.pc \in Steps
    BY <1>4 DEF Steps
  <2>3. QED
    BY <2>1, <2>2
<1>6. x \in Request
  BY <1>5 DEF Request
<1> HIDE DEF x
<1>7. /\ reqs' \in [Requests -> {Idle} \cup Request] /\ reqs'[r] = x
      /\ \A q \in Requests : q # r => reqs'[q] = reqs[q]
  BY <1>1, <1>6 DEF ReqInv, ReqTyped
<1> HIDE DEF new
<1>8. /\ Op(r)' = op /\ Busy(r)' /\ Sells(r)' = (op.kind = "sale") /\ Serves(r)' = (op.kind # "sale")
      /\ (\A c : Inserted(r, c)' = (op.kind = "sale" /\ op.customer = c))
      /\ \A s : At(r, s)' = (s = x.pc)
  BY <1>4, <1>5, <1>7 DEF Op, Busy, Sells, Serves, At, Inserted
<1>9. /\ bills' = bills /\ wallets' = wallets /\ today' = today /\ receipts' = receipts /\ lock' = lock
  BY <1>1 DEF vars
<1>10. \A q \in Requests : q # r => Stands(q)'
  <2>1. \A q \in Requests, c \in Customers :
              q # r /\ lock[<<"customer", c>>] = q => ~Inserted(r, c)' \/ Inserted(r, c)
    <3>1. op.kind = "sale" => lock[<<"customer", op.customer>>] \in {Nobody, r}
      BY <1>2 DEF Free
    <3>2. ASSUME NEW q \in Requests, NEW c \in Customers, q # r, lock[<<"customer", c>>] = q, Inserted(r, c)'
          PROVE  FALSE
      <4>1. op.kind = "sale" /\ op.customer = c
        BY <1>8, <3>2
      <4>2. lock[<<"customer", c>>] \in {Nobody, r}
        BY <3>1, <4>1
      <4>3. QED
        BY <3>2, <4>2, OpsAssumption
    <3>3. QED
      BY <3>2
  <2>2. \A q \in Requests : q # r /\ Sells(q) /\ Sells(r)' => Op(r)'.bill # Op(q).bill
    BY <1>2, <1>8 DEF Sells
  <2>3. QED
    BY <1>1, <1>7, <1>9, <2>1, <2>2, OthersStand
<1>11. SaleIsOwn(r)'
  <2>1. SUFFICES ASSUME op.kind = "sale" PROVE SaleIsOwn(r)'
    BY <1>8 DEF SaleIsOwn
  <2>2. reqs'[r].row = new /\ new = Drafted(op.customer, op.role, today, op.goods, op.total)
    BY <1>5, <1>7, <2>1 DEF new
  <2>3. QED
    BY <1>2, <1>4, <1>8, <1>9, <2>1, <2>2 DEF SaleIsOwn, Made, PaymentAllowed
<1>12. NoOtherSells(r)'
  <2>1. SUFFICES ASSUME NEW p \in Requests, p # r, Sells(p)', Sells(r)' PROVE Op(p)'.bill # Op(r)'.bill
    BY DEF NoOtherSells
  <2>2. reqs'[p] = reqs[p]
    BY <1>7, <2>1
  <2>3. QED
    BY <1>2, <1>8, <2>1, <2>2 DEF Sells, Busy, At, Op
<1>13. RowIsLocked(r)'
  BY <1>3, <1>4, <1>8, <1>9 DEF RowIsLocked, Made
<1>14. RowIsRead(r)' /\ CreditHolds(r)'
  BY <1>4, <1>8 DEF RowIsRead, CreditHolds
<1>15. WalletCovers(r)'
  BY <1>4, <1>8 DEF WalletCovers, Pays
<1>16. HoldsForSale(r)'
  <2>1. \A c \in Customers : lock[<<"customer", c>>] # r
    BY <1>1 DEF ReqInv, Stands, HoldsForSale, Inserted, Busy
  <2>2. QED
    BY <1>9, <2>1 DEF HoldsForSale
<1>17. IInv' /\ ReqTyped' /\ KeysDiffer'
  BY <1>1, <1>7, <1>9 DEF ReqInv, IInv, TypeOK, Sound, Made, vars, ReqTyped, KeysDiffer
<1>18. QED
  BY <1>10, <1>11, <1>12, <1>13, <1>14, <1>15, <1>16, <1>17 DEF ReqInv, Stands

-----------------------------------------------------------------------------
(* A commit is one operation of SaleBill.                                  *)

LEMMA AtCommit ==
    ASSUME SaleBillAssumption, ReqInv, NEW r \in Requests, At(r, "commit")
    PROVE  /\ Busy(r) /\ ~At(r, "key") /\ ~At(r, "bill") /\ ~At(r, "read") /\ ~At(r, "wallet")
           /\ Stands(r) /\ Op(r) \in Ops /\ reqs[r].row \in Bill /\ BillSound(reqs[r].row)
           /\ Owner(r) \in Customers /\ wallets[Owner(r)] \in Nat
           /\ Pays(Op(r)) => Op(r).money \in Nat /\ Op(r).wallet \in Nat /\ Op(r).wallet <= wallets[Owner(r)]
<1>1. Busy(r) /\ ~At(r, "key") /\ ~At(r, "bill") /\ ~At(r, "read") /\ ~At(r, "wallet")
  BY DEF At, Busy
<1>2. /\ Stands(r) /\ Op(r) \in Ops /\ reqs[r].row \in Bill /\ BillSound(reqs[r].row)
      /\ Owner(r) \in Customers
  BY <1>1, Fields, RowIsBill DEF ReqInv
<1>3. wallets[Owner(r)] \in Nat
  BY <1>2 DEF ReqInv, IInv, TypeOK
<1>4. Pays(Op(r)) => Op(r).money \in Nat /\ Op(r).wallet \in Nat
  BY <1>2, OpForms DEF SaleBillAssumption
<1>5. Pays(Op(r)) /\ Op(r).wallet > 0 => Op(r).wallet <= wallets[Owner(r)]
  <2>1. Pays(Op(r)) /\ Op(r).wallet > 0 => wallets[Owner(r)] >= Op(r).wallet
    BY <1>1, <1>2 DEF Stands, WalletCovers
  <2>2. QED
    BY <1>3, <1>4, <2>1
<1>6. QED
  BY <1>1, <1>2, <1>3, <1>4, <1>5

\* A bill paid in full at checkout.
LEMMA PaidInFull ==
    ASSUME NEW i \in Bill, i.paid = 0, i.credited = 0
    PROVE  Paid(i, i.grand).status = "SETTLED"
<1>1. i.grand \in Nat
  BY BillFields
<1>2. i.paid + Smaller(i.grand, Due(i)) + i.credited >= i.grand
  BY <1>1 DEF Due, Larger, Smaller
<1>3. Paid(i, i.grand).status = StatusFor(i, i.paid + Smaller(i.grand, Due(i)), i.credited)
  BY DEF Paid, Bill
<1>4. QED
  BY <1>2, <1>3 DEF StatusFor

LEMMA SaleCommits ==
    ASSUME SaleBillAssumption, ReqInv, NEW r \in Requests, Commit(r), Op(r).kind = "sale"
    PROVE  Next
<1> DEFINE op == Op(r)
           row == reqs[r].row
<1>1. At(r, "commit")
  BY DEF Commit
<1>2. /\ Busy(r) /\ Stands(r) /\ op \in Ops /\ row \in Bill
      /\ op.money \in Nat /\ op.wallet \in Nat /\ op.wallet <= wallets[Owner(r)] /\ wallets[Owner(r)] \in Nat
      /\ Sells(r) /\ Pays(op)
  BY <1>1, AtCommit DEF Pays, Sells
<1>3. /\ op.bill \in Bills /\ op.customer \in Customers /\ op.role \in Roles /\ op.goods \in Baskets
      /\ op.goods # NoGoods /\ op.total \in 1..MaxGrand /\ op.money \in 0..MaxPay /\ op.wallet \in 0..MaxPay
  BY <1>2, OpForms
<1>4. /\ row = Drafted(op.customer, op.role, today, op.goods, op.total)
      /\ ~Made(op.bill)
      /\ op.customer \notin WalkIns \/ Amount(op) = op.total
      /\ Amount(op) > 0 => PaymentAllowed(row, op.money, op.wallet, op.wallet)
  BY <1>2 DEF Stands, SaleIsOwn
<1>5. Owner(r) = op.customer
  BY <1>4 DEF Owner, Drafted
<1>6. Amount(op) = op.money + op.wallet /\ Amount(op) \in Nat
  BY <1>2 DEF Amount
<1>7. Written(r) = IF op.money + op.wallet = 0 THEN row ELSE Paid(row, op.money + op.wallet)
  <2>1. op.kind = "sale" /\ op.kind # "return" /\ op.kind # "cancel" /\ Pays(op)
    BY <1>2
  <2>2. CASE Amount(op) = 0
    BY <1>6, <2>1, <2>2 DEF Written, Op
  <2>3. CASE Amount(op) # 0
    BY <1>6, <2>1, <2>3 DEF Written, Op
  <2>4. QED
    BY <2>2, <2>3
<1>8. /\ bills' = [bills EXCEPT ![op.bill] = Written(r)]
      /\ wallets' = [wallets EXCEPT ![op.customer] =
                        IF op.money + op.wallet = 0 THEN wallets[op.customer]
                        ELSE WalletAfter(row, op.money, op.wallet, wallets[op.customer])]
      /\ drawer' = drawer + op.money /\ adjusted' = adjusted /\ today' = today
  BY <1>2, <1>5, <1>6 DEF Commit, Op
<1>9. op.money + op.wallet > 0 => PaymentAllowed(row, op.money, op.wallet, wallets[op.customer])
  BY <1>2, <1>4, <1>5, <1>6 DEF PaymentAllowed
<1>10. Written(r).status # "SETTLED" => op.customer \notin WalkIns /\ WithinCreditLimit(bills', op.role, op.customer)
  <2>1. SUFFICES ASSUME Written(r).status # "SETTLED"
                 PROVE  op.customer \notin WalkIns /\ WithinCreditLimit(bills', op.role, op.customer)
    OBVIOUS
  <2>2. WithinCreditLimit([bills EXCEPT ![op.bill] = Written(r)], op.role, op.customer)
    BY <1>1, <1>2, <2>1 DEF Stands, CreditHolds
  <2>3. ASSUME op.customer \in WalkIns PROVE FALSE
    <3>1. Amount(op) = op.total /\ op.total > 0
      BY <1>3, <1>4, <2>3 DEF SaleBillAssumption
    <3>2. row.paid = 0 /\ row.credited = 0 /\ row.grand = op.total
      BY <1>4 DEF Drafted
    <3>3. Paid(row, op.total).status = "SETTLED"
      BY <1>2, <3>2, PaidInFull
    <3>4. QED
      BY <1>6, <1>7, <2>1, <3>1, <3>3
  <2>4. QED
    BY <1>8, <2>2, <2>3
<1> HIDE DEF op, row
<1>11. Checkout(op.bill, op.customer, op.role, op.goods, op.total, op.money, op.wallet)
  <2> DEFINE made == IF op.money + op.wallet = 0 THEN row ELSE Paid(row, op.money + op.wallet)
  <2>1. made = Written(r)
    BY <1>7
  <2>2. bills' = [bills EXCEPT ![op.bill] = made] /\ (made.status # "SETTLED" => op.customer \notin WalkIns /\ WithinCreditLimit(bills', op.role, op.customer))
    BY <1>8, <1>10, <2>1
  <2>3. QED
    BY <1>3, <1>4, <1>8, <1>9, <2>2 DEF Checkout
<1>12. op.total \in (IF FreeGoods THEN 0 ELSE 1)..MaxGrand
  BY <1>3 DEF SaleBillAssumption
<1>13. QED
  BY <1>3, <1>11, <1>12 DEF Next

LEMMA SettleCommits ==
    ASSUME SaleBillAssumption, ReqInv, NEW r \in Requests, Commit(r), Op(r).kind = "settle"
    PROVE  /\ Next
           /\ Payable(reqs[r].row) /\ Amount(Op(r)) \in Nat /\ Amount(Op(r)) > 0
           /\ Written(r) = Paid(reqs[r].row, Amount(Op(r)))
<1> DEFINE op == Op(r)
           row == reqs[r].row
<1>1. At(r, "commit")
  BY DEF Commit
<1>2. /\ Busy(r) /\ Stands(r) /\ op \in Ops /\ row \in Bill
      /\ op.money \in Nat /\ op.wallet \in Nat /\ op.wallet <= wallets[Owner(r)] /\ wallets[Owner(r)] \in Nat
      /\ Serves(r) /\ Pays(op)
      /\ ~At(r, "key") /\ ~At(r, "bill") /\ ~At(r, "read")
  BY <1>1, AtCommit DEF Pays, Serves
<1>3. op.bill \in Bills /\ op.money \in 0..MaxPay /\ op.wallet \in 0..MaxPay
  BY <1>2, OpForms
<1>4. row = bills[op.bill] /\ Made(op.bill) /\ PaymentAllowed(row, op.money, op.wallet, op.wallet)
  BY <1>2 DEF Stands, RowIsRead, RowIsLocked, Acceptable
<1>5. Amount(op) = op.money + op.wallet /\ Amount(op) \in Nat /\ Amount(op) > 0 /\ Payable(row)
  BY <1>2, <1>4 DEF Amount, PaymentAllowed
<1>6. Written(r) = Paid(row, Amount(op))
  BY <1>2, <1>5 DEF Written, Op
<1>7. /\ bills' = [bills EXCEPT ![op.bill] = Paid(row, op.money + op.wallet)]
      /\ wallets' = [wallets EXCEPT ![row.customer] = WalletAfter(row, op.money, op.wallet, wallets[row.customer])]
      /\ drawer' = drawer + op.money /\ adjusted' = adjusted /\ today' = today
  BY <1>2, <1>5, <1>6 DEF Commit, Op, Owner
<1>8. PaymentAllowed(row, op.money, op.wallet, wallets[row.customer])
  BY <1>2, <1>4 DEF PaymentAllowed, Owner
<1> HIDE DEF op, row
<1>9. Settle(op.bill, op.money, op.wallet)
  BY <1>4, <1>7, <1>8 DEF Settle
<1>10. Next
  BY <1>3, <1>9 DEF Next
<1>11. QED
  BY <1>5, <1>6, <1>10 DEF op, row

LEMMA ReturnCommits ==
    ASSUME SaleBillAssumption, ReqInv, NEW r \in Requests, Commit(r), Op(r).kind = "return"
    PROVE  /\ Next
           /\ reqs[r].worth \in Worths(reqs[r].row, Op(r).goods) /\ Op(r).goods \in Goods
           /\ Returnable(reqs[r].row, Op(r).goods)
           /\ Written(r) = Returned(reqs[r].row, Op(r).goods, reqs[r].worth)
<1> DEFINE op == Op(r)
           row == reqs[r].row
           worth == reqs[r].worth
           refund == RefundAmount(row, worth)
<1>1. At(r, "commit")
  BY DEF Commit
<1>2. /\ Busy(r) /\ Stands(r) /\ op \in Ops /\ row \in Bill /\ BillSound(row)
      /\ Serves(r) /\ ~Pays(op) /\ op.kind = "return"
      /\ ~At(r, "key") /\ ~At(r, "bill") /\ ~At(r, "read")
      /\ row.customer \in Customers
  BY <1>1, AtCommit DEF Pays, Serves, Owner
<1>3. op.bill \in Bills /\ op.role \in Roles /\ op.goods \in Baskets /\ op.goods \in Goods /\ op.mode \in {"CASH", "WALLET"}
  BY <1>2, OpForms DEF SaleBillAssumption
<1>4. /\ row = bills[op.bill] /\ Made(op.bill)
      /\ Returnable(row, op.goods) /\ (op.role = "ADMIN" \/ today - row.madeOn <= WindowDays)
      /\ worth \in Worths(row, op.goods) /\ RefundAllowed(row, worth)
      /\ RefundTo(op, row, worth) > 0 => row.customer \notin WalkIns /\ ~Offline
  BY <1>2 DEF Stands, RowIsRead, RowIsLocked, Acceptable
<1>5. refund \in Nat
  BY <1>2, <1>3, <1>4, RefundsArePaid DEF RefundAmount
<1>6. Written(r) = Returned(row, op.goods, worth)
  BY <1>2 DEF Written, Op
<1>7. RefundTo(op, row, worth) = IF op.mode = "WALLET" THEN refund ELSE 0
  BY <1>2 DEF RefundTo
<1>8. /\ bills' = [bills EXCEPT ![op.bill] = Returned(row, op.goods, worth)]
      /\ wallets' = [wallets EXCEPT ![row.customer] = wallets[row.customer] + RefundTo(op, row, worth)]
      /\ drawer' = drawer - (refund - RefundTo(op, row, worth)) /\ adjusted' = adjusted /\ today' = today
  BY <1>2, <1>6 DEF Commit, Op, Owner
<1>9. wallets \in [Customers -> Nat] /\ drawer \in Int
  BY DEF ReqInv, IInv, TypeOK
<1> HIDE DEF op, row, worth, refund
<1>10. IF op.mode = "WALLET"
       THEN wallets' = [wallets EXCEPT ![row.customer] = wallets[row.customer] + refund] /\ drawer' = drawer
       ELSE wallets' = wallets /\ drawer' = drawer - refund
  <2>1. CASE op.mode = "WALLET"
    BY <1>5, <1>7, <1>8, <1>9, <2>1
  <2>2. CASE op.mode # "WALLET"
    <3>1. wallets' = [wallets EXCEPT ![row.customer] = wallets[row.customer] + 0] /\ drawer' = drawer - (refund - 0)
      BY <1>7, <1>8, <2>2
    <3>2. wallets[row.customer] + 0 = wallets[row.customer]
      BY <1>2, <1>9
    <3>3. wallets' = wallets
      BY <1>9, <3>1, <3>2
    <3>4. QED
      BY <1>5, <1>9, <2>2, <3>1, <3>3
  <2>3. QED
    BY <2>1, <2>2
<1>11. refund > 0 /\ op.mode = "WALLET" => row.customer \notin WalkIns /\ ~Offline
  BY <1>4, <1>7
<1>12. CreateReturn(op.bill, op.role, op.goods, op.mode)
  <2>1. bills[op.bill] = row /\ refund = RefundAmount(row, worth)
    BY <1>4 DEF refund
  <2>2. QED
    BY <1>4, <1>8, <1>10, <1>11, <2>1 DEF CreateReturn
<1>13. Next
  BY <1>3, <1>12 DEF Next
<1>14. QED
  BY <1>3, <1>4, <1>6, <1>13 DEF op, row, worth

LEMMA CancelCommits ==
    ASSUME SaleBillAssumption, ReqInv, NEW r \in Requests, Commit(r), Op(r).kind = "cancel"
    PROVE  Next /\ Written(r) = Cancelled(reqs[r].row) /\ wallets' = wallets
<1> DEFINE op == Op(r)
           row == reqs[r].row
<1>1. At(r, "commit")
  BY DEF Commit
<1>2. /\ Stands(r) /\ op \in Ops /\ row \in Bill /\ Serves(r) /\ ~Pays(op) /\ op.kind = "cancel"
      /\ ~At(r, "key") /\ ~At(r, "bill") /\ ~At(r, "read") /\ row.customer \in Customers
  BY <1>1, AtCommit DEF Pays, Serves, Owner
<1>3. op.bill \in Bills
  BY <1>2, OpForms
<1>4. row = bills[op.bill] /\ Made(op.bill) /\ Cancellable(row, today)
  BY <1>2 DEF Stands, RowIsRead, RowIsLocked, Acceptable
<1>5. Written(r) = Cancelled(row) /\ RefundTo(op, row, reqs[r].worth) = 0
  BY <1>2 DEF Written, Op, RefundTo
<1>6. /\ bills' = [bills EXCEPT ![op.bill] = Cancelled(row)]
      /\ wallets' = [wallets EXCEPT ![row.customer] = wallets[row.customer] + 0]
      /\ drawer' = drawer - (0 - 0) /\ adjusted' = adjusted /\ today' = today
  BY <1>2, <1>5 DEF Commit, Op, Owner
<1>7. wallets \in [Customers -> Nat] /\ drawer \in Int
  BY DEF ReqInv, IInv, TypeOK
<1> HIDE DEF op, row
<1>8. wallets' = wallets /\ drawer' = drawer
  <2>1. wallets[row.customer] + 0 = wallets[row.customer]
    BY <1>2, <1>7
  <2>2. QED
    BY <1>6, <1>7, <2>1
<1>9. CancelSale(op.bill)
  BY <1>4, <1>6, <1>8 DEF CancelSale
<1>10. Next
  BY <1>3, <1>9 DEF Next
<1>11. QED
  BY <1>5, <1>8, <1>10 DEF row

LEMMA CommitIsAStep ==
    ASSUME SaleBillAssumption, ReqInv, NEW r \in Requests, Commit(r)
    PROVE  Next
<1>1. Op(r) \in Ops
  BY AtCommit DEF Commit
<1>2. QED
  BY <1>1, OpForms, SaleCommits, SettleCommits, ReturnCommits, CancelCommits

-----------------------------------------------------------------------------
(* What a commit leaves to the others.                                     *)

LEMMA PaidOwesLess ==
    ASSUME NEW i \in Bill, Payable(i), NEW amount \in Nat, NEW c
    PROVE  DueOn(Paid(i, amount), c) <= DueOn(i, c)
<1>1. /\ i.status \in Unpaid /\ i.grand \in Nat /\ i.paid \in Nat /\ i.credited \in Nat
  BY BillFields DEF Payable, Statuses, Unpaid
<1>2. /\ Paid(i, amount).customer = i.customer /\ Paid(i, amount).grand = i.grand
      /\ Paid(i, amount).credited = i.credited /\ Paid(i, amount).paid = i.paid + Smaller(amount, Due(i))
  BY DEF Paid, Bill
<1>3. Due(Paid(i, amount)) <= Due(i) /\ Due(i) \in Nat
  BY <1>1, <1>2 DEF Due, Larger, Smaller
<1>4. QED
  BY <1>1, <1>2, <1>3 DEF DueOn

LEMMA ReturnedOwesLess ==
    ASSUME NEW i \in Bill, BillSound(i), NEW goods \in Goods, Returnable(i, goods),
           NEW worth \in Worths(i, goods), NEW c
    PROVE  DueOn(Returned(i, goods, worth), c) <= DueOn(i, c)
<1>1. /\ i.status \in Unpaid \/ i.status = "SETTLED"
      /\ i.grand \in Nat /\ i.paid \in Nat /\ i.credited \in Nat /\ DueAdjusted(i, worth) \in Nat
  BY BillFields, RefundsArePaid DEF Returnable, Statuses, Unpaid
<1>2. /\ Returned(i, goods, worth).customer = i.customer /\ Returned(i, goods, worth).grand = i.grand
      /\ Returned(i, goods, worth).paid = i.paid
      /\ Returned(i, goods, worth).credited = i.credited + DueAdjusted(i, worth)
  BY DEF Returned, Bill
<1>3. Due(Returned(i, goods, worth)) <= Due(i) /\ Due(i) \in Nat
  BY <1>1, <1>2 DEF Due, Larger
<1>4. i.status = "SETTLED" => Returned(i, goods, worth).status = "SETTLED"
  BY SettledReturned
<1>5. QED
  BY <1>1, <1>2, <1>3, <1>4 DEF DueOn, Unpaid

LEMMA WithinStays ==
    ASSUME SaleBillAssumption, NEW bs \in [Bills -> Bill \cup {NoBill}], NEW bt \in [Bills -> Bill \cup {NoBill}],
           NEW c \in Customers, NEW role, \A d \in Bills : DueOn(bt[d], c) <= DueOn(bs[d], c),
           WithinCreditLimit(bs, role, c)
    PROVE  WithinCreditLimit(bt, role, c)
<1>1. SUFFICES ASSUME role # "ADMIN", CreditLimit[c] # NoLimit PROVE Owed(bt, c) <= CreditLimit[c]
  BY DEF WithinCreditLimit
<1>2. Owed(bs, c) <= CreditLimit[c] /\ CreditLimit[c] \in Nat
  BY <1>1 DEF WithinCreditLimit, SaleBillAssumption
<1>3. /\ Dues(bs, c) \in [Bills -> Int] /\ Dues(bt, c) \in [Bills -> Int]
      /\ \A d \in Bills : Dues(bt, c)[d] <= Dues(bs, c)[d]
      /\ IsFiniteSet(Bills)
  BY DuesTyped DEF SaleBillAssumption
<1>4. Total(Dues(bt, c)) <= Total(Dues(bs, c)) /\ Total(Dues(bt, c)) \in Int /\ Total(Dues(bs, c)) \in Int
  BY <1>3, TotalAtMost, TotalType
<1>5. Owed(bs, c) = Total(Dues(bs, c)) /\ Owed(bt, c) = Total(Dues(bt, c))
  BY OwedTotal
<1>6. QED
  BY <1>2, <1>4, <1>5

\* The bill a commit writes; money it takes from a wallet is of one it holds.
LEMMA CommitWrites ==
    ASSUME SaleBillAssumption, ReqInv, NEW r \in Requests, Commit(r)
    PROVE  /\ Op(r).bill \in Bills /\ bills' = [bills EXCEPT ![Op(r).bill] = Written(r)]
           /\ \A d \in Bills : d # Op(r).bill => bills'[d] = bills[d]
           /\ bills'[Op(r).bill] = Written(r)
           /\ adjusted' = adjusted /\ today' = today
           /\ reqs' = [reqs EXCEPT ![r] = Idle] /\ lock' = Released(r)
           /\ \A c : DueOn(Written(r), c) <= DueOn(bills[Op(r).bill], c) \/ (Sells(r) /\ c = Op(r).customer)
<1>1. /\ At(r, "commit") /\ bills' = [bills EXCEPT ![Op(r).bill] = Written(r)]
      /\ adjusted' = adjusted /\ today' = today /\ reqs' = [reqs EXCEPT ![r] = Idle] /\ lock' = Released(r)
  BY DEF Commit, Op
<1>2. Op(r) \in Ops /\ Stands(r) /\ reqs[r].row \in Bill /\ BillSound(reqs[r].row) /\ Busy(r)
  BY <1>1, AtCommit
<1>3. Op(r).bill \in Bills /\ bills \in [Bills -> Bill \cup {NoBill}]
  BY <1>2, OpForms DEF ReqInv, IInv, TypeOK
<1>4. bills'[Op(r).bill] = Written(r) /\ \A d \in Bills : d # Op(r).bill => bills'[d] = bills[d]
  BY <1>1, <1>3
<1>5. Op(r).kind # "sale" => reqs[r].row = bills[Op(r).bill]
  BY <1>1, <1>2 DEF Stands, RowIsRead, Serves, At
<1>6. ASSUME NEW c, ~(Sells(r) /\ c = Op(r).customer)
      PROVE  DueOn(Written(r), c) <= DueOn(bills[Op(r).bill], c)
  <2>1. CASE Op(r).kind = "sale"
    <3>1. c # Op(r).customer /\ reqs[r].row.customer = Op(r).customer
      BY <1>2, <1>6, <2>1, NewRow DEF Sells, Stands, SaleIsOwn, ReqInv
    <3>2. Written(r) = reqs[r].row \/ Written(r) = Paid(reqs[r].row, Amount(Op(r)))
      <4>1. Op(r).kind # "return" /\ Op(r).kind # "cancel" /\ Pays(Op(r))
        BY <2>1 DEF Pays
      <4>2. Amount(Op(r)) \in Nat
        BY <1>1, <4>1, AtCommit DEF Amount
      <4>3. QED
        BY <2>1, <4>1, <4>2 DEF Written, Op
    <3>3. Paid(reqs[r].row, Amount(Op(r))).customer = reqs[r].row.customer
      BY <1>2 DEF Paid, Bill
    <3>4. DueOn(Written(r), c) = 0
      BY <3>1, <3>2, <3>3 DEF DueOn
    <3>5. DueOn(bills[Op(r).bill], c) \in Nat
      BY <1>3, DuesTyped
    <3>6. QED
      BY <3>4, <3>5
  <2>2. CASE Op(r).kind = "settle"
    BY <1>2, <1>5, <2>2, SettleCommits, PaidOwesLess
  <2>3. CASE Op(r).kind = "return"
    BY <1>2, <1>5, <2>3, ReturnCommits, ReturnedOwesLess
  <2>4. CASE Op(r).kind = "cancel"
    <3>1. Written(r).status = "CANCELLED"
      <4>1. Written(r) = Cancelled(reqs[r].row)
        BY <2>4, CancelCommits
      <4>2. QED
        BY <1>2, <4>1 DEF Cancelled, Bill
    <3>2. DueOn(Written(r), c) = 0
      BY <3>1 DEF DueOn, Unpaid
    <3>3. DueOn(bills[Op(r).bill], c) \in Nat
      BY <1>3, DuesTyped
    <3>4. QED
      BY <3>2, <3>3
  <2>5. QED
    BY <1>2, <2>1, <2>2, <2>3, <2>4, OpForms
<1>7. QED
  BY <1>1, <1>3, <1>4, <1>6

LEMMA CommitWallets ==
    ASSUME SaleBillAssumption, ReqInv, NEW r \in Requests, Commit(r), NEW c \in Customers,
           lock[<<"wallet", c>>] # r
    PROVE  wallets'[c] >= wallets[c]
<1>1. At(r, "commit") /\ wallets \in [Customers -> Nat]
  BY DEF Commit, ReqInv, IInv, TypeOK
<1>2. Op(r) \in Ops /\ Stands(r) /\ Busy(r) /\ reqs[r].row \in Bill /\ BillSound(reqs[r].row) /\ Owner(r) \in Customers
  BY <1>1, AtCommit
<1>3. CASE Pays(Op(r))
  <2>1. Op(r).money \in Nat /\ Op(r).wallet \in Nat /\ Amount(Op(r)) \in Nat
    BY <1>1, <1>3, AtCommit DEF Amount
  <2>2. wallets' = [wallets EXCEPT ![Owner(r)] =
            IF Amount(Op(r)) = 0 THEN wallets[Owner(r)]
            ELSE WalletAfter(reqs[r].row, Op(r).money, Op(r).wallet, wallets[Owner(r)])]
    BY <1>3 DEF Commit, Op
  <2>3. CASE c # Owner(r)
    BY <1>1, <1>2, <2>2, <2>3
  <2>4. CASE c = Owner(r)
    <3>1. Op(r).wallet = 0
      BY <1>1, <1>2, <1>3, <2>1, <2>4 DEF Stands, WalletCovers, At
    <3>2. Excess(reqs[r].row, Op(r).money + Op(r).wallet) \in Nat
      BY <1>2, <2>1, BillFields DEF Excess, Larger, Due
    <3>3. WalletAfter(reqs[r].row, Op(r).money, Op(r).wallet, wallets[Owner(r)]) >= wallets[Owner(r)]
      BY <1>1, <1>2, <3>1, <3>2 DEF WalletAfter
    <3>4. QED
      BY <1>1, <1>2, <2>2, <2>4, <3>3
  <2>5. QED
    BY <2>3, <2>4
<1>4. CASE ~Pays(Op(r))
  <2>1. wallets' = [wallets EXCEPT ![Owner(r)] = wallets[Owner(r)] + RefundTo(Op(r), reqs[r].row, reqs[r].worth)]
    BY <1>4 DEF Commit, Op
  <2>2. RefundTo(Op(r), reqs[r].row, reqs[r].worth) \in Nat
    <3>1. CASE Op(r).kind = "return"
      BY <1>2, <3>1, ReturnCommits, RefundsArePaid DEF RefundTo, RefundAmount
    <3>2. CASE Op(r).kind # "return"
      BY <3>2 DEF RefundTo
    <3>3. QED
      BY <3>1, <3>2
  <2>3. QED
    BY <1>1, <1>2, <2>1, <2>2
<1>5. QED
  BY <1>3, <1>4

LEMMA CommitReceipts ==
    ASSUME SaleBillAssumption, ReqInv, NEW r \in Requests, Commit(r)
    PROVE  /\ receipts' \in Seq(Receipt) /\ KeysDiffer'
           /\ \A op : op.key \in Keys /\ ~KeyUsed(op) /\ KeyUsed(op)' => Op(r).kind = "settle" /\ op.key = Op(r).key
<1>1. At(r, "commit") /\ receipts \in Seq(Receipt) /\ KeysDiffer
  BY DEF Commit, ReqInv, ReqTyped
<1>2. Op(r) \in Ops /\ Stands(r) /\ Busy(r)
  BY <1>1, AtCommit
<1>3. CASE receipts' = receipts
  BY <1>1, <1>3 DEF KeysDiffer, KeyUsed
<1>4. CASE receipts' # receipts
  <2> DEFINE x == [bill |-> Op(r).bill, key |-> Op(r).key, money |-> Op(r).money, wallet |-> Op(r).wallet]
  <2>1. Pays(Op(r)) /\ receipts' = Append(receipts, x)
    BY <1>4 DEF Commit, Op
  <2>2. x \in Receipt /\ (Op(r).kind = "sale" => x.key = NoKey) /\ x.key = Op(r).key
    BY <1>1, <1>2, <2>1, OpForms, AtCommit DEF Receipt, Pays
  <2>3. Op(r).kind = "settle" => \A n \in 1..Len(receipts) : receipts[n].key # x.key
    BY <1>1, <1>2 DEF Stands, RowIsRead, KeyUsed, Serves, At
  <2>4. Op(r).kind \in {"sale", "settle"}
    BY <2>1 DEF Pays
  <2> HIDE DEF x
  <2>5. /\ receipts' \in Seq(Receipt) /\ Len(receipts') = Len(receipts) + 1 /\ Len(receipts) \in Nat
        /\ receipts'[Len(receipts) + 1] = x
        /\ \A n \in 1..Len(receipts) : receipts'[n] = receipts[n]
    BY <1>1, <2>1, <2>2
  <2>6. KeysDiffer'
    <3>1. SUFFICES ASSUME NEW m \in 1..Len(receipts'), NEW n \in 1..Len(receipts'),
                          receipts'[m].key = receipts'[n].key, m # n
                   PROVE  receipts'[m].key = NoKey
      BY DEF KeysDiffer
    <3>2. CASE m \in 1..Len(receipts) /\ n \in 1..Len(receipts)
      BY <1>1, <2>5, <3>1, <3>2 DEF KeysDiffer
    <3>3. CASE m = Len(receipts) + 1 \/ n = Len(receipts) + 1
      <4>1. receipts'[m].key = x.key
        BY <2>5, <3>1, <3>3
      <4>2. \E k \in 1..Len(receipts) : receipts[k].key = x.key
        BY <2>5, <3>1, <3>3
      <4>3. QED
        BY <2>2, <2>3, <2>4, <4>1, <4>2
    <3>4. QED
      BY <2>5, <3>1, <3>2, <3>3
  <2>7. \A op : op.key \in Keys /\ ~KeyUsed(op) /\ KeyUsed(op)' => Op(r).kind = "settle" /\ op.key = Op(r).key
    <3>1. SUFFICES ASSUME NEW op, op.key \in Keys, ~KeyUsed(op), op.kind = "settle",
                          NEW n \in 1..Len(receipts'), receipts'[n].key = op.key
                   PROVE  Op(r).kind = "settle" /\ op.key = Op(r).key
      BY DEF KeyUsed
    <3>2. n = Len(receipts) + 1
      BY <2>5, <3>1 DEF KeyUsed
    <3>3. x.key = op.key
      BY <2>5, <3>1, <3>2
    <3>4. QED
      BY <2>2, <2>4, <3>1, <3>3, OpsAssumption
  <2>8. QED
    BY <2>5, <2>6, <2>7
<1>5. QED
  BY <1>3, <1>4

LEMMA WrittenIsMade ==
    ASSUME SaleBillAssumption, ReqInv, NEW r \in Requests, At(r, "commit")
    PROVE  Written(r).status # "NONE" /\ (Sells(r) => Written(r) \in Bill)
<1>1. Op(r) \in Ops /\ Stands(r) /\ Busy(r) /\ reqs[r].row \in Bill /\ BillSound(reqs[r].row)
  BY AtCommit
<1>2. reqs[r].row.status # "NONE"
  BY <1>1, BillFields DEF Statuses
<1>3. \A amount : Paid(reqs[r].row, amount).status # "NONE"
  BY <1>1 DEF Paid, Bill, StatusFor
<1>4. CASE Op(r).kind = "sale"
  <2>1. Op(r).kind # "return" /\ Op(r).kind # "cancel" /\ Pays(Op(r)) /\ Amount(Op(r)) \in Nat
    BY <1>4, AtCommit DEF Pays, Amount
  <2>2. CASE Amount(Op(r)) = 0
    <3>1. Written(r) = reqs[r].row
      BY <1>4, <2>1, <2>2 DEF Written, Op
    <3>2. QED
      BY <1>1, <1>2, <3>1
  <2>3. CASE Amount(Op(r)) > 0
    <3>1. Written(r) = Paid(reqs[r].row, Amount(Op(r)))
      BY <1>4, <2>1, <2>3 DEF Written, Op
    <3>2. Payable(reqs[r].row)
      BY <1>1, <1>4, <2>3 DEF Stands, SaleIsOwn, Sells, PaymentAllowed
    <3>3. QED
      BY <1>1, <1>3, <2>1, <2>3, <3>1, <3>2, PaidSound
  <2>4. QED
    BY <2>1, <2>2, <2>3
<1>5. CASE Op(r).kind = "settle"
  <2>1. Pays(Op(r)) /\ Amount(Op(r)) > 0
    BY <1>1, <1>5, AtCommit DEF Pays, Amount, Stands, RowIsRead, Serves, Acceptable, PaymentAllowed
  <2>2. QED
    BY <1>3, <1>5, <2>1 DEF Written, Op, Sells
<1>6. CASE Op(r).kind = "return"
  <2>1. Written(r) = Returned(reqs[r].row, Op(r).goods, reqs[r].worth)
    BY <1>6 DEF Written, Op, Pays
  <2>2. QED
    BY <1>1, <1>2, <1>6, <2>1 DEF Returned, Bill, StatusFor, Sells
<1>7. CASE Op(r).kind = "cancel"
  <2>1. Written(r) = Cancelled(reqs[r].row)
    BY <1>7 DEF Written, Op, Pays
  <2>2. QED
    BY <1>1, <1>7, <2>1 DEF Cancelled, Bill, Sells
<1>8. QED
  BY <1>1, <1>4, <1>5, <1>6, <1>7, OpForms

LEMMA CommitKeeps == ASSUME SaleBillAssumption, ReqInv, NEW r \in Requests, Commit(r) PROVE ReqInv'
<1> DEFINE b == Op(r).bill
<1>1. /\ b \in Bills /\ (\A d \in Bills : d # b => bills'[d] = bills[d]) /\ bills'[b] = Written(r)
      /\ today' = today /\ reqs' = [reqs EXCEPT ![r] = Idle] /\ lock' = Released(r)
      /\ \A c : DueOn(Written(r), c) <= DueOn(bills[b], c) \/ (Sells(r) /\ c = Op(r).customer)
      /\ bills' = [bills EXCEPT ![b] = Written(r)]
  BY CommitWrites
<1>2. At(r, "commit") /\ Busy(r) /\ Stands(r) /\ Op(r) \in Ops
  BY AtCommit DEF Commit
<1>3. IInv'
  BY CommitIsAStep, EveryStepKeeps DEF ReqInv
<1>4. /\ reqs' \in [Requests -> {Idle} \cup Request] /\ reqs'[r] = Idle
      /\ \A q \in Requests : q # r => reqs'[q] = reqs[q]
  BY <1>1 DEF ReqInv, ReqTyped
<1>5. /\ lock' \in [Locks -> Requests \cup {Nobody}]
      /\ \A q \in Requests, m \in Locks : q # r => (lock'[m] = q <=> lock[m] = q)
      /\ \A m \in Locks : lock'[m] # r
  BY <1>1, ReleasedKeeps DEF ReqInv
<1>6. /\ receipts' \in Seq(Receipt) /\ KeysDiffer'
      /\ \A op : op.key \in Keys /\ ~KeyUsed(op) /\ KeyUsed(op)' => Op(r).kind = "settle" /\ op.key = Op(r).key
  BY CommitReceipts
<1>7. ReqTyped'
  BY <1>4, <1>5, <1>6 DEF ReqTyped
<1>8. ~Busy(r)' /\ (\A c : ~Inserted(r, c)') /\ ~Sells(r)'
  BY <1>4 DEF Busy, At, Idle, Inserted, Sells
<1>9. Stands(r)'
  <2>1. HoldsForSale(r)'
    BY <1>5 DEF HoldsForSale, Locks
  <2>2. QED
    BY <1>8, <2>1 DEF Stands, SaleIsOwn, NoOtherSells, RowIsLocked, RowIsRead, WalletCovers, CreditHolds, Sells, Serves
<1>10. ASSUME NEW q \in Requests, q # r PROVE Stands(q)'
  <2>1. reqs'[q] = reqs[q] /\ Stands(q)
    BY <1>4, <1>10 DEF ReqInv
  <2>2. /\ Op(q)' = Op(q) /\ Busy(q)' = Busy(q) /\ Sells(q)' = Sells(q) /\ Serves(q)' = Serves(q)
        /\ Owner(q)' = Owner(q) /\ Written(q)' = Written(q)
        /\ \A pc : At(q, pc)' = At(q, pc)
        /\ \A c : Inserted(q, c)' = Inserted(q, c)
    BY <2>1 DEF Op, Busy, Sells, Serves, At, Owner, Written, Inserted
  <2>3. \A m \in Locks : lock'[m] = q <=> lock[m] = q
    BY <1>5, <1>10
  <2>4. HoldsForSale(q)'
    <3>1. \A c \in Customers : <<"customer", c>> \in Locks
      BY DEF Locks
    <3>2. QED
      BY <2>1, <2>2, <2>3, <3>1 DEF Stands, HoldsForSale
  <2>5. CASE ~Busy(q)
    BY <2>2, <2>4, <2>5 DEF Stands, SaleIsOwn, NoOtherSells, RowIsLocked, RowIsRead, WalletCovers, CreditHolds, Sells, Serves
  <2>6. CASE Busy(q)
    <3>1. Op(q) \in Ops /\ Op(q).bill \in Bills /\ <<"bill", Op(q).bill>> \in Locks /\ <<"bill", b>> \in Locks
      BY <1>1, <2>6, Fields, OpForms DEF ReqInv, Locks
    <3>2. Sells(q) => Op(q).bill # b
      <4>1. CASE Sells(r)
        BY <1>10, <2>1, <4>1 DEF Stands, NoOtherSells
      <4>2. CASE ~Sells(r)
        BY <1>2, <2>1, <4>2 DEF Stands, SaleIsOwn, RowIsLocked, Sells, Serves
      <4>3. QED
        BY <4>1, <4>2
    <3>3. Serves(q) /\ Sells(r) => Op(q).bill # b
      BY <1>2, <2>1 DEF Stands, SaleIsOwn, RowIsLocked
    <3>4. Serves(q) /\ ~At(q, "key") /\ ~At(q, "bill") => Op(q).bill # b
      <4>1. CASE Sells(r)
        BY <3>3, <4>1
      <4>2. CASE ~Sells(r)
        BY <1>2, <1>10, <2>1, <4>2 DEF Stands, RowIsLocked, Serves, Sells, At
      <4>3. QED
        BY <4>1, <4>2
    <3>5. SaleIsOwn(q)'
      BY <1>1, <2>1, <2>2, <3>1, <3>2 DEF Stands, SaleIsOwn, Made, PaymentAllowed
    <3>6. NoOtherSells(q)'
      <4>1. SUFFICES ASSUME NEW p \in Requests, p # q, Sells(p)', Sells(q)' PROVE Op(p)'.bill # Op(q)'.bill
        BY DEF NoOtherSells
      <4>2. p # r
        BY <1>8, <4>1
      <4>3. reqs'[p] = reqs[p]
        BY <1>4, <4>2
      <4>4. QED
        BY <2>1, <2>2, <4>1, <4>3 DEF Stands, NoOtherSells, Sells, Busy, At, Op
    <3>7. RowIsLocked(q)'
      <4>1. Made(Op(q).bill) => Made(Op(q).bill)'
        <5>1. bills'[b].status # "NONE"
          BY <1>1, <1>2, WrittenIsMade
        <5>2. QED
          BY <1>1, <2>2, <3>1, <5>1 DEF Made
      <4>2. Op(q).kind = "settle" => <<"key", Op(q).key>> \in Locks
        BY <3>1, OpForms DEF Locks
      <4>3. QED
        BY <2>1, <2>2, <2>3, <3>1, <4>1, <4>2 DEF Stands, RowIsLocked
    <3>8. RowIsRead(q)'
      <4>1. SUFFICES ASSUME Serves(q), ~At(q, "key"), ~At(q, "bill"), ~At(q, "read") PROVE RowIsRead(q)'
        BY <2>2 DEF RowIsRead
      <4>2. bills'[Op(q).bill] = bills[Op(q).bill]
        BY <1>1, <3>1, <3>4, <4>1
      <4>3. ~KeyUsed(Op(q)) /\ ~KeyUsed(Op(q))'
        <5>1. CASE Op(q).kind = "settle"
          <6>1. Op(q).key \in Keys /\ <<"key", Op(q).key>> \in Locks /\ lock[<<"key", Op(q).key>>] = q
            BY <2>1, <3>1, <4>1, <5>1, OpForms DEF Stands, RowIsLocked, Locks
          <6>2. Op(r).kind = "settle" => lock[<<"key", Op(r).key>>] = r
            BY <1>2 DEF Stands, RowIsLocked, Serves, At
          <6>3. ~KeyUsed(Op(q))
            BY <2>1, <4>1 DEF Stands, RowIsRead
          <6>4. QED
            BY <1>6, <1>10, <2>2, <6>1, <6>2, <6>3 DEF KeyUsed
        <5>2. CASE Op(q).kind # "settle"
          BY <2>2, <5>2 DEF KeyUsed
        <5>3. QED
          BY <5>1, <5>2
      <4>4. QED
        BY <1>1, <2>1, <2>2, <4>1, <4>2, <4>3 DEF Stands, RowIsRead, Acceptable, PaymentAllowed
    <3>9. WalletCovers(q)'
      <4>1. SUFFICES ASSUME Pays(Op(q)), Op(q).wallet > 0, ~At(q, "key"), ~At(q, "bill"), ~At(q, "read"), ~At(q, "wallet")
                     PROVE  lock'[<<"wallet", Owner(q)>>] = q /\ wallets'[Owner(q)] >= Op(q).wallet
        BY <2>2 DEF WalletCovers
      <4>2. Owner(q) \in Customers /\ <<"wallet", Owner(q)>> \in Locks
        BY <2>1, <2>6, <4>1, RowIsBill DEF Locks
      <4>3. lock[<<"wallet", Owner(q)>>] = q /\ wallets[Owner(q)] >= Op(q).wallet
        BY <2>1, <2>6, <4>1 DEF Stands, WalletCovers
      <4>4. wallets'[Owner(q)] >= wallets[Owner(q)]
        BY <1>10, <4>2, <4>3, CommitWallets
      <4>5. wallets'[Owner(q)] \in Nat /\ wallets[Owner(q)] \in Nat /\ Op(q).wallet \in Nat
        BY <1>3, <3>1, <4>1, <4>2, OpForms DEF ReqInv, IInv, TypeOK, SaleBillAssumption
      <4>6. QED
        BY <2>3, <4>2, <4>3, <4>4, <4>5
    <3>10. CreditHolds(q)'
      <4>1. SUFFICES ASSUME Sells(q), At(q, "commit"), Written(q).status # "SETTLED"
                     PROVE  /\ lock'[<<"customer", Op(q).customer>>] = q
                            /\ \A p \in Requests : p # q => ~Inserted(p, Op(q).customer)'
                            /\ WithinCreditLimit([bills EXCEPT ![Op(q).bill] = Written(q)], Op(q).role, Op(q).customer)'
        BY <2>2 DEF CreditHolds
      <4>2. Op(q).customer \in Customers /\ <<"customer", Op(q).customer>> \in Locks
        BY <3>1, <4>1, OpForms DEF Sells, Locks
      <4>3. /\ lock[<<"customer", Op(q).customer>>] = q
            /\ \A p \in Requests : p # q => ~Inserted(p, Op(q).customer)
            /\ WithinCreditLimit([bills EXCEPT ![Op(q).bill] = Written(q)], Op(q).role, Op(q).customer)
        BY <2>1, <4>1 DEF Stands, CreditHolds
      <4>4. ASSUME NEW p \in Requests, p # q PROVE ~Inserted(p, Op(q).customer)'
        <5>1. CASE p = r
          BY <1>8, <5>1
        <5>2. CASE p # r
          <6>1. reqs'[p] = reqs[p]
            BY <1>4, <5>2
          <6>2. QED
            BY <2>2, <4>3, <4>4, <6>1 DEF Inserted, At
        <5>3. QED
          BY <5>1, <5>2
      <4> DEFINE bs == [bills EXCEPT ![Op(q).bill] = Written(q)]
                 bt == [bills' EXCEPT ![Op(q).bill] = Written(q)]
      <4>5. bs \in [Bills -> Bill \cup {NoBill}] /\ bt \in [Bills -> Bill \cup {NoBill}]
        <5>1. Written(q) \in Bill
          BY <4>1, WrittenIsMade
        <5>2. QED
          BY <1>3, <5>1 DEF ReqInv, IInv, TypeOK
      <4>6. ~(Sells(r) /\ Op(r).customer = Op(q).customer)
        BY <1>2, <1>10, <4>3 DEF Inserted, Sells, Busy, Op
      <4>7. DueOn(bills'[b], Op(q).customer) <= DueOn(bills[b], Op(q).customer)
        BY <1>1, <4>6
      <4>8. ASSUME NEW d \in Bills PROVE DueOn(bt[d], Op(q).customer) <= DueOn(bs[d], Op(q).customer)
        <5>1. DueOn(bs[d], Op(q).customer) \in Nat
          BY <4>5, DuesTyped
        <5>2. bills \in [Bills -> Bill \cup {NoBill}] /\ bills' \in [Bills -> Bill \cup {NoBill}]
          BY <1>3 DEF ReqInv, IInv, TypeOK
        <5>3. CASE d = Op(q).bill
          BY <3>1, <5>1, <5>2, <5>3
        <5>4. CASE d # Op(q).bill /\ d = b
          <6>1. bt[d] = bills'[b] /\ bs[d] = bills[b]
            BY <5>2, <5>4
          <6>2. QED
            BY <4>7, <6>1
        <5>5. CASE d # Op(q).bill /\ d # b
          <6>1. bt[d] = bs[d]
            BY <1>1, <5>2, <5>5
          <6>2. QED
            BY <5>1, <6>1
        <5>6. QED
          BY <5>3, <5>4, <5>5
      <4>9. WithinCreditLimit(bt, Op(q).role, Op(q).customer)
        <5> HIDE DEF bs, bt
        <5>1. WithinCreditLimit(bs, Op(q).role, Op(q).customer)
          BY <4>3 DEF bs
        <5>2. QED
          BY <4>2, <4>5, <4>8, <5>1, WithinStays
      <4>10. QED
        BY <2>2, <2>3, <4>2, <4>3, <4>4, <4>9 DEF WithinCreditLimit, Owed
    <3>11. QED
      BY <2>4, <3>5, <3>6, <3>7, <3>8, <3>9, <3>10 DEF Stands
  <2>7. QED
    BY <2>5, <2>6
<1>11. QED
  BY <1>3, <1>6, <1>7, <1>9, <1>10 DEF ReqInv

-----------------------------------------------------------------------------
\* Outside the transactions only wallets change, those nobody is writing.
LEMMA WalletStepKeeps ==
    ASSUME SaleBillAssumption, ReqInv, IInv', UNCHANGED <<bills, today, receipts, reqs, lock>>,
           \A c \in Customers : lock[<<"wallet", c>>] # Nobody => wallets'[c] = wallets[c]
    PROVE  ReqInv'
<1>1. ReqTyped' /\ KeysDiffer'
  BY DEF ReqInv, ReqTyped, KeysDiffer
<1>2. ASSUME NEW q \in Requests PROVE Stands(q)'
  <2>1. Stands(q)
    BY DEF ReqInv
  <2>2. /\ Op(q)' = Op(q) /\ Busy(q)' = Busy(q) /\ Sells(q)' = Sells(q) /\ Serves(q)' = Serves(q)
        /\ Owner(q)' = Owner(q) /\ Written(q)' = Written(q)
        /\ \A p, pc : At(p, pc)' = At(p, pc)
        /\ \A p, d : Inserted(p, d)' = Inserted(p, d)
    BY DEF Op, Busy, Sells, Serves, At, Owner, Written, Inserted
  <2>3. SaleIsOwn(q)' /\ RowIsLocked(q)' /\ HoldsForSale(q)'
    BY <2>1, <2>2 DEF Stands, SaleIsOwn, RowIsLocked, HoldsForSale, Made, PaymentAllowed
  <2>4. NoOtherSells(q)'
    BY <2>1 DEF Stands, NoOtherSells, Sells, Busy, At, Op
  <2>5. RowIsRead(q)'
    BY <2>1, <2>2 DEF Stands, RowIsRead, Acceptable, PaymentAllowed, KeyUsed
  <2>6. WalletCovers(q)'
    <3>1. SUFFICES ASSUME Busy(q), Pays(Op(q)), Op(q).wallet > 0, ~At(q, "key"), ~At(q, "bill"), ~At(q, "read"), ~At(q, "wallet")
                   PROVE  lock[<<"wallet", Owner(q)>>] = q /\ wallets'[Owner(q)] >= Op(q).wallet
      BY <2>2 DEF WalletCovers
    <3>2. Owner(q) \in Customers
      BY <2>1, <3>1, RowIsBill
    <3>3. lock[<<"wallet", Owner(q)>>] = q /\ wallets[Owner(q)] >= Op(q).wallet
      BY <2>1, <3>1 DEF Stands, WalletCovers
    <3>4. QED
      BY <3>2, <3>3, OpsAssumption
  <2>7. CreditHolds(q)'
    BY <2>1, <2>2 DEF Stands, CreditHolds, WithinCreditLimit, Owed
  <2>8. QED
    BY <2>3, <2>4, <2>5, <2>6, <2>7 DEF Stands
<1>3. QED
  BY <1>1, <1>2 DEF ReqInv

\* Every step keeps the invariant, and is a step of SaleBill or changes nothing of it.
LEMMA EveryReqStep ==
    SaleBillAssumption /\ ReqInv /\ [ReqNext]_allVars => ReqInv' /\ [Next]_vars
<1> SUFFICES ASSUME SaleBillAssumption, ReqInv, [ReqNext]_allVars PROVE ReqInv' /\ [Next]_vars
  OBVIOUS
<1>1. ASSUME NEW r \in Requests, NEW op \in Ops, Begin(r, op) PROVE ReqInv' /\ [Next]_vars
  BY <1>1, BeginKeeps DEF Begin, vars
<1>2. ASSUME NEW r \in Requests, Proceed(r) PROVE ReqInv' /\ [Next]_vars
  <2>1. CASE LockKey(r)
    BY <2>1, LockKeyKeeps DEF LockKey, vars
  <2>2. CASE LockBill(r)
    BY <2>2, LockBillKeeps DEF LockBill, vars
  <2>3. CASE ReadBill(r)
    BY <2>3, ReadBillKeeps DEF ReadBill, vars
  <2>4. CASE Refuse(r) \/ WalletShort(r)
    BY <2>4, RollBackKeeps DEF Refuse, WalletShort, RollBack, vars
  <2>5. CASE DebitWallet(r)
    BY <2>5, DebitWalletKeeps DEF DebitWallet, vars
  <2>6. CASE TakeReceiptNumber(r)
    BY <2>6, TakeReceiptNumberKeeps DEF TakeReceiptNumber, vars
  <2>7. CASE CreditWallet(r)
    BY <2>7, CreditWalletKeeps DEF CreditWallet, vars
  <2>8. CASE CheckCredit(r)
    BY <2>8, CheckCreditKeeps DEF CheckCredit, RollBack, vars
  <2>9. CASE Commit(r)
    BY <2>9, CommitKeeps, CommitIsAStep
  <2>10. QED
    BY <1>2, <2>1, <2>2, <2>3, <2>4, <2>5, <2>6, <2>7, <2>8, <2>9 DEF Proceed
<1>3. ASSUME NEW r \in Requests, Abort(r) \/ DeadlockVictim(r) PROVE ReqInv' /\ [Next]_vars
  BY <1>3, RollBackKeeps DEF Abort, DeadlockVictim, RollBack, vars
<1>4. ASSUME NEW c \in Customers, NEW amount \in 1..MaxTopup, TopupUnlocked(c, amount)
      PROVE  ReqInv' /\ [Next]_vars
  <2>1. Next
    BY <1>4 DEF TopupUnlocked, Next
  <2>2. IInv'
    BY <2>1, EveryStepKeeps DEF ReqInv
  <2>3. /\ UNCHANGED <<bills, today, receipts, reqs, lock>>
        /\ \A d \in Customers : lock[<<"wallet", d>>] # Nobody => wallets'[d] = wallets[d]
    BY <1>4 DEF TopupUnlocked, TopupWallet, ReqInv, IInv, TypeOK
  <2>4. QED
    BY <2>1, <2>2, <2>3, WalletStepKeeps
<1>5. ASSUME NEW c \in Customers, NEW change \in (-MaxAdjust)..MaxAdjust, AdjustUnlocked(c, change)
      PROVE  ReqInv' /\ [Next]_vars
  <2>1. Next
    BY <1>5 DEF AdjustUnlocked, Next
  <2>2. IInv'
    BY <2>1, EveryStepKeeps DEF ReqInv
  <2>3. /\ UNCHANGED <<bills, today, receipts, reqs, lock>>
        /\ \A d \in Customers : lock[<<"wallet", d>>] # Nobody => wallets'[d] = wallets[d]
    BY <1>5 DEF AdjustUnlocked, AdjustWallet, ReqInv, IInv, TypeOK
  <2>4. QED
    BY <2>1, <2>2, <2>3, WalletStepKeeps
<1>6. CASE UNCHANGED allVars
  <2>1. UNCHANGED <<vars, receipts, reqs, lock>>
    BY <1>6 DEF allVars
  <2>2. /\ bills' = bills /\ wallets' = wallets /\ drawer' = drawer /\ adjusted' = adjusted /\ today' = today
        /\ receipts' = receipts /\ reqs' = reqs /\ lock' = lock
    BY <2>1 DEF vars
  <2>3. IInv'
    BY <2>2 DEF ReqInv, IInv, TypeOK, Sound, Made
  <2>4. ReqInv'
    BY <2>2, <2>3, WalletStepKeeps
  <2>5. QED
    BY <2>1, <2>4
<1>7. QED
  BY <1>1, <1>2, <1>3, <1>4, <1>5, <1>6 DEF ReqNext

LEMMA ReqStarts == SaleBillAssumption /\ ReqInit => ReqInv /\ Init
<1> SUFFICES ASSUME SaleBillAssumption, ReqInit PROVE ReqInv /\ Init
  OBVIOUS
<1>1. Init /\ IInv
  BY Initially DEF ReqInit
<1>2. ReqTyped /\ KeysDiffer
  BY DEF ReqInit, ReqTyped, KeysDiffer
<1>3. ASSUME NEW q \in Requests PROVE Stands(q)
  <2>1. ~Busy(q) /\ HoldsForSale(q)
    BY OpsAssumption DEF ReqInit, Busy, At, Idle, HoldsForSale, Locks
  <2>2. QED
    BY <2>1 DEF Stands, SaleIsOwn, NoOtherSells, RowIsLocked, RowIsRead, WalletCovers, CreditHolds, Sells, Serves
<1>4. QED
  BY <1>1, <1>2, <1>3 DEF ReqInv

LEMMA ReqInvHolds == ReqSpec => []ReqInv
<1>1. ReqInit => ReqInv
  BY ReqStarts, SaleBillAssumption
<1>2. ReqInv /\ [ReqNext]_allVars => ReqInv'
  BY EveryReqStep, SaleBillAssumption
<1>3. QED
  BY <1>1, <1>2, PTL DEF ReqSpec

(***************************************************************************)
(* The transactions of settleSaleInTx, createReturn, cancelSale and a      *)
(* sale's insert implement SaleBill, whatever the requests and however     *)
(* they interleave, fail and are retried: the locks each takes are enough  *)
(* to make it atomic.                                                      *)
(***************************************************************************)
THEOREM AsIfAloneHolds == ReqSpec => AsIfAlone
<1>1. ReqInit => Init
  BY ReqStarts, SaleBillAssumption
<1>2. ReqInv /\ [ReqNext]_allVars => [Next]_vars
  BY EveryReqStep, SaleBillAssumption
<1>3. QED
  BY <1>1, <1>2, ReqInvHolds, PTL DEF ReqSpec, AsIfAlone, Spec

(***************************************************************************)
(* settleSaleInTx: a settlement key pays at most once, by any number of    *)
(* requests that carry it, at the same time or one after the other.        *)
(***************************************************************************)
THEOREM KeyPaysOnceHolds == ReqSpec => []KeyPaysOnce
<1>1. ReqInv => KeyPaysOnce
  <2> SUFFICES ASSUME ReqInv PROVE KeyPaysOnce
    OBVIOUS
  <2>1. TypeOK /\ lock \in [Locks -> Requests \cup {Nobody}] /\ KeysDiffer
    BY DEF ReqInv, IInv, ReqTyped
  <2>2. \A n \in 1..Len(receipts) : receipts[n] \in [bill : Bills, key : Keys \cup {NoKey}, money : Nat, wallet : Nat]
    <3>1. receipts \in Seq(Receipt)
      BY DEF ReqInv, ReqTyped
    <3>2. \A n \in 1..Len(receipts) : receipts[n] \in Receipt
      BY <3>1
    <3>3. QED
      BY <3>2 DEF Receipt
  <2>3. \A r \in Requests :
          reqs[r] = Idle \/ reqs[r] \in [pc : Steps, op : Ops, row : Bill \cup {NoBill}, worth : Nat]
    BY DEF ReqInv, ReqTyped, Request
  <2>4. QED
    BY <2>1, <2>2, <2>3 DEF KeyPaysOnce, ReqTypeOK, KeysDiffer
<1>2. QED
  BY <1>1, ReqInvHolds, PTL

(***************************************************************************)
(* What holds of bills one operation at a time holds of the transactions:  *)
(* here, that a bill's money agrees with its status, under any             *)
(* interleaving.                                                           *)
(***************************************************************************)
THEOREM TransactionsKeepMoney == ReqSpec => [](MoneyAgrees /\ OverLimitOnlyByAdmin /\ MoneyAccountedFor)
BY AsIfAloneHolds, MoneyAgreesHolds, OverLimitOnlyByAdminHolds, MoneyAccountedForHolds, PTL DEF AsIfAlone
==============================================================================
