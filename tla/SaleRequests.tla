----------------------------- MODULE SaleRequests -----------------------------
(***************************************************************************)
(* The transactions behind SaleBill's operations, with several requests of *)
(* the API under way at once: the locks each takes and in which order, the *)
(* read of the bill, the checks, and the writes that appear together when  *)
(* the transaction commits (PostgreSQL, READ COMMITTED: a statement sees   *)
(* what was committed before it).  A transaction may be refused by a       *)
(* check, time out, lose its connection or be a deadlock's victim; then    *)
(* none of it happened, and the till may send the same request again.      *)
(*                                                                         *)
(* Locks: the advisory lock of a settlement key; a bill's row; a wallet's  *)
(* row (taken by updating it); the Branch row (taken by numbering a        *)
(* receipt); a customer's row, shared by the sales inserted for them (the  *)
(* foreign key's FOR KEY SHARE) and taken alone to check the credit limit. *)
(* All are held to the end.                                                *)
(***************************************************************************)
EXTENDS SaleBill, Sequences

CONSTANTS
    Ops,          \* the requests the tills may send
    Requests,     \* requests that can be under way at once
    Keys,         \* settlement keys (the tills' idempotency keys)
    NoKey,        \* a receipt of a checkout, which has no settlement key
    Nobody        \* holder of a free lock

\* SaleBill's variables are the committed rows.
VARIABLES
    receipts,   \* Receipt rows of the branch in number order
    reqs,       \* each request: where it is, and what its transaction holds
    lock        \* who holds each lock

allVars == <<vars, receipts, reqs, lock>>

Amounts == 0..MaxPay
RequestForms ==
    [kind : {"sale"}, bill : Bills, customer : Customers, role : Roles, goods : Baskets \ {NoGoods},
     total : 1..MaxGrand, money : Amounts, wallet : Amounts, key : {NoKey}]
    \cup [kind : {"settle"}, bill : Bills, money : Amounts, wallet : Amounts, key : Keys]
    \cup [kind : {"return"}, bill : Bills, role : Roles, goods : Baskets, mode : {"CASH", "WALLET"}]
    \cup [kind : {"cancel"}, bill : Bills]

ASSUME OpsAssumption ==
    /\ Ops \subseteq RequestForms
    /\ NoKey \notin Keys /\ Nobody \notin Requests

Locks ==
    ({"key"} \X Keys) \cup ({"bill"} \X Bills) \cup ({"branch"} \X {"main"})
        \cup ({"wallet", "customer"} \X Customers)

\* `row`: the bill as the transaction read it, or inserted it; `worth`: what
\* the return it is making is worth.
Idle == [pc |-> "idle"]
Steps == {"key", "bill", "read", "wallet", "branch", "change", "customer", "commit"}

ReqTypeOK ==
    /\ TypeOK
    /\ \A n \in 1..Len(receipts) :
          receipts[n] \in [bill : Bills, key : Keys \cup {NoKey}, money : Nat, wallet : Nat]
    /\ \A r \in Requests :
          reqs[r] = Idle \/ reqs[r] \in [pc : Steps, op : Ops, row : Bill \cup {NoBill}, worth : Nat]
    /\ lock \in [Locks -> Requests \cup {Nobody}]

ReqInit ==
    /\ Init
    /\ receipts = <<>>
    /\ reqs = [r \in Requests |-> Idle]
    /\ lock = [l \in Locks |-> Nobody]

-----------------------------------------------------------------------------
At(r, pc) == reqs[r].pc = pc
Pays(op) == op.kind \in {"sale", "settle"}
Amount(op) == op.money + op.wallet
Owner(r) == reqs[r].row.customer

Free(r, l) == lock[l] \in {Nobody, r}
Take(r, l) == Free(r, l) /\ lock' = [lock EXCEPT ![l] = r]
Released(r) == [l \in Locks |-> IF lock[l] = r THEN Nobody ELSE lock[l]]
GoTo(r, pc) == reqs' = [reqs EXCEPT ![r].pc = pc]

\* The transaction ends with nothing of it done.
RollBack(r) ==
    /\ reqs' = [reqs EXCEPT ![r] = Idle]
    /\ lock' = Released(r)
    /\ UNCHANGED <<vars, receipts>>

\* Has q's transaction inserted a bill of c?  Its foreign key then holds c's row.
Inserted(q, c) == ~At(q, "idle") /\ reqs[q].op.kind = "sale" /\ reqs[q].op.customer = c

\* What comes after reading (or inserting) the bill, and after its receipt's
\* number: the debit of the wallet comes before it, change into it after.
AfterRead(op) ==
    IF Pays(op) /\ op.wallet > 0 THEN "wallet"
    ELSE IF Pays(op) /\ Amount(op) > 0 THEN "branch"
    ELSE IF op.kind = "sale" THEN "customer"
    ELSE "commit"

\* The bill this transaction writes.
Written(r) ==
    LET op == reqs[r].op
        row == reqs[r].row
    IN  CASE Pays(op) /\ Amount(op) > 0 -> Paid(row, Amount(op))
          [] op.kind = "sale" /\ Amount(op) = 0 -> row
          [] op.kind = "return" -> Returned(row, op.goods, reqs[r].worth)
          [] op.kind = "cancel" -> Cancelled(row)

AfterBranch(r) ==
    LET op == reqs[r].op IN
    IF Excess(reqs[r].row, Amount(op)) > 0 THEN "change"
    ELSE IF op.kind = "sale" /\ Written(r).status # "SETTLED" THEN "customer"
    ELSE "commit"

\* A request arrives.  A sale inserts a bill nobody else sees until it
\* commits (ids are fresh); the others first take their locks.
Begin(r, op) ==
    /\ At(r, "idle")
    /\ op.kind # "sale" => Made(op.bill)
    /\ IF op.kind = "sale"
       THEN LET new == Drafted(op.customer, op.role, today, op.goods, op.total) IN
            /\ ~Made(op.bill)
            /\ Free(r, <<"customer", op.customer>>)
            /\ \A q \in Requests : ~At(q, "idle") => reqs[q].op.bill # op.bill
            /\ op.customer \notin WalkIns \/ Amount(op) = op.total
            /\ Amount(op) > 0 => PaymentAllowed(new, op.money, op.wallet, op.wallet)
            /\ reqs' = [reqs EXCEPT ![r] = [pc |-> AfterRead(op), op |-> op, row |-> new, worth |-> 0]]
       ELSE reqs' = [reqs EXCEPT ![r] = [pc |-> IF op.kind = "settle" THEN "key" ELSE "bill",
                                         op |-> op, row |-> NoBill, worth |-> 0]]
    /\ UNCHANGED <<vars, receipts, lock>>

LockKey(r) ==
    /\ At(r, "key")
    /\ Take(r, <<"key", reqs[r].op.key>>)
    /\ GoTo(r, "bill")
    /\ UNCHANGED <<vars, receipts>>

\* Mutant of LockBill: a plain SELECT.
ReadWithoutLock(r) ==
    /\ At(r, "bill")
    /\ GoTo(r, "read")
    /\ UNCHANGED <<vars, receipts, lock>>

\* SELECT id FROM "SaleInvoice" WHERE id = ... FOR UPDATE
LockBill(r) ==
    /\ At(r, "bill")
    /\ Take(r, <<"bill", reqs[r].op.bill>>)
    /\ GoTo(r, "read")
    /\ UNCHANGED <<vars, receipts>>

\* Mutant of KeyUsed: only this bill's receipts are looked up.
KeyUsedOnBill(op) ==
    /\ op.kind = "settle"
    /\ \E n \in 1..Len(receipts) : receipts[n].key = op.key /\ receipts[n].bill = op.bill

\* Does this key's receipt exist already?  Then the request is a replay (or a
\* key used twice): it is answered with no payment.
KeyUsed(op) ==
    op.kind = "settle" /\ \E n \in 1..Len(receipts) : receipts[n].key = op.key

Acceptable(op, row) ==
    CASE op.kind = "settle" -> PaymentAllowed(row, op.money, op.wallet, op.wallet)
      [] op.kind = "return" -> /\ Returnable(row, op.goods)
                               /\ op.role = "ADMIN" \/ today - row.madeOn <= WindowDays
      [] op.kind = "cancel" -> Cancellable(row, today)

RefundTo(op, row, worth) ==
    IF op.kind = "return" /\ op.mode = "WALLET" THEN RefundAmount(row, worth) ELSE 0

\* The bill is read (under the lock) and the request checked against it.
ReadBill(r) ==
    LET op == reqs[r].op
        row == bills[op.bill]
    IN
    /\ At(r, "read")
    /\ ~KeyUsed(op) /\ Acceptable(op, row)
    /\ \E worth \in (IF op.kind = "return" THEN Worths(row, op.goods) ELSE {0}) :
          /\ op.kind = "return" => RefundAllowed(row, worth)
          /\ RefundTo(op, row, worth) > 0 => row.customer \notin WalkIns /\ ~Offline
          /\ reqs' = [reqs EXCEPT ![r].row = row, ![r].worth = worth,
                        ![r].pc = IF RefundTo(op, row, worth) > 0 THEN "change" ELSE AfterRead(op)]
    /\ UNCHANGED <<vars, receipts, lock>>

\* Mutant of Refuse: nothing answers a replay.
RefuseUnacceptable(r) ==
    /\ At(r, "read")
    /\ ~Acceptable(reqs[r].op, bills[reqs[r].op.bill])
    /\ RollBack(r)

Refuse(r) ==
    LET op == reqs[r].op IN
    /\ At(r, "read")
    /\ KeyUsed(op) \/ ~Acceptable(op, bills[op.bill])
    /\ RollBack(r)

\* Mutant of DebitWallet: the balance is not looked at again.
DebitUnchecked(r) ==
    /\ At(r, "wallet")
    /\ Take(r, <<"wallet", Owner(r)>>)
    /\ GoTo(r, "branch")
    /\ UNCHANGED <<vars, receipts>>

\* Debits the wallet if its balance still covers it, once no other
\* transaction is writing that row.
DebitWallet(r) ==
    /\ At(r, "wallet")
    /\ wallets[Owner(r)] >= reqs[r].op.wallet
    /\ Take(r, <<"wallet", Owner(r)>>)
    /\ GoTo(r, "branch")
    /\ UNCHANGED <<vars, receipts>>

WalletShort(r) ==
    /\ At(r, "wallet")
    /\ Free(r, <<"wallet", Owner(r)>>)
    /\ wallets[Owner(r)] < reqs[r].op.wallet
    /\ RollBack(r)

\* Numbers the receipt.
TakeReceiptNumber(r) ==
    /\ At(r, "branch")
    /\ Take(r, <<"branch", "main">>)
    /\ GoTo(r, AfterBranch(r))
    /\ UNCHANGED <<vars, receipts>>

\* Credits the wallet: change of a payment, or a refund.
CreditWallet(r) ==
    /\ At(r, "change")
    /\ Take(r, <<"wallet", Owner(r)>>)
    /\ GoTo(r, "commit")
    /\ UNCHANGED <<vars, receipts>>

\* A credit sale locks the customer (FOR UPDATE: once nobody else's bill for
\* them is being inserted; two such sales wait for each other) and adds up what they owe with it.
CheckCredit(r) ==
    LET op == reqs[r].op
        owing == [bills EXCEPT ![op.bill] = Written(r)]
    IN
    /\ At(r, "customer")
    /\ \A q \in Requests \ {r} : ~Inserted(q, Owner(r))
    /\ IF WithinCreditLimit(owing, op.role, Owner(r))
       THEN /\ lock' = [lock EXCEPT ![<<"customer", Owner(r)>>] = r]
            /\ GoTo(r, "commit")
            /\ UNCHANGED <<vars, receipts>>
       ELSE RollBack(r)

Commit(r) ==
    LET op == reqs[r].op
        row == reqs[r].row
        refund == IF op.kind = "return" THEN RefundAmount(row, reqs[r].worth) ELSE 0
    IN
    /\ At(r, "commit")
    /\ bills' = [bills EXCEPT ![op.bill] = Written(r)]
    /\ IF Pays(op)
       THEN /\ wallets' = [wallets EXCEPT ![Owner(r)] =
                             IF Amount(op) = 0 THEN @ ELSE WalletAfter(row, op.money, op.wallet, @)]
            /\ drawer' = drawer + op.money
            /\ receipts' = IF Amount(op) = 0 THEN receipts
                           ELSE Append(receipts, [bill |-> op.bill, key |-> op.key,
                                                  money |-> op.money, wallet |-> op.wallet])
       ELSE /\ wallets' = [wallets EXCEPT ![Owner(r)] = @ + RefundTo(op, row, reqs[r].worth)]
            /\ drawer' = drawer - (refund - RefundTo(op, row, reqs[r].worth))
            /\ receipts' = receipts
    /\ reqs' = [reqs EXCEPT ![r] = Idle]
    /\ lock' = Released(r)
    /\ UNCHANGED <<adjusted, today>>

\* The transaction times out, or its connection or the API goes down.
Abort(r) == ~At(r, "idle") /\ RollBack(r)

\* The lock a request waits for, if any.
Wants(r) ==
    CASE At(r, "key") -> {<<"key", reqs[r].op.key>>}
      [] At(r, "bill") -> {<<"bill", reqs[r].op.bill>>}
      [] At(r, "branch") -> {<<"branch", "main">>}
      [] reqs[r].pc \in {"wallet", "change"} -> {<<"wallet", Owner(r)>>}
      [] OTHER -> {}

WaitsFor(r, q) ==
    /\ q # r
    /\ \/ \E l \in Wants(r) : lock[l] = q
       \/ At(r, "customer") /\ Inserted(q, Owner(r))

\* PostgreSQL ends one of two transactions that wait for each other.
DeadlockVictim(r) ==
    /\ \E q \in Requests : WaitsFor(r, q) /\ WaitsFor(q, r)
    /\ RollBack(r)

TopupUnlocked(c, amount) ==
    /\ lock[<<"wallet", c>>] = Nobody
    /\ TopupWallet(c, amount)
    /\ UNCHANGED <<receipts, reqs, lock>>

AdjustUnlocked(c, change) ==
    /\ lock[<<"wallet", c>>] = Nobody
    /\ AdjustWallet(c, change)
    /\ UNCHANGED <<receipts, reqs, lock>>

Proceed(r) ==
    \/ LockKey(r) \/ LockBill(r) \/ ReadBill(r) \/ Refuse(r)
    \/ DebitWallet(r) \/ WalletShort(r) \/ TakeReceiptNumber(r) \/ CreditWallet(r)
    \/ CheckCredit(r) \/ Commit(r)

ReqNext ==
    \/ \E r \in Requests :
        \/ \E op \in Ops : Begin(r, op)
        \/ Proceed(r)
        \/ Abort(r)
        \/ DeadlockVictim(r)
    \/ \E c \in Customers, amount \in 1..MaxTopup : TopupUnlocked(c, amount)
    \/ \E c \in Customers, change \in (-MaxAdjust)..MaxAdjust : AdjustUnlocked(c, change)

(***************************************************************************)
(* A transaction under way goes on, PostgreSQL grants a lock that keeps    *)
(* coming free to everyone waiting for it (its lock queues are in order),  *)
(* and it ends deadlocks.  Nothing makes a request arrive.                 *)
(***************************************************************************)
Fairness == \A r \in Requests : SF_allVars(Proceed(r)) /\ WF_allVars(DeadlockVictim(r))

ReqSpec == ReqInit /\ [][ReqNext]_allVars
FairSpec == ReqSpec /\ Fairness

-----------------------------------------------------------------------------
(***************************************************************************)
(* However requests interleave, time out and are retried, the committed    *)
(* bills and wallets move as if each request ran alone: the locks make     *)
(* settleSaleInTx, createReturn, cancelSale and the credit check atomic.   *)
(***************************************************************************)
AsIfAlone == Spec

(***************************************************************************)
(* A settlement key pays at most once, however often and on whichever bill *)
(* it is sent again, also by requests under way at the same time.          *)
(***************************************************************************)
KeyPaysOnce ==
    /\ ReqTypeOK
    /\ \A m, n \in 1..Len(receipts) :
          receipts[m].key = receipts[n].key /\ m # n => receipts[m].key = NoKey

(***************************************************************************)
(* Every request that arrives is answered: paid, done, refused or aborted. *)
(* No wait for a lock lasts forever.                                       *)
(***************************************************************************)
EveryRequestAnswered == \A r \in Requests : ~At(r, "idle") ~> At(r, "idle")
==============================================================================
