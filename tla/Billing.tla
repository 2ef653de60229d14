------------------------------- MODULE Billing -------------------------------
(***************************************************************************)
(* The subscription of one business on managed hosting, served by several  *)
(* API processes: its trial, the plans it pays for, the gateway's events   *)
(* (repeated, in any order), our invoices and the reminders to its owners. *)
(* A day is the unit of time; what a day of a plan is worth follows the    *)
(* plan's monthly price.                                                   *)
(***************************************************************************)
EXTENDS Integers, FiniteSets, Sequences, SequencesExt

CONSTANTS
    Plans, TrialPlan,
    Price,      \* of a day of each plan
    PeriodDays, \* days a month and a year buy
    TrialDays, GraceDays, SoonDays,
    Checkouts,  \* payments that may be started
    Offer,      \* the plan and period each is for
    Processes,  \* API processes
    MaxDay,     \* bound: the last day
    MaxEvents   \* bound: events the gateway has

\* One plan is the dearest; a payment buys more days than an ending is announced ahead.
ASSUME BillingAssumption ==
    /\ TrialPlan \in Plans /\ Price \in [Plans -> Nat \ {0}]
    /\ \E p \in Plans : \A q \in Plans : Price[q] <= Price[p]
    /\ TrialDays \in Nat /\ GraceDays \in Nat /\ SoonDays \in Nat
    /\ \A period \in DOMAIN PeriodDays : PeriodDays[period] \in Nat /\ PeriodDays[period] > SoonDays
    /\ Offer \in [Checkouts -> [plan : Plans, period : DOMAIN PeriodDays]]

VARIABLES
    day,
    business,   \* plan, trialEnds, paidUntil (0: never paid), notice
    checkouts,  \* BillingCheckout rows
    events,     \* what happened at the gateway: one per attempt that ended
    recorded,   \* BillingEvent rows
    invoices,   \* BillingInvoice rows by number
    sequence,   \* BillingInvoiceSequence
    sweeps,     \* each process's round of reminders: what it read, what it will send
    sent,       \* reminders sent
    bought, used, changes, overtaken, again \* history: see the properties

billingVars == <<day, business, checkouts, events, recorded, invoices, sequence, sweeps, sent,
                 bought, used, changes, overtaken, again>>
payments == <<business, checkouts, events, recorded, invoices, sequence, bought, changes>>
reminding == <<sweeps, sent, overtaken, again>>

Larger(a, b) == IF a > b THEN a ELSE b
NoNotice == <<"none", 0>>
Resting == [at |-> "idle"]
EventsOf(c) == {e \in events : e.checkout = c}

BillingInit ==
    /\ day = 0
    /\ business = [plan |-> TrialPlan, trialEnds |-> TrialDays, paidUntil |-> 0, notice |-> NoNotice]
    /\ checkouts = [c \in Checkouts |-> "none"]
    /\ events = {} /\ recorded = {}
    /\ invoices = <<>> /\ sequence = 0
    /\ sweeps = [p \in Processes |-> Resting] /\ sent = {}
    /\ bought = 0 /\ used = 0 /\ changes = 0 /\ overtaken = FALSE /\ again = FALSE

-----------------------------------------------------------------------------
(* Time.                                                                   *)

PeriodEnds(b) == Larger(b.trialEnds, b.paidUntil)
StateAt(b) ==
    IF day < PeriodEnds(b) THEN IF day < b.paidUntil THEN "active" ELSE "trial"
    ELSE IF day < PeriodEnds(b) + GraceDays THEN "past_due" ELSE "read_only"

BillingDay ==
    /\ day < MaxDay
    /\ day' = day + 1
    /\ used' = used + IF day >= business.trialEnds /\ day < business.paidUntil THEN Price[business.plan] ELSE 0
    /\ UNCHANGED <<payments, reminding>>

-----------------------------------------------------------------------------
(* Paying.                                                                 *)

\* An admin starts a payment; the row gets the gateway's reference and address, or fails.
Checkout(c) ==
    /\ checkouts[c] = "none"
    /\ \E status \in {"PENDING", "FAILED"} : checkouts' = [checkouts EXCEPT ![c] = status]
    /\ UNCHANGED <<day, business, events, recorded, invoices, sequence, reminding, bought, used, changes>>

\* At the gateway the payer, sent there while the payment is waiting, pays ("paid"), or
\* fails or pays another amount ("unpaid"); the gateway may tell of one attempt twice.
Attempt(c, kind) ==
    /\ checkouts[c] # "none" /\ Cardinality(events) < MaxEvents
    /\ checkouts[c] = "PENDING" \/ EventsOf(c) # {}
    /\ events' = events \cup {[checkout |-> c, id |-> Cardinality(EventsOf(c)) + 1, kind |-> kind]}
    /\ UNCHANGED <<day, business, checkouts, recorded, invoices, sequence, reminding, bought, used, changes>>

\* Math.round
Rounded(a, b) == (2 * a + b) \div (2 * b)

\* Mutant of Carried: time left on the old plan is kept as it is.
CarriedAsTime(b, plan, base) == Larger(0, b.paidUntil - base)

Carried(b, plan, base) == Rounded(Larger(0, b.paidUntil - base) * Price[b.plan], Price[plan])

PaidFrom(b, plan) ==
    LET base == Larger(day, b.trialEnds)
    IN  IF plan = b.plan THEN Larger(base, b.paidUntil) ELSE base + Carried(b, plan, base)

\* Mutant of StillWaiting: whatever became of the payment meanwhile.
AnyCheckout(c) == checkouts[c] # "none"

StillWaiting(c) == checkouts[c] = "PENDING"

Counts(e) ==
    LET c == Offer[e.checkout] IN
    /\ business' = [business EXCEPT !.plan = c.plan, !.notice = NoNotice,
                                    !.paidUntil = PaidFrom(business, c.plan) + PeriodDays[c.period]]
    /\ checkouts' = [checkouts EXCEPT ![e.checkout] = "PAID"]
    /\ sequence' = sequence + 1
    /\ invoices' = Append(invoices, e.checkout)
    /\ bought' = bought + PeriodDays[c.period] * Price[c.plan]
    /\ changes' = changes + IF c.plan = business.plan THEN 0 ELSE 1

Closes(e) ==
    /\ checkouts' = [checkouts EXCEPT ![e.checkout] = "FAILED"]
    /\ UNCHANGED <<business, sequence, invoices, bought, changes>>

\* A webhook: the event is recorded once, and settles a payment still waiting.  The answer
\* may not reach the gateway, which then sends it again.
ApplyEvent(e) ==
    /\ recorded' = recorded \cup {<<e.checkout, e.id>>}
    /\ IF <<e.checkout, e.id>> \in recorded \/ ~StillWaiting(e.checkout)
       THEN UNCHANGED <<business, checkouts, sequence, invoices, bought, changes>>
       ELSE IF e.kind = "paid" THEN Counts(e) ELSE Closes(e)
    /\ UNCHANGED <<day, events, reminding, used>>

-----------------------------------------------------------------------------
(* Reminders, once an hour in every process.                               *)

Reminder(b) ==
    CASE StateAt(b) \in {"trial", "active"} /\ PeriodEnds(b) - day <= SoonDays -> <<"ending", PeriodEnds(b)>>
      [] StateAt(b) = "past_due" -> <<"grace", PeriodEnds(b)>>
      [] StateAt(b) = "read_only" -> <<"read-only", PeriodEnds(b)>>
      [] OTHER -> NoNotice

Look(p) ==
    /\ sweeps[p] = Resting
    /\ Reminder(business) \notin {NoNotice, business.notice}
    /\ sweeps' = [sweeps EXCEPT ![p] = [at |-> "due", notice |-> business.notice, key |-> Reminder(business),
                                         paid |-> Len(invoices)]]
    /\ UNCHANGED <<day, payments, sent, used, overtaken, again>>

\* Mutant of ReminderDue: the row is updated whatever it says by now.
ReminderDueAlways(p) == sweeps[p].at = "due"

ReminderDue(p) == sweeps[p].at = "due" /\ business.notice = sweeps[p].notice

ClaimReminder(p) ==
    /\ ReminderDue(p)
    /\ business' = [business EXCEPT !.notice = sweeps[p].key]
    /\ sweeps' = [sweeps EXCEPT ![p] = [at |-> "claimed", key |-> sweeps[p].key]]
    /\ overtaken' = (overtaken \/ sweeps[p].paid # Len(invoices))
    /\ UNCHANGED <<day, checkouts, events, recorded, invoices, sequence, sent, bought, used, changes, again>>

Send(p) ==
    /\ sweeps[p].at = "claimed"
    /\ sent' = sent \cup {sweeps[p].key}
    /\ again' = (again \/ sweeps[p].key \in sent)
    /\ sweeps' = [sweeps EXCEPT ![p] = Resting]
    /\ UNCHANGED <<day, payments, used, overtaken>>

\* Claimed by another process, or this one stops: what it claimed is never sent.
GiveUp(p) ==
    /\ sweeps[p] # Resting
    /\ sweeps' = [sweeps EXCEPT ![p] = Resting]
    /\ UNCHANGED <<day, payments, sent, used, overtaken, again>>

-----------------------------------------------------------------------------
BillingNext ==
    \/ BillingDay
    \/ \E c \in Checkouts : Checkout(c)
    \/ \E c \in Checkouts, kind \in {"paid", "unpaid"} : Attempt(c, kind)
    \/ \E p \in Processes : Look(p) \/ ClaimReminder(p) \/ Send(p) \/ GiveUp(p)
    \/ \E e \in events : ApplyEvent(e)

BillingSpec == BillingInit /\ [][BillingNext]_billingVars

-----------------------------------------------------------------------------
\* What was paid for is worth what the business has used and has left, whatever plans it
\* changed between: a change of plans rounds the time left by half a day at most.
PaidTimeKept ==
    LET left == Larger(0, business.paidUntil - Larger(day, business.trialEnds)) * Price[business.plan]
        off == bought - used - left
        dearest == CHOOSE x \in {Price[p] : p \in Plans} : \A p \in Plans : Price[p] <= x
    IN  2 * Larger(off, -off) <= changes * dearest

\* Every payment the gateway has an answer for counted, once, on an invoice of its own with the
\* next number, and for the time it paid for; unless it was for another amount, or an earlier
\* attempt had failed and closed it.
PaymentsCount ==
    /\ PaidTimeKept
    /\ sequence = Len(invoices) /\ IsInjective(invoices)
    /\ ToSet(invoices) = {c \in Checkouts : checkouts[c] = "PAID"}
    /\ \A c \in ToSet(invoices) : \E e \in EventsOf(c) : e.kind = "paid"
    /\ \A e \in events : <<e.checkout, e.id>> \in recorded /\ e.kind = "paid" /\ checkouts[e.checkout] # "PAID" =>
          \E f \in EventsOf(e.checkout) : f.kind # "paid"

\* Owners get each reminder once, however many processes send them; except when a payment
\* overtook one about to be claimed, which then goes out too.
RemindedOnce == again => overtaken
=============================================================================
