----------------------------- MODULE Settling -----------------------------
(***************************************************************************)
(* Paying a saved bill from the invoices screen (web/screens/sales,        *)
(* lib/pendingSettlement.ts): the payment's ID is put in localStorage      *)
(* before the request goes, so that a lost answer, a reload or another tab *)
(* retries the same payment. The shop's till may by then be talking to its *)
(* fallback counter, whose refusals say nothing of the online server.      *)
(***************************************************************************)
EXTENDS Integers, FiniteSets

CONSTANTS
    Windows,       \* the cashier's tabs, one localStorage between them
    Details,       \* amounts and methods a payment may be typed as
    MaxPayments,   \* bound: payments the customer means to make
    MaxIds,        \* bound: payment IDs made
    MaxSent        \* bound: requests sent

ASSUME SettlingAssumption == MaxPayments \in Nat /\ MaxIds \in Nat /\ MaxSent \in Nat

VARIABLES
    online,      \* the till's requests go to the online server, not to the fallback counter's
    saved,       \* localStorage: the ID and details of the payment not known to be over
    sending,     \* per tab: the request it waits for
    onWire,      \* requests sent and not arrived
    receipts,    \* the online server's, and those of the fallback counter still to be sent up
    intent,      \* how many payments the customer has meant to make, the last one perhaps not over
    sent,        \* requests sent so far
    ids,         \* IDs made so far
    lateOne      \* intents whose ID was given up with a request under it late, or another tab's recorded,
                 \* and those that began with an earlier one's ID

settlingVars == <<online, saved, sending, onWire, receipts, intent, sent, ids, lateOne>>

NoPayment == [id |-> 0, print |-> "none"]
Idle == [id |-> 0, retrying |-> FALSE, n |-> 0]

SettlingInit ==
    /\ online = TRUE /\ saved = NoPayment /\ sending = [w \in Windows |-> Idle]
    /\ onWire = {} /\ receipts = {} /\ intent = 1 /\ sent = 0 /\ ids = 0 /\ lateOne = {}

-----------------------------------------------------------------------------
\* Mutant of PaymentId: other details get an ID of their own.
PaymentIdAnew(print) ==
    IF saved.id # 0 /\ saved.print = print THEN [id |-> saved.id, retrying |-> TRUE]
    ELSE [id |-> ids + 1, retrying |-> FALSE]

\* The ID saved for these details, a new one when none is saved; none at all (0) for other
\* details than the unconfirmed payment's.
PaymentId(print) ==
    IF saved.id = 0 THEN [id |-> ids + 1, retrying |-> FALSE]
    ELSE [id |-> (IF saved.print = print THEN saved.id ELSE 0), retrying |-> TRUE]

\* The ID is saved before the request goes.
SendSettlement(w) ==
    \E print \in Details : \E payment \in {PaymentId(print)} :
        /\ sending[w] = Idle /\ sent < MaxSent /\ intent <= MaxPayments
        /\ payment.id \in 1 .. MaxIds
        /\ saved' = [id |-> payment.id, print |-> print]
        /\ ids' = (IF payment.id > ids THEN payment.id ELSE ids)
        /\ sent' = sent + 1
        /\ sending' = [sending EXCEPT ![w] = [id |-> payment.id, retrying |-> payment.retrying, n |-> sent + 1]]
        /\ onWire' = onWire \cup {[id |-> payment.id, n |-> sent + 1, intent |-> intent, online |-> online, by |-> w]}
        /\ UNCHANGED <<online, receipts, intent, lateOne>>

\* Mutant of Forgets: a refused retry forgets the ID like a refused first attempt.
ForgetsRefused(answer, retrying) == answer \in {"ok", "notRecorded", "refused"}

\* Recorded, certainly not recorded, or a first attempt refused outright.
Forgets(answer, retrying) == answer \in {"ok", "notRecorded"} \/ (answer = "refused" /\ ~retrying)

\* The tab's own ID is cleared, not a newer one.
Answered(w, answer, request) ==
    LET forget == Forgets(answer, sending[w].retrying) /\ saved.id = request.id
    IN  /\ saved' = (IF forget THEN NoPayment ELSE saved)
        /\ sending' = [sending EXCEPT ![w] = Idle]
        /\ intent' = (IF answer = "ok" /\ request.intent = intent THEN intent + 1 ELSE intent)
        /\ lateOne' = lateOne \cup {i \in {request.intent} :
                forget /\ answer # "ok"
                \* A request given up or another tab's may still arrive, or another tab's was recorded.
                /\ \/ \E other \in onWire \ {request} : other.id = request.id
                   \/ \E r \in receipts : r.id = request.id /\ r.by # w}
            \* The next payment finds the ID of another attempt at this one still saved, and takes it.
            \cup {i \in {intent + 1} : answer = "ok" /\ request.intent = intent /\ saved.id \notin {0, request.id}}

\* Online a known ID is answered with its receipt; a new one is recorded, or refused: as
\* surely not recorded (the bill or the amount will not do), or before the ID was looked up
\* (no register open, the app locked). The fallback counter knows its own receipts only, and its
\* refusals are never sure.
Reach ==
    \E request \in onWire, answer \in {"ok", "notRecorded", "refused"}, delivered \in BOOLEAN :
        LET known == \E r \in receipts : r.id = request.id /\ r.online = request.online
            waiting == {w \in Windows : sending[w].n = request.n}
        IN  /\ known => answer \in {"ok", "refused"}
            /\ ~request.online => answer # "notRecorded"
            /\ delivered => waiting # {}
            /\ receipts' = (IF answer = "ok" /\ ~known
                            THEN receipts \cup {[id |-> request.id, intent |-> request.intent, online |-> request.online,
                                              by |-> request.by]}
                            ELSE receipts)
            /\ onWire' = onWire \ {request}
            /\ IF delivered THEN \E w \in waiting : Answered(w, answer, request)
                            ELSE UNCHANGED <<saved, sending, intent, lateOne>>
            /\ UNCHANGED <<online, sent, ids>>

\* No answer, or the page is reloaded: only localStorage stays.
GiveUpWaiting(w) ==
    /\ sending[w] # Idle
    /\ sending' = [sending EXCEPT ![w] = Idle]
    /\ UNCHANGED <<online, saved, onWire, receipts, intent, sent, ids, lateOne>>

\* The server cannot be reached: the fallback counter takes over. It gives back once all it has
\* recorded is sent up (see Fallback for when that is not so).
SwitchServer ==
    /\ online' = ~online
    /\ IF online THEN UNCHANGED receipts
       ELSE /\ \A request \in onWire : request.online
            /\ receipts' = {[r EXCEPT !.online = TRUE] : r \in receipts}
    /\ UNCHANGED <<saved, sending, onWire, intent, sent, ids, lateOne>>

SettlingNext == Reach \/ SwitchServer \/ \E w \in Windows : SendSettlement(w) \/ GiveUpWaiting(w)

SettlingSpec == SettlingInit /\ [][SettlingNext]_settlingVars

-----------------------------------------------------------------------------
\* A payment the customer makes is recorded under one ID, whatever is lost, retried, reloaded
\* or taken to the fallback counter (a receipt there and one online under one ID are one when
\* it syncs). Except a payment refused while another request under its ID, given up or another
\* tab's, was still on its way ("nothing was ever recorded under it", sales.controller.ts, is
\* true only so far), or one refused here after another tab's attempt was recorded; and except
\* the payment after such a one, when it was recorded under an ID given up and the ID saved
\* since is still there.
PaymentRecordedOnce ==
    \A i \in 1 .. MaxPayments :
        i \in lateOne \/ Cardinality({r.id : r \in {q \in receipts : q.intent = i}}) <= 1
============================================================================
