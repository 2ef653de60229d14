------------------------------- MODULE Till -------------------------------
(***************************************************************************)
(* The till's screen (web/screens/PosPage.tsx, pos/useCheckout.ts,         *)
(* pos/useLeaveGuard.ts, lib/draftStore.ts) against the server's checkout: *)
(* a customer's cart is rung up, parked as a draft, resumed in any tab of  *)
(* the cashier's, and paid with a key that exists only in the tab that     *)
(* made it. Requests are lost or late, tabs are hidden and reloaded.       *)
(***************************************************************************)
EXTENDS Integers, Sequences, FiniteSets, SequencesExt

CONSTANTS
    Tabs,         \* the cashier's browser tabs, one list of drafts between them
    Orders,       \* the customers' purchases
    Alike,        \* whether the purchases are the same goods
    NoOrder,      \* the screen shows the list of drafts
    MaxDrafts,    \* drafts kept (MAX_DRAFTS, 20 in the code)
    MaxKeys,      \* bound: checkout keys made
    MaxTries,     \* bound: requests sent under one key
    MaxWire       \* bound: requests under way at a time

ASSUME TillAssumption == NoOrder \notin Orders /\ MaxDrafts \in Nat \ {0}

VARIABLES
    screen,    \* per tab: the order on it, the cart's state, whether it has a draft's id, the key kept
    drafts,    \* localStorage: saved carts, newest first
    toCome,    \* customers not served yet
    wire,      \* checkout requests sent and not arrived
    bills,     \* the server's bills
    keys,      \* keys made so far
    done,      \* <<order, key>>: shown as paid
    keyLost    \* orders whose key the till forgot with their outcome unknown

tillVars == <<screen, drafts, toCome, wire, bills, keys, done, keyLost>>

\* A cart is "first" as rung up or "changed" since: a line, a discount, the way it is paid.
\* (Bound: once.)
NoKey == [id |-> 0, order |-> NoOrder, print |-> <<>>, tries |-> 0]
Blank == [order |-> NoOrder, cart |-> "first", draft |-> FALSE, busy |-> FALSE]

\* The request as text: what is sold and how it is paid, not who buys.
Fingerprint(order, cart) == <<IF Alike THEN "goods" ELSE order, cart>>

\* Nobody at the till knows whether the order was billed.
Unknown(order) ==
    \/ \E request \in wire : request.order = order
    \/ \E bill \in bills : bill.order = order /\ <<order, bill.key>> \notin done

TillInit ==
    /\ screen = [t \in Tabs |-> [shown |-> Blank, key |-> NoKey]]
    /\ drafts = <<>>
    /\ toCome = Orders
    /\ wire = {} /\ bills = {} /\ keys = 0 /\ done = {} /\ keyLost = {}

-----------------------------------------------------------------------------
(* Carts and drafts.                                                       *)

\* The list without a cart, which is on it once at most.
Without(order) ==
    IF \E i \in DOMAIN drafts : drafts[i].order = order
    THEN RemoveAt(drafts, CHOOSE i \in DOMAIN drafts : drafts[i].order = order)
    ELSE drafts

\* The list's first MaxDrafts are kept: the oldest cart falls off a full list.
Upserted(shown) ==
    LET all == <<[order |-> shown.order, cart |-> shown.cart]>> \o Without(shown.order)
    IN  SubSeq(all, 1, IF Len(all) > MaxDrafts THEN MaxDrafts ELSE Len(all))

Show(t, shown) == screen' = [screen EXCEPT ![t].shown = shown]

NewOrder(t) ==
    \E order \in toCome :
        /\ screen[t].shown.order = NoOrder
        /\ Show(t, [Blank EXCEPT !.order = order])
        /\ toCome' = toCome \ {order}
        /\ UNCHANGED <<drafts, wire, bills, keys, done, keyLost>>

\* Also while the checkout is under way, its dialog closed: what is added then is not billed.
EditCart(t) ==
    /\ screen[t].shown.order # NoOrder
    /\ Show(t, [screen[t].shown EXCEPT !.cart = "changed"])
    /\ UNCHANGED <<drafts, toCome, wire, bills, keys, done, keyLost>>

\* Back to the list; the key stays with the page.
SaveDraft(t) ==
    /\ screen[t].shown.order # NoOrder /\ ~screen[t].shown.busy
    /\ drafts' = Upserted(screen[t].shown)
    /\ Show(t, Blank)
    /\ UNCHANGED <<toCome, wire, bills, keys, done, keyLost>>

\* Hidden, the tab saves its cart and keeps it, but not while it is being paid for.
HideTab(t) ==
    /\ screen[t].shown.order # NoOrder /\ ~screen[t].shown.busy
    /\ drafts' = Upserted(screen[t].shown)
    /\ Show(t, [screen[t].shown EXCEPT !.draft = TRUE])
    /\ UNCHANGED <<toCome, wire, bills, keys, done, keyLost>>

\* A reload, or leaving the page and choosing to save, saves like hiding does and forgets the
\* rest, the key with it. A cart being paid for is not saved.
ReloadTab(t) ==
    LET shown == screen[t].shown
        key == screen[t].key
    IN  /\ drafts' = (IF shown.order # NoOrder /\ ~shown.busy THEN Upserted(shown) ELSE drafts)
        /\ keyLost' = keyLost \cup {order \in {key.order} \ {NoOrder} : Unknown(order)}
        /\ screen' = [screen EXCEPT ![t] = [shown |-> Blank, key |-> NoKey]]
        /\ UNCHANGED <<toCome, wire, bills, keys, done>>

\* Resumed in a tab other than the one that holds its key, a cart has no key there.
ResumeDraft(t) ==
    \E i \in DOMAIN drafts :
        LET order == drafts[i].order
        IN  /\ screen[t].shown.order = NoOrder
            /\ Show(t, [order |-> order, cart |-> drafts[i].cart, draft |-> TRUE, busy |-> FALSE])
            /\ keyLost' = keyLost \cup (IF \E u \in Tabs \ {t} : order \in {screen[u].key.order, screen[u].shown.order}
                                        THEN {order} ELSE {})
            /\ UNCHANGED <<drafts, toCome, wire, bills, keys, done>>

\* Deleted from a tab's list; another tab may still have the cart on its screen.
DeleteDraft(t) ==
    \E i \in DOMAIN drafts :
        /\ screen[t].shown.order = NoOrder
        /\ drafts' = Without(drafts[i].order)
        /\ UNCHANGED <<screen, toCome, wire, bills, keys, done, keyLost>>

-----------------------------------------------------------------------------
(* Checkout.                                                               *)

\* Mutant of KeyFor: a new key for every attempt.
KeyForAttempt(kept, order, print) == [id |-> keys + 1, order |-> order, print |-> print, tries |-> 1]

\* The same request keeps its key, any other gets a new one.
KeyFor(kept, order, print) ==
    IF kept.print = print THEN [kept EXCEPT !.order = order, !.tries = @ + 1]
    ELSE [id |-> keys + 1, order |-> order, print |-> print, tries |-> 1]

Validate(t) ==
    LET shown == screen[t].shown
        kept == screen[t].key
        print == Fingerprint(shown.order, shown.cart)
    IN  /\ shown.order # NoOrder /\ ~shown.busy
        /\ Cardinality(wire) < MaxWire
        /\ \E key \in {KeyFor(kept, shown.order, print)} :
              /\ key.id <= MaxKeys /\ key.tries <= MaxTries
              /\ keys' = (IF key.id > keys THEN key.id ELSE keys)
              /\ wire' = wire \cup {[key |-> key.id, order |-> shown.order, print |-> print, try |-> key.tries]}
              /\ screen' = [screen EXCEPT ![t] = [shown |-> [shown EXCEPT !.busy = TRUE], key |-> key]]
        \* A changed request, or another customer's, takes the place of one not known to be billed;
        \* another customer's equal request takes its key, for good or bad.
        /\ keyLost' = keyLost
              \cup {order \in {kept.order} \ {NoOrder} : kept.print # print /\ Unknown(order)}
              \cup {order \in {kept.order, shown.order} : kept.print = print /\ kept.order # shown.order}
        /\ UNCHANGED <<drafts, toCome, bills, done>>

\* Paid: the cart's draft goes, with whatever was added to the cart meanwhile.
ShowPaid(t, order) ==
    /\ done' = done \cup {<<order, screen[t].key.id>>}
    /\ drafts' = (IF screen[t].shown.draft THEN Without(screen[t].shown.order) ELSE drafts)
    /\ screen' = [screen EXCEPT ![t] = [shown |-> Blank, key |-> NoKey]]

\* Mutant of ShowFailed: a failed checkout's key is forgotten.
ShowFailedForgetting(t) == screen' = [screen EXCEPT ![t].shown.busy = FALSE, ![t].key = NoKey]

\* Refused or unreachable: "press Validate again; the sale won't be charged twice".
ShowFailed(t) == screen' = [screen EXCEPT ![t].shown.busy = FALSE]

\* The server bills a key once and answers a known key with its bill; it may refuse a new one (a
\* request lost on the way is one that is neither billed nor answered).
\* The answer reaches the tab that waits for this very request, if anything does.
Arrive ==
    \E request \in wire, billed, answered \in BOOLEAN :
        LET known == \E bill \in bills : bill.key = request.key
            waiting == {t \in Tabs : screen[t].shown.busy /\ screen[t].key.id = request.key
                                     /\ screen[t].key.tries = request.try}
        IN  /\ known => billed
            /\ answered => waiting # {}
            /\ wire' = wire \ {request}
            /\ bills' = (IF billed /\ ~known THEN bills \cup {[key |-> request.key, order |-> request.order, print |-> request.print]}
                         ELSE bills)
            /\ IF answered
               THEN \E t \in waiting :
                       \/ billed /\ ShowPaid(t, request.order)
                       \/ ~billed /\ ShowFailed(t) /\ UNCHANGED <<drafts, done>>
               ELSE UNCHANGED <<screen, drafts, done>>
            /\ UNCHANGED <<toCome, keys, keyLost>>

Unreachable(t) ==
    /\ screen[t].shown.busy
    /\ ShowFailed(t)
    /\ UNCHANGED <<drafts, toCome, wire, bills, keys, done, keyLost>>

TillNext ==
    \/ \E t \in Tabs : NewOrder(t) \/ EditCart(t) \/ SaveDraft(t) \/ HideTab(t) \/ ReloadTab(t) \/ ResumeDraft(t)
                       \/ DeleteDraft(t) \/ Validate(t) \/ Unreachable(t)
    \/ Arrive

TillSpec == TillInit /\ [][TillNext]_tillVars

-----------------------------------------------------------------------------
\* A cart is billed once however often the checkout is retried, parked or late, and a sale
\* shown as paid is billed. Except where the code gives the key up: a reload or another tab
\* forgets it, a changed request takes a new one, and so does the next customer's, whose
\* equal request even takes the old one.
CartBilledOnce ==
    \A order \in Orders \ keyLost :
        /\ Cardinality({bill \in bills : bill.order = order}) <= 1
        /\ \A key \in 1 .. MaxKeys : <<order, key>> \in done => \E bill \in bills : bill.key = key /\ bill.order = order

\* What the screen says after a lost answer: "press Validate again; the sale won't be charged
\* twice" (useCheckout.ts). The same cart, paid the same way, is never billed a second time.
RetryBillsOnce ==
    \A one, other \in bills : one.order = other.order /\ one.print = other.print => one = other
============================================================================
