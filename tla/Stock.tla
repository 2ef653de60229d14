-------------------------------- MODULE Stock --------------------------------
(***************************************************************************)
(* The transactions behind StockBook's operations, several at a time       *)
(* (PostgreSQL, READ COMMITTED): the locks each takes and in which order,  *)
(* where it reads the stock and checks the request, and the commit.        *)
(*                                                                         *)
(* Locks: the advisory lock of an item's stock at a branch; the row of a   *)
(* sale, purchase or transfer, and a sale's checkout key (its unique       *)
(* index); the Branch row (numbers of purchases, transfers, receipts); the *)
(* Item rows: a purchase takes them FOR UPDATE, and whatever inserts a     *)
(* line or ledger row of an item shares its row (FOR KEY SHARE, its        *)
(* foreign key).  All are held to the end.                                 *)
(***************************************************************************)
EXTENDS StockBook, SequencesExt

CONSTANT Requests   \* requests that can be under way at once
ASSUME RequestsAssumption == IsFiniteSet(Requests)

VARIABLE reqs       \* each request: the step it is at, and what it read

vars == <<bookVars, reqs>>

Book == INSTANCE StockBook WITH
    onHand <- onHand, inBatch <- inBatch, ledger <- ledger, opening <- opening, moved <- moved,
    counted <- counted, docs <- docs, tracked <- tracked, switched <- switched, past <- past, today <- today,
    done <- done

-----------------------------------------------------------------------------
\* The items a request moves, in the order of their ids.
InOrder(op) ==
    LET moves == ToSet(ItemsMoved(op)) IN
    [n \in 1..Cardinality(moves) |-> CHOOSE i \in moves : Cardinality({j \in moves : j <= i}) = n]
\* Mutant of LockItemStock: the items of a request are locked in the order it lists them.
LockAsListed(op) == [n \in DOMAIN ItemsMoved(op) |-> <<"stock", Place(op), ItemsMoved(op)[n]>>]
\* Mutant of LockItemStock: the items of a request aren't locked.
LockNoStock(op) == <<>>
\* lockItemStock: one lock per item at the branch, in the items' order.
LockItemStock(op) == [n \in DOMAIN InOrder(op) |-> <<"stock", Place(op), InOrder(op)[n]>>]
ShareItems(op) == [n \in DOMAIN InOrder(op) |-> <<"share", InOrder(op)[n]>>]
LockItems(op) == [n \in DOMAIN InOrder(op) |-> <<"item", InOrder(op)[n]>>]
Read == <<"read">>
Commit == <<"commit">>

\* Mutant of LockDocument: the document's row isn't locked before it is looked at.
LockNoDocument(op) == <<>>
LockDocument(op) == <<<<"doc", op.doc>>>>

\* What each kind of request does, in order.
Program(op) ==
    CASE op.kind \in {"opening", "reopening", "adjustIn", "adjustOut"} ->
            LockItemStock(op) \o <<Read>> \o ShareItems(op) \o <<Commit>>
      [] op.kind = "sale" ->
            LockItemStock(op) \o <<Read, <<"key", op.doc>>>> \o ShareItems(op)
              \o (IF op.paid THEN <<<<"branch", op.branch>>>> ELSE <<>>) \o <<Commit>>
      [] op.kind = "transfer" ->
            LockItemStock(op) \o <<Read, <<"branch", op.branch>>>> \o ShareItems(op) \o <<Commit>>
      [] op.kind = "purchase" ->
            LockItems(op) \o <<Read, <<"branch", op.branch>>>> \o LockItemStock(op) \o <<Commit>>
      [] op.kind = "sendBack" ->
            LockDocument(op) \o LockItemStock(op) \o <<Read, <<"branch", Place(op)>>>>
              \o ShareItems(op) \o <<Commit>>
      [] op.kind \in {"cancel", "return", "receive", "callBack"} ->
            LockDocument(op) \o <<Read>> \o LockItemStock(op) \o ShareItems(op) \o <<Commit>>

\* A request: the locks it holds, and the steps it has left.
Idle == [todo |-> <<>>, held |-> {}]
Busy(r) == reqs[r].todo # <<>>
Step(r) == Head(reqs[r].todo)
Held(r) == reqs[r].held
Conflict(l, m) ==
    \/ l = m /\ l[1] # "share"
    \/ {l[1], m[1]} = {"item", "share"} /\ l[2] = m[2]
IsLock(step) == step \notin {Read, Commit}

StockTypeOK ==
    /\ TypeOK
    /\ \A r \in Requests : Busy(r) =>
          /\ reqs[r].op \in Ops /\ Last(reqs[r].todo) = Commit
          /\ reqs[r].day \in (today - 1)..today
          /\ reqs[r].took \in Seq([Sources -> Int])

StockInit == Init /\ reqs = [r \in Requests |-> Idle]

GoOn(r) == reqs' = [reqs EXCEPT ![r].todo = Tail(@), ![r].held = @ \cup {Step(r)}]
RollBack(r) == reqs' = [reqs EXCEPT ![r] = Idle] /\ UNCHANGED bookVars

WorksOn(q, d) == Busy(q) /\ "doc" \in DOMAIN reqs[q].op /\ reqs[q].op.doc = d

\* A request arrives.  Documents get fresh ids, but a sale's request may be
\* sent again (its checkout key) while the first is under way; one already
\* made is answered with what it made (findCheckoutReplay).
Begin(r, op) ==
    /\ ~Busy(r)
    /\ done + Cardinality({q \in Requests : Busy(q)}) < MaxDone
    /\ Possible(op)
    /\ op.kind \in {"purchase", "transfer"} =>
          ~\E q \in Requests : WorksOn(q, op.doc)
    /\ reqs' = [reqs EXCEPT ![r] = [todo |-> Program(op), held |-> {}, op |-> op,
                                  day |-> today, took |-> <<>>]]
    /\ UNCHANGED bookVars

\* The row with this checkout key is there already.
KeyTaken(step) == step[1] = "key" /\ Made(step[2])

\* Mutant of TakeLock: no unique index on the checkout key.
TakeAnyKey(r) ==
    /\ Busy(r) /\ IsLock(Step(r))
    /\ \A q \in Requests \ {r} : \A l \in Held(q) : ~Conflict(Step(r), l)
    /\ GoOn(r)
    /\ UNCHANGED bookVars

\* Takes the next lock, once no other request holds one it conflicts with.
TakeLock(r) ==
    /\ Busy(r) /\ IsLock(Step(r))
    /\ \A q \in Requests \ {r} : \A l \in Held(q) : ~Conflict(Step(r), l)
    /\ ~KeyTaken(Step(r))
    /\ GoOn(r)
    /\ UNCHANGED bookVars

\* The same checkout was committed meanwhile: the insert of the bill fails
\* (P2002) and the answer is the bill there is.
Replay(r) == Busy(r) /\ KeyTaken(Step(r)) /\ RollBack(r)

\* Reads the stock or the document and checks the request: it is refused, or
\* known what it moves.
ReadAndCheck(r) ==
    /\ Busy(r) /\ Step(r) = Read
    /\ LET outcome == Outcome(reqs[r].op, today, tracked) IN
       IF outcome = {} THEN RollBack(r)
       ELSE /\ \E took \in outcome :
                  reqs' = [reqs EXCEPT ![r].todo = Tail(@), ![r].took = took, ![r].day = today]
            /\ UNCHANGED bookVars

\* Everything is written at once.
CommitRequest(r) ==
    /\ Busy(r) /\ Step(r) = Commit
    /\ Apply(reqs[r].op, reqs[r].took, reqs[r].day)
    /\ reqs' = [reqs EXCEPT ![r] = Idle]

\* The transaction times out, or its connection or the API goes down.
Abort(r) == Busy(r) /\ RollBack(r)

WaitsFor(r, q) == /\ q # r /\ Busy(r) /\ IsLock(Step(r))
                  /\ \E l \in Held(q) : Conflict(Step(r), l)

\* PostgreSQL ends one of two transactions that wait for each other.
DeadlockVictim(r) == (\E q \in Requests : WaitsFor(r, q) /\ WaitsFor(q, r)) /\ RollBack(r)

Switch(i) == SwitchBatches(i) /\ UNCHANGED reqs
\* No transaction lasts from one midnight to the next.
Midnight == NextDay /\ (\A r \in Requests : Busy(r) => reqs[r].day = today) /\ UNCHANGED reqs

StockNext ==
    \/ \E r \in Requests :
        \/ \E op \in Ops : Begin(r, op)
        \/ TakeLock(r) \/ Replay(r) \/ ReadAndCheck(r) \/ CommitRequest(r)
        \/ Abort(r) \/ DeadlockVictim(r)
    \/ \E i \in Items : Switch(i)
    \/ Midnight

StockSpec == StockInit /\ [][StockNext]_vars

-----------------------------------------------------------------------------
(***************************************************************************)
(* batch-stock.ts:33: expired stock is never sold or sent to a branch.     *)
(***************************************************************************)
ExpiredStays ==
    \A d \in Documents : Made(d) /\ docs[d].kind \in {"sale", "transfer"} =>
        \A n \in DOMAIN docs[d].out, s \in Batches : docs[d].out[n][s] > 0 => Expiry[s] >= docs[d].day

(***************************************************************************)
(* Two registers never sell the same last unit, from an item or a batch: a *)
(* batch's stock never goes below 0, and an item's does only where someone *)
(* allowed to sold past the count, or where goods of a batch went back to  *)
(* the supplier of an item that was switched from batches (sending back    *)
(* looks at the batch alone, and sales then leave the batches alone).      *)
(***************************************************************************)
NeverShort ==
    /\ StockTypeOK /\ ExpiredStays
    /\ \A d \in Documents : Made(d) =>
          \A n \in DOMAIN docs[d].out, s \in Sources : docs[d].out[n][s] >= 0 /\ docs[d].back[n][s] >= 0
    /\ \A b \in Branches, i \in Items :
        /\ \A s \in SourcesOf(i) \ {NoBatch} : inBatch[<<b, s>>] >= 0
        /\ <<b, i>> \notin past /\ onHand[<<b, i>>] < 0 =>
              /\ switched[i] > 0
              /\ \E d \in Documents : Is(d, "purchase") /\ docs[d].branch = b /\
                    \E n \in DOMAIN docs[d].back : docs[d].back[n] # Nothing
        /\ <<b, i>> \notin past /\ switched[i] = 0 => Lots(b, i)[NoBatch] >= 0

(***************************************************************************)
(* stock.service.ts:35 "items are locked in sorted order to avoid          *)
(* deadlocks": it does, except against a purchase, which holds the rows of *)
(* its items and of the branch before it takes the stock locks.            *)
(***************************************************************************)
DeadlocksNeedPurchase ==
    \A r, q \in Requests : WaitsFor(r, q) /\ WaitsFor(q, r) =>
        "purchase" \in {reqs[r].op.kind, reqs[q].op.kind}

(***************************************************************************)
(* However requests interleave, fail and are sent again, the stock moves   *)
(* as if each ran alone.                                                   *)
(***************************************************************************)
AsIfAlone == Book!Spec
=============================================================================
