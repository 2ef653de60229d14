------------------------------ MODULE Deletion ------------------------------
(***************************************************************************)
(* Deleting a business on the hosted server: an owner asks with a code     *)
(* emailed to them, the business is locked for a grace period in which any *)
(* owner may keep it, and then every API process's hourly round may erase  *)
(* it: claim the row, drop its files and schema, forget its owners, tell   *)
(* them.  A round may stop after any step; the next one goes on.           *)
(***************************************************************************)
EXTENDS Integers

CONSTANTS
    Owners,
    Erasers,   \* API processes, each with its hourly round
    DeletionGrace, \* days
    CodeTries, \* wrong codes an emailed code stands
    LastDay     \* bound: the last day

ASSUME DeletionAssumption == DeletionGrace \in Nat \ {0} /\ LastDay \in Nat

VARIABLES
    today,
    row,      \* Business: status, statusBeforeDeletion, deleteAfter, erasedAt set, name and owners kept
    codes,    \* DeletionCode of each owner: wrong tries so far, or none, or used
    asking,   \* an owner's request between its checks and its write: the status it read
    rounds,   \* each process's round: how far it is with the business, and its day
    data,     \* the business's schema and files are there
    ownersTold, \* how often owners were told it is erased
    promised  \* history: the day the last request not taken back promised to wait for

deletionVars == <<today, row, codes, asking, rounds, data, ownersTold, promised>>

NoCode == -1
UsedCode == -2
Nobody == "none"
AtRest(p) == rounds[p].at = "idle"
NoRound == [at |-> "idle", day |-> 0]

DeletionInit ==
    /\ today = 0
    /\ row = [status |-> "ACTIVE", before |-> Nobody, after |-> 0, erased |-> FALSE, owned |-> TRUE]
    /\ codes = [o \in Owners |-> NoCode]
    /\ asking = [o \in Owners |-> Nobody]
    /\ rounds = [p \in Erasers |-> NoRound]
    /\ data = TRUE /\ ownersTold = 0 /\ promised = LastDay + 1

\* A day passes; no request takes that long, a round may.
DeletionDay ==
    /\ today < LastDay
    /\ \A o \in Owners : asking[o] = Nobody
    /\ today' = today + 1
    /\ UNCHANGED <<row, codes, asking, rounds, data, ownersTold, promised>>

\* The operator locks a business by hand, or lets it work again.
Suspend ==
    /\ row.status \in {"ACTIVE", "SUSPENDED"}
    /\ row' = [row EXCEPT !.status = IF @ = "ACTIVE" THEN "SUSPENDED" ELSE "ACTIVE"]
    /\ UNCHANGED <<today, codes, asking, rounds, data, ownersTold, promised>>

Deletable == row.owned /\ row.status \in {"ACTIVE", "SUSPENDED"}

\* A new code replaces the owner's earlier one.
SendCode(o) ==
    /\ Deletable
    /\ codes' = [codes EXCEPT ![o] = 0]
    /\ UNCHANGED <<today, row, asking, rounds, data, ownersTold, promised>>

Usable(o) == codes[o] \in 0 .. CodeTries - 1

\* The request's checks: status, password, business code and emailed code.
AskDeletion(o) ==
    /\ Deletable /\ Usable(o) /\ asking[o] = Nobody
    /\ \/ asking' = [asking EXCEPT ![o] = row.status] /\ UNCHANGED codes
       \/ codes' = [codes EXCEPT ![o] = @ + 1] /\ UNCHANGED asking
    /\ UNCHANGED <<today, row, rounds, data, ownersTold, promised>>

\* Its write: the code is spent once, the business locked until the grace period is over.
RequestDeletion(o) ==
    /\ asking[o] # Nobody
    /\ asking' = [asking EXCEPT ![o] = Nobody]
    /\ IF codes[o] >= 0
       THEN /\ codes' = [codes EXCEPT ![o] = UsedCode]
            /\ row' = [row EXCEPT !.status = "DELETING", !.before = asking[o], !.after = today + DeletionGrace]
            /\ promised' = today + DeletionGrace
       ELSE UNCHANGED <<codes, row, promised>>
    /\ UNCHANGED <<today, rounds, data, ownersTold>>

\* An owner keeps the business, if it is still only locked when the row is written.
CancelDeletion ==
    /\ row.owned /\ row.status = "DELETING"
    /\ row' = [row EXCEPT !.status = IF row.before = "SUSPENDED" THEN "SUSPENDED" ELSE "ACTIVE",
                          !.before = Nobody, !.after = 0]
    /\ promised' = LastDay + 1
    /\ UNCHANGED <<today, codes, asking, rounds, data, ownersTold>>

-----------------------------------------------------------------------------
(* The hourly round.                                                       *)

RoundAt(p, at) == rounds' = [rounds EXCEPT ![p].at = at]
DueOn(d) == row.status = "DELETING" /\ row.after <= d
HalfErased == row.status = "DELETED" /\ ~row.erased

\* The list of businesses due.
EraseDue(p) ==
    /\ AtRest(p) /\ (DueOn(today) \/ HalfErased)
    /\ rounds' = [rounds EXCEPT ![p] = [at |-> "due", day |-> today]]
    /\ UNCHANGED <<today, row, codes, asking, data, ownersTold, promised>>

\* Mutant of Erasable: the list says so already.
ErasableAsListed(d) == row.status # "DELETED"

Erasable(d) == DueOn(d)

\* Claimed now, or before by a round that stopped halfway (or is still at it).
ClaimErase(p) ==
    /\ rounds[p].at = "due"
    /\ \/ Erasable(rounds[p].day) /\ row' = [row EXCEPT !.status = "DELETED"] /\ RoundAt(p, "claimed")
       \/ ~Erasable(rounds[p].day) /\ HalfErased /\ UNCHANGED row /\ RoundAt(p, "claimed")
       \/ ~Erasable(rounds[p].day) /\ ~HalfErased /\ UNCHANGED row /\ RoundAt(p, "idle")
    /\ UNCHANGED <<today, codes, asking, data, ownersTold, promised>>

\* Its files and schema go; this is safe to do twice.
Drop(p) ==
    /\ rounds[p].at = "claimed"
    /\ data' = FALSE
    /\ \E owners \in {row.owned} : RoundAt(p, IF owners THEN "dropped" ELSE "dropped, owners gone")
    /\ UNCHANGED <<today, row, codes, asking, ownersTold, promised>>

\* What the platform kept: owners, codes, the name; the row is marked erased.
Forget(p) ==
    /\ rounds[p].at \in {"dropped", "dropped, owners gone"}
    /\ row' = [row EXCEPT !.erased = TRUE, !.owned = FALSE]
    /\ codes' = [o \in Owners |-> NoCode]
    /\ RoundAt(p, IF rounds[p].at = "dropped" THEN "telling" ELSE "idle")
    /\ UNCHANGED <<today, asking, data, ownersTold, promised>>

Tell(p) ==
    /\ rounds[p].at = "telling"
    /\ ownersTold' = ownersTold + 1
    /\ RoundAt(p, "idle")
    /\ UNCHANGED <<today, row, codes, asking, data, promised>>

\* A step fails or the process stops: the round ends, the next finds the business again.
RoundStops(p) ==
    /\ ~AtRest(p)
    /\ RoundAt(p, "idle")
    /\ UNCHANGED <<today, row, codes, asking, data, ownersTold, promised>>

DeletionNext ==
    \/ DeletionDay \/ Suspend \/ CancelDeletion
    \/ \E o \in Owners : SendCode(o) \/ AskDeletion(o) \/ RequestDeletion(o)
    \/ \E p \in Erasers : EraseDue(p) \/ ClaimErase(p) \/ Drop(p) \/ Forget(p) \/ Tell(p) \/ RoundStops(p)

DeletionSpec == DeletionInit /\ [][DeletionNext]_deletionVars

-----------------------------------------------------------------------------
\* A business's data is erased only when the grace period its last request promised is over
\* and no owner kept it; until then the data is all there, and a row that says erased has none.
GraceKept ==
    /\ ~data => today >= promised
    /\ row.status # "DELETED" => data /\ row.owned
    /\ row.erased => ~data
=============================================================================
