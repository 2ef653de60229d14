------------------------------ MODULE MCHosting ------------------------------
(***************************************************************************)
(* Three parts of the hosted server that do not touch each other's rows,   *)
(* each checked alone in one run: `part` says which one a behaviour is of, *)
(* and the others rest in their first state.                               *)
(***************************************************************************)
EXTENDS Billing, Deletion, Sessions, TLC

VARIABLE part

PriceDef == [starter |-> 1, growth |-> 2]
PeriodDaysDef == [month |-> 2, year |-> 3]
OfferDef == <<[plan |-> "starter", period |-> "month"], [plan |-> "growth", period |-> "year"]>>

HostingInit ==
    /\ BillingInit /\ DeletionInit /\ SessionsInit
    /\ part \in {"billing", "deletion", "sessions"}
    /\ part = "sessions" \/ ~user.cashier

Paying == part = "billing" /\ BillingNext /\ UNCHANGED <<deletionVars, sessionVars, part>>
Deleting == part = "deletion" /\ DeletionNext /\ UNCHANGED <<billingVars, sessionVars, part>>
SigningIn == part = "sessions" /\ SessionsNext /\ UNCHANGED <<billingVars, deletionVars, part>>

HostingNext == Paying \/ Deleting \/ SigningIn

HostingSymmetry == Permutations(Processes) \cup Permutations(Calls)
==============================================================================
