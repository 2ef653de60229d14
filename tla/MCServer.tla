------------------------------ MODULE MCServer ------------------------------
(***************************************************************************)
(* What stands between a request and its handler, two parts each checked   *)
(* alone in one run: the database client its business gets, and whether    *)
(* its caller may.  `part` says which one a behaviour is of; the other     *)
(* rests in its first state.                                               *)
(*                                                                         *)
(* Clients: more businesses than clients, and enough requests that two may *)
(* wait.  Requests are interchangeable, and so are businesses.             *)
(***************************************************************************)
EXTENDS TenantClients, Access, TLC

CONSTANT k   \* a cashier

VARIABLE part

ServerInit ==
    /\ Init /\ AccessInit
    /\ part \in {"clients", "access"}
    /\ part = "access" \/ ~offline

Connecting == part = "clients" /\ Next /\ UNCHANGED <<accessVars, part>>
Calling == part = "access" /\ AccessNext /\ UNCHANGED <<vars, part>>

ServerNext == Connecting \/ Calling

ClientSymmetry == Permutations(Businesses) \cup Permutations(Requests \ Jobs)

---------------------------------------------------------------------------
(* Access: the calls that change who may do what, and a call of every kind of check. *)
ServerCashiers == {k}
ServerChanging ==
    {r \in Routes : r.call \in
       {Post("/registers/open"), Post("/registers/:id/close"), Post("/auth/change-password"),
        Patch("/users/:id"), Post("/users/:id/branches/:branchId"),
        Delete("/users/:id/branches/:branchId"), Post("/migration/begin"), Post("/migration/abort"),
        Post("/billing/checkout")}}
ServerAsked ==
    {r \in Routes : r.call \in
       {Post("/registers/open"), Post("/registers/close"), Post("/auth/change-password"), Post("/stock/adjustment"),
        Patch("/business/settings")}}
ServerGrants == {{}, {"MANAGE_STOCK", "CASH_AND_EXPENSES"}}
=============================================================================
