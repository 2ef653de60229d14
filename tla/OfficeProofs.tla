---------------------------- MODULE OfficeProofs ----------------------------
(***************************************************************************)
(* Theorems about the back office.                                         *)
(*                                                                         *)
(* Who may call what (Access), for every set of cashiers, branches,        *)
(* permissions granted and routes asked for or changing what is read: a    *)
(* request past its checks was entitled to all its route asks (RightsHeld) *)
(* though each check is a read of its own, and whatever state the business *)
(* is in, the ways out of it are open (WaysOutOpen).  The invariant,       *)
(* AccessInv, says what each check passed showed of the rights held at     *)
(* some moment since the request arrived (ChecksShown); about the routes   *)
(* one fact is needed, how their checks are arranged (RoutesGuarded).      *)
(*                                                                         *)
(* The returns and reports of a period (GstReturns), for every set of      *)
(* forms, registrations and zones: every line is in them exactly once      *)
(* (TablesAgree), and what was filed stands (FiledStands).  The invariant, *)
(* GstInv, dates the rows and relates a bill's total and its credits to    *)
(* its lines; the tables are sums over the entries sold and back, so that  *)
(* two of them agree when each is the same sum in other groups.            *)
(*                                                                         *)
(* The pages of the web app (Screens), for whoever is at the computer and  *)
(* any number of forms at once: a page shows the changes made on it        *)
(* (OwnChangeShown), by ScreensInv and, page by page, that a change        *)
(* refreshes the queries that show what it alters (PagesTidy); and what a  *)
(* page reads and offers is served to whom the router lets onto it         *)
(* (PagesServed), page by page against the controllers (PagesGranted).     *)
(***************************************************************************)
EXTENDS Access, GstReturns, Screens, SumsProofs, SequenceTheorems, FiniteSetTheorems, WellFoundedInduction, TLAPS
-----------------------------------------------------------------------------
(* The routes.                                                             *)

\* The checks a handler or its service makes.
WorkChecks == {Admin, Branch, Access, Register, Drawer, Open} \cup {AnyOf(some) : some \in (SUBSET Permissions) \ {{}}}

\* The guards come first; a route anybody may call has no checks but theirs; users' rows are an admin's to change.
Guarded(r) ==
    \E work \in Seq(WorkChecks) :
        /\ r.checks = Guards(r.marks) \o work
        /\ "public" \in r.marks => work = <<>>
        /\ r.call = Patch("/users/:id") => \E i \in DOMAIN work : work[i] = Admin

LEMMA WorkKnown ==
    /\ Admin \in WorkChecks /\ Branch \in WorkChecks /\ Access \in WorkChecks /\ Register \in WorkChecks
    /\ Drawer \in WorkChecks /\ Open \in WorkChecks
    /\ \A p \in Permissions : May(p) \in WorkChecks
    /\ \A p, q \in Permissions : AnyOf({p, q}) \in WorkChecks
<1>1. \A some \in SUBSET Permissions : some # {} => AnyOf(some) \in WorkChecks
  <2>1. SUFFICES ASSUME NEW some \in SUBSET Permissions, some # {} PROVE AnyOf(some) \in WorkChecks
    OBVIOUS
  <2>2. some \in (SUBSET Permissions) \ {{}}
    BY <2>1
  <2>3. QED
    BY <2>2 DEF WorkChecks
<1>2. \A p, q \in Permissions : {p} \in SUBSET Permissions /\ {p} # {} /\ {p, q} \in SUBSET Permissions /\ {p, q} # {}
  OBVIOUS
<1>3. \A p \in Permissions : May(p) = AnyOf({p})
  BY DEF May
<1>4. \A p \in Permissions : AnyOf({p}) \in WorkChecks
  BY <1>1, <1>2
<1>5. \A p, q \in Permissions : AnyOf({p, q}) \in WorkChecks
  BY <1>1, <1>2
<1>6. {Admin, Branch, Access, Register, Drawer, Open} \subseteq WorkChecks
  BY DEF WorkChecks
<1>7. QED
  BY <1>3, <1>4, <1>5, <1>6

LEMMA WorkSequences ==
    /\ <<>> \in Seq(WorkChecks)
    /\ \A a \in WorkChecks : <<a>> \in Seq(WorkChecks)
    /\ \A a, b \in WorkChecks : <<a, b>> \in Seq(WorkChecks)
    /\ \A a, b, c \in WorkChecks : <<a, b, c>> \in Seq(WorkChecks)
    /\ \A a, b, c, d \in WorkChecks : <<a, b, c, d>> \in Seq(WorkChecks)
OBVIOUS

LEMMA RouteGuarded ==
    ASSUME NEW marks, NEW work \in Seq(WorkChecks), "public" \in marks => work = <<>>, NEW calls,
           Patch("/users/:id") \in calls => \E i \in DOMAIN work : work[i] = Admin
    PROVE  \A r \in Serve(marks, work, calls) : Guarded(r)
<1>1. SUFFICES ASSUME NEW r \in Serve(marks, work, calls) PROVE Guarded(r)
  OBVIOUS
<1>2. PICK c \in calls : r = [call |-> c, marks |-> marks, checks |-> Guards(marks) \o work]
  BY <1>1 DEF Serve
<1>3. r.call \in calls /\ r.marks = marks /\ r.checks = Guards(marks) \o work
  BY <1>2
<1>4. QED
  BY <1>3 DEF Guarded

LEMMA RoutesGuarded == \A r \in Routes : Guarded(r)
<1> USE DEF Get, Post, Put, Patch, Delete
<1>0. {"MANAGE_STOCK", "MANAGE_ITEMS", "RECORD_PURCHASES", "PAY_SUPPLIERS", "MAKE_RETURNS", "CANCEL_SALES",
       "TOP_UP_WALLETS", "CASH_AND_EXPENSES", "SEND_TRANSFERS"} \subseteq Permissions
  BY DEF Permissions
<1>1. \A r \in AccountsController : Guarded(r)
  BY RouteGuarded, WorkKnown, WorkSequences DEF AccountsController
<1>2. \A r \in AuditController : Guarded(r)
  BY RouteGuarded, WorkKnown, WorkSequences DEF AuditController
<1>3. \A r \in AuthController : Guarded(r)
  BY RouteGuarded, WorkKnown, WorkSequences DEF AuthController
<1>4. \A r \in BillingController : Guarded(r)
  BY RouteGuarded, WorkKnown, WorkSequences DEF BillingController
<1>5. \A r \in BranchesController : Guarded(r)
  BY RouteGuarded, WorkKnown, WorkSequences DEF BranchesController
<1>6. \A r \in CountersController : Guarded(r)
  BY RouteGuarded, WorkKnown, WorkSequences DEF CountersController
<1>7. \A r \in CrashReportsController : Guarded(r)
  BY RouteGuarded, WorkKnown, WorkSequences DEF CrashReportsController
<1>8. \A r \in CustomersController : Guarded(r)
  BY <1>0, RouteGuarded, WorkKnown, WorkSequences DEF CustomersController
<1>9. \A r \in ExpensesController : Guarded(r)
  BY <1>0, RouteGuarded, WorkKnown, WorkSequences DEF ExpensesController
<1>10. \A r \in ExportsController : Guarded(r)
  BY RouteGuarded, WorkKnown, WorkSequences DEF ExportsController
<1>11. \A r \in FallbackController : Guarded(r)
  BY RouteGuarded, WorkKnown, WorkSequences DEF FallbackController
<1>12. \A r \in GstController : Guarded(r)
  BY RouteGuarded, WorkKnown, WorkSequences DEF GstController
<1>13. \A r \in ItemGroupsController : Guarded(r)
  BY <1>0, RouteGuarded, WorkKnown, WorkSequences DEF ItemGroupsController
<1>14. \A r \in ItemsController : Guarded(r)
  BY <1>0, RouteGuarded, WorkKnown, WorkSequences DEF ItemsController
<1>15. \A r \in MetaController : Guarded(r)
  BY RouteGuarded, WorkKnown, WorkSequences DEF MetaController
<1>16. \A r \in MigrationController : Guarded(r)
  BY RouteGuarded, WorkKnown, WorkSequences DEF MigrationController
<1>17. \A r \in PurchasesController : Guarded(r)
  BY <1>0, RouteGuarded, WorkKnown, WorkSequences DEF PurchasesController, COST_PERMISSIONS
<1>18. \A r \in RegistersController : Guarded(r)
  BY RouteGuarded, WorkKnown, WorkSequences DEF RegistersController
<1>19. \A r \in ReportsController : Guarded(r)
  BY RouteGuarded, WorkKnown, WorkSequences DEF ReportsController
<1>20. \A r \in ReturnsController : Guarded(r)
  BY <1>0, RouteGuarded, WorkKnown, WorkSequences DEF ReturnsController
<1>21. \A r \in SalesController : Guarded(r)
  BY <1>0, RouteGuarded, WorkKnown, WorkSequences DEF SalesController
<1>22. \A r \in SettingsController : Guarded(r)
  BY RouteGuarded, WorkKnown, WorkSequences DEF SettingsController
<1>23. \A r \in SetupController : Guarded(r)
  BY RouteGuarded, WorkKnown, WorkSequences DEF SetupController
<1>24. \A r \in StockController : Guarded(r)
  BY <1>0, RouteGuarded, WorkKnown, WorkSequences DEF StockController
<1>25. \A r \in SuppliersController : Guarded(r)
  BY <1>0, RouteGuarded, WorkKnown, WorkSequences DEF SuppliersController
<1>26. \A r \in TransfersController : Guarded(r)
  BY <1>0, RouteGuarded, WorkKnown, WorkSequences DEF TransfersController
<1>27. \A r \in UsersController : Guarded(r)
  <2>1. \A r \in Serve({}, <<Admin, Branch>>, {Get("/users"), Post("/users")}) : Guarded(r)
    BY RouteGuarded, WorkKnown, WorkSequences
  <2>2. <<Admin, Access>>[1] = Admin /\ 1 \in DOMAIN <<Admin, Access>> /\ <<Admin, Access>> \in Seq(WorkChecks)
    BY WorkKnown
  <2>3. \A r \in Serve({}, <<Admin, Access>>, {Patch("/users/:id"), Post("/users/:id/branches/:branchId"),
                                              Delete("/users/:id/branches/:branchId")}) : Guarded(r)
    BY <2>2, RouteGuarded
  <2>4. QED
    BY <2>1, <2>3 DEF UsersController
<1>28. QED
  BY <1>1, <1>2, <1>3, <1>4, <1>5, <1>6, <1>7, <1>8, <1>9, <1>10, <1>11, <1>12, <1>13, <1>14, <1>15, <1>16, <1>17, <1>18, <1>19, <1>20, <1>21, <1>22, <1>23, <1>24, <1>25, <1>26, <1>27 DEF Routes

LEMMA WorkAsks ==
    ASSUME NEW c \in WorkChecks
    PROVE  /\ c.ask \in {"admin", "branch", "access", "register", "drawer", "open", "permission"}
           /\ c.ask = "permission" => c.of \subseteq Permissions /\ c.of # {}
<1>1. CASE c \in {Admin, Branch, Access, Register, Drawer, Open}
  BY <1>1 DEF Admin, Branch, Access, Register, Drawer, Open, Check
<1>2. CASE \E some \in (SUBSET Permissions) \ {{}} : c = AnyOf(some)
  BY <1>2 DEF AnyOf, Check
<1>3. QED
  BY <1>1, <1>2 DEF WorkChecks

LEMMA Following ==
    ASSUME NEW S, NEW g \in Seq(S), NEW w \in Seq(S)
    PROVE  /\ g \o w \in Seq(S) /\ Len(g \o w) = Len(g) + Len(w)
           /\ \A i \in 1 .. Len(g) : (g \o w)[i] = g[i]
           /\ \A i \in 1 .. Len(w) : (g \o w)[Len(g) + i] = w[i]
OBVIOUS

\* The guards' own checks.
GuardChecks == {Check("user", {}), Check("token branch", {}), Check("token register", {}), Check("status", {}), Check("mode", {})}

LEMMA GuardsAre ==
    ASSUME NEW marks
    PROVE  /\ Guards(marks) \in Seq(GuardChecks)
           /\ "public" \in marks => /\ Len(Guards(marks)) = 2
                                    /\ Guards(marks)[1] = Check("status", {}) /\ Guards(marks)[2] = Check("mode", {})
           /\ "public" \notin marks => /\ Len(Guards(marks)) = 5
                                       /\ Guards(marks)[1] = Check("user", {}) /\ Guards(marks)[2] = Check("token branch", {})
                                       /\ Guards(marks)[3] = Check("token register", {})
                                       /\ Guards(marks)[4] = Check("status", {}) /\ Guards(marks)[5] = Check("mode", {})
<1> DEFINE last == <<Check("status", {}), Check("mode", {})>>
           first == <<Check("user", {}), Check("token branch", {}), Check("token register", {})>>
<1>1. /\ last \in Seq(GuardChecks) /\ Len(last) = 2 /\ last[1] = Check("status", {}) /\ last[2] = Check("mode", {})
      /\ first \in Seq(GuardChecks) /\ Len(first) = 3 /\ first[1] = Check("user", {})
      /\ first[2] = Check("token branch", {}) /\ first[3] = Check("token register", {})
  BY DEF GuardChecks
<1>2. Guards(marks) = IF "public" \in marks THEN <<>> \o last ELSE first \o last
  BY DEF Guards
<1> HIDE DEF last, first
<1>3. <<>> \o last = last
  BY <1>1, ConcatEmptySeq
<1> DEFINE five == first \o last
<1>4. /\ five \in Seq(GuardChecks) /\ Len(five) = Len(first) + Len(last)
      /\ \A i \in 1 .. Len(first) : five[i] = first[i]
      /\ \A i \in 1 .. Len(last) : five[Len(first) + i] = last[i]
  <2>1. first \in Seq(GuardChecks) /\ last \in Seq(GuardChecks)
    BY <1>1
  <2>2. QED
    BY ONLY <2>1, Following
<1> HIDE DEF five
<1>5. /\ Len(five) = 5 /\ five[1] = first[1] /\ five[2] = first[2] /\ five[3] = first[3]
      /\ five[4] = last[1] /\ five[5] = last[2]
  <2>1. Len(first) = 3 /\ Len(last) = 2
    BY <1>1
  <2>2. five[1] = first[1] /\ five[2] = first[2] /\ five[3] = first[3]
    BY ONLY <1>4, <2>1
  <2>3. five[Len(first) + 1] = last[1] /\ five[Len(first) + 2] = last[2]
    BY ONLY <1>4, <2>1
  <2>4. QED
    BY ONLY <1>4, <2>1, <2>2, <2>3
<1>6. Guards(marks) = IF "public" \in marks THEN last ELSE five
  BY <1>2, <1>3 DEF five
<1>7. /\ five \in Seq(GuardChecks) /\ Len(five) = 5
      /\ five[1] = Check("user", {}) /\ five[2] = Check("token branch", {}) /\ five[3] = Check("token register", {})
      /\ five[4] = Check("status", {}) /\ five[5] = Check("mode", {})
  BY <1>1, <1>4, <1>5
<1>8. CASE "public" \in marks
  <2>1. Guards(marks) = last
    BY <1>6, <1>8
  <2>2. QED
    BY <1>1, <1>8, <2>1
<1>9. CASE "public" \notin marks
  <2>1. Guards(marks) = five
    BY <1>6, <1>9
  <2>2. QED
    BY <1>7, <1>9, <2>1
<1>10. QED
  BY <1>8, <1>9

LEMMA AskOf == \A a, of : Check(a, of).ask = a
BY DEF Check

\* The checks of a route, in their order.
LEMMA CheckAt ==
    ASSUME NEW r \in Routes
    PROVE  /\ r.checks \in Seq(GuardChecks \cup WorkChecks)
           /\ "public" \in r.marks => /\ Len(r.checks) = 2
                                      /\ r.checks[1].ask = "status" /\ r.checks[2].ask = "mode"
           /\ "public" \notin r.marks => /\ Len(r.checks) >= 5
                                         /\ r.checks[1].ask = "user" /\ r.checks[2].ask = "token branch"
                                         /\ r.checks[3].ask = "token register" /\ r.checks[4].ask = "status"
                                         /\ r.checks[5].ask = "mode"
                                         /\ \A i \in 6 .. Len(r.checks) : r.checks[i] \in WorkChecks
           /\ r.call = Patch("/users/:id") => \E i \in 1 .. Len(r.checks) : r.checks[i] = Admin
<1> DEFINE g == Guards(r.marks)
           All == GuardChecks \cup WorkChecks
<1>1. PICK work \in Seq(WorkChecks) :
        /\ r.checks = g \o work
        /\ "public" \in r.marks => work = <<>>
        /\ r.call = Patch("/users/:id") => \E i \in DOMAIN work : work[i] = Admin
  BY RoutesGuarded DEF Guarded
<1>2. g \in Seq(All) /\ work \in Seq(All)
  <2>1. GuardChecks \subseteq All /\ WorkChecks \subseteq All /\ g \in Seq(GuardChecks)
    BY GuardsAre
  <2> HIDE DEF All, g
  <2>2. QED
    BY <2>1
<1> HIDE DEF All, g
<1>3. /\ r.checks \in Seq(All) /\ Len(r.checks) = Len(g) + Len(work)
      /\ \A i \in 1 .. Len(g) : r.checks[i] = g[i]
      /\ \A i \in 1 .. Len(work) : r.checks[Len(g) + i] = work[i]
  BY <1>1, <1>2, Following
<1>4. CASE "public" \in r.marks
  <2>1. work = <<>> /\ Len(work) = 0 /\ Len(g) = 2 /\ g[1] = Check("status", {}) /\ g[2] = Check("mode", {})
    BY <1>1, <1>4, GuardsAre DEF g
  <2>2. Len(r.checks) = 2 /\ r.checks[1] = Check("status", {}) /\ r.checks[2] = Check("mode", {})
    BY <1>3, <2>1
  <2>3. r.call # Patch("/users/:id")
    BY <1>1, <2>1
  <2>4. r.checks[1].ask = "status" /\ r.checks[2].ask = "mode"
    BY <2>2, AskOf
  <2>5. r.checks \in Seq(GuardChecks \cup WorkChecks)
    BY <1>3 DEF All
  <2>6. QED
    BY ONLY <1>4, <2>2, <2>3, <2>4, <2>5
<1>5. CASE "public" \notin r.marks
  <2>1. /\ Len(g) = 5 /\ g[1] = Check("user", {}) /\ g[2] = Check("token branch", {})
        /\ g[3] = Check("token register", {}) /\ g[4] = Check("status", {}) /\ g[5] = Check("mode", {})
    BY <1>5, GuardsAre DEF g
  <2>2. PICK cs : cs = r.checks
    OBVIOUS
  <2>3. /\ Len(cs) = Len(g) + Len(work) /\ Len(work) \in Nat /\ Len(g) = 5
        /\ \A i \in 1 .. Len(g) : cs[i] = g[i]
        /\ \A i \in 1 .. Len(work) : cs[Len(g) + i] = work[i]
    <3>1. Len(work) \in Nat
      OBVIOUS
    <3>2. /\ Len(cs) = Len(g) + Len(work)
          /\ \A i \in 1 .. Len(g) : cs[i] = g[i]
          /\ \A i \in 1 .. Len(work) : cs[Len(g) + i] = work[i]
      BY ONLY <1>3, <2>2
    <3>3. QED
      BY <2>1, <3>1, <3>2
  <2>4. Len(cs) >= 5 /\ cs[1] = g[1] /\ cs[2] = g[2] /\ cs[3] = g[3] /\ cs[4] = g[4] /\ cs[5] = g[5]
    BY ONLY <2>3
  <2>5. /\ Len(r.checks) >= 5 /\ r.checks[1] = Check("user", {}) /\ r.checks[2] = Check("token branch", {})
        /\ r.checks[3] = Check("token register", {}) /\ r.checks[4] = Check("status", {}) /\ r.checks[5] = Check("mode", {})
    BY <2>2, <2>4, <2>1
  <2>6. ASSUME NEW i \in 6 .. Len(r.checks) PROVE r.checks[i] \in WorkChecks
    <3>1. i - 5 \in 1 .. Len(work) /\ i = Len(g) + (i - 5)
      BY <2>2, <2>3
    <3>2. cs[i] = work[i - 5]
      BY ONLY <3>1, <2>3
    <3>3. QED
      BY <2>2, <3>1, <3>2
  <2>7. r.call = Patch("/users/:id") => \E i \in 1 .. Len(r.checks) : r.checks[i] = Admin
    <3>1. SUFFICES ASSUME NEW i \in 1 .. Len(work), work[i] = Admin PROVE \E n \in 1 .. Len(r.checks) : r.checks[n] = Admin
      BY <1>1
    <3>2. cs[Len(g) + i] = Admin /\ Len(g) + i \in 1 .. Len(cs)
      BY <2>3, <3>1
    <3>3. QED
      BY <2>2, <3>2
  <2>8. /\ r.checks[1].ask = "user" /\ r.checks[2].ask = "token branch" /\ r.checks[3].ask = "token register"
        /\ r.checks[4].ask = "status" /\ r.checks[5].ask = "mode"
    BY <2>5, AskOf
  <2>9. r.checks \in Seq(GuardChecks \cup WorkChecks) /\ Len(r.checks) >= 5
    BY <1>3, <2>5 DEF All
  <2>10. QED
    BY ONLY <1>5, <2>6, <2>7, <2>8, <2>9
<1>6. QED
  BY <1>4, <1>5

-----------------------------------------------------------------------------
(* A request's rights.                                                     *)

UserRow == [active : BOOLEAN, mustChange : BOOLEAN, changes : Nat, permissions : SUBSET Permissions, branches : SUBSET Branches]
RegisterRow == [user : Users, branch : Branches, open : BOOLEAN]

\* A token names a register of its user's, as it was opened, and its branch; or none.
TokenFits(t) ==
    /\ t \in [user : Users, branch : {None} \cup Branches, register : {None} \cup DOMAIN registers, signed : Nat]
    /\ t.register = None => t.branch = None
    /\ t.register # None => registers[t.register].user = t.user /\ registers[t.register].branch = t.branch

AccessTypes ==
    /\ offline \in BOOLEAN /\ shut \in BOOLEAN
    /\ users \in [Users -> UserRow]
    /\ registers \in Seq(RegisterRow)
    /\ token # SignedOut => TokenFits(token)
    /\ InFlight => /\ token # SignedOut
                   /\ request = [at |-> request.at, route |-> request.route, branch |-> request.branch, token |-> token]
                   /\ request.route \in Routes /\ request.branch \in Branches
                   /\ request.at \in 0 .. Len(Checks)

\* What a check passed shows of what its caller was entitled to since the request arrived.  That a branch
\* may be used is shown by two reads: of the access to it, and then that the register there is open still.
Shown(c) ==
    /\ c.ask = "user" => {"active", "password"} \subseteq held
    /\ c.ask = "token branch" /\ token.register # None /\ token.branch = request.branch /\ registers[token.register].open =>
          "branch" \in held
    /\ c.ask = "token register" /\ token.register # None =>
          "register" \in held /\ (token.branch = request.branch => {"branch", "drawer"} \subseteq held)
    /\ c.ask = "status" /\ "changeable" \in Needs(request.route) => "changeable" \in held
    /\ c.ask \in {"admin", "branch", "access", "register", "drawer"} => c.ask \in held
    /\ c.ask = "admin" => token.user = Owner
    /\ c.ask = "permission" => c.of \cap held # {}

ChecksShown ==
    InFlight => /\ RightsNow(token, request.branch) \subseteq held
                /\ \A i \in 1 .. request.at : Shown(Checks[i])

\* The owner is nobody's to change.
OwnerStands == users[Owner].active /\ ~users[Owner].mustChange /\ users[Owner].branches = Branches

AccessInv == AccessTypes /\ ChecksShown /\ OwnerStands

LEMMA Rights ==
    ASSUME NEW t, NEW b
    PROVE  LET rights == RightsNow(t, b) IN
           /\ users[t.user].active => "active" \in rights
           /\ t.signed >= users[t.user].changes => "password" \in rights
           /\ b \in users[t.user].branches => "access" \in rights
           /\ b \in users[t.user].branches /\ (t.user = Owner \/ \E i \in OpenOf(t.user) : registers[i].branch = b) =>
                 "branch" \in rights
           /\ \A i \in OpenOf(t.user) : "register" \in rights /\ (registers[i].branch = b => "drawer" \in rights)
           /\ t.user = Owner => "admin" \in rights /\ Permissions \subseteq rights
           /\ t.user # Owner => users[t.user].permissions \subseteq rights
           /\ ~shut => "changeable" \in rights
<1> DEFINE rights == RightsNow(t, b)
           u == t.user
<1>1. users[u].active => "active" \in rights
  BY DEF RightsNow
<1>2. t.signed >= users[u].changes => "password" \in rights
  BY DEF RightsNow
<1>3. b \in users[u].branches => "access" \in rights
  BY DEF RightsNow
<1>4. b \in users[u].branches /\ (u = Owner \/ \E i \in OpenOf(u) : registers[i].branch = b) => "branch" \in rights
  BY DEF RightsNow
<1>5. \A i \in OpenOf(u) : "register" \in rights
  BY DEF RightsNow
<1>6. \A i \in OpenOf(u) : registers[i].branch = b => "drawer" \in rights
  BY DEF RightsNow
<1>7. u = Owner => "admin" \in rights
  BY DEF RightsNow
<1>8. u = Owner => Permissions \subseteq rights
  BY DEF RightsNow
<1>9. u # Owner => users[u].permissions \subseteq rights
  BY DEF RightsNow
<1>10. ~shut => "changeable" \in rights
  BY DEF RightsNow
<1> HIDE DEF rights, u
<1>11. QED
  BY <1>1, <1>2, <1>3, <1>4, <1>5, <1>6, <1>7, <1>8, <1>9, <1>10 DEF rights, u

\* Where in a route a check of a kind stands.
LEMMA Places ==
    ASSUME NEW r \in Routes, NEW n \in 1 .. Len(r.checks)
    PROVE  /\ \/ r.checks[n].ask \in {"user", "token branch", "token register", "status", "mode"}
              \/ r.checks[n] \in WorkChecks /\ n >= 6 /\ "public" \notin r.marks
           /\ r.checks[n].ask = "token register" => n = 3 /\ r.checks[2].ask = "token branch" /\ "public" \notin r.marks
           /\ n >= 6 => "public" \notin r.marks /\ r.checks[3].ask = "token register"
<1>1. PICK cs : cs = r.checks
  OBVIOUS
<1>2. PICK len \in Nat : len = Len(cs)
  <2>1. cs \in Seq(GuardChecks \cup WorkChecks)
    BY <1>1, CheckAt
  <2>2. Len(cs) \in Nat
    BY <2>1
  <2>3. QED
    BY <2>2
<1>3. n \in 1 .. len
  BY <1>1, <1>2
<1>4. CASE "public" \in r.marks
  <2>1. len = 2 /\ cs[1].ask = "status" /\ cs[2].ask = "mode"
    BY <1>1, <1>2, <1>4, CheckAt
  <2>2. n = 1 \/ n = 2
    BY ONLY <1>3, <2>1
  <2>3. (cs[n].ask = "status" \/ cs[n].ask = "mode") /\ ~(n >= 6)
    BY ONLY <2>1, <2>2
  <2>4. QED
    BY ONLY <1>1, <2>3
<1>5. CASE "public" \notin r.marks
  <2>1. /\ len >= 5 /\ cs[1].ask = "user" /\ cs[2].ask = "token branch" /\ cs[3].ask = "token register"
        /\ cs[4].ask = "status" /\ cs[5].ask = "mode"
    BY <1>1, <1>2, <1>5, CheckAt
  <2>2. \A i \in 6 .. len : cs[i] \in WorkChecks
    BY <1>1, <1>2, <1>5, CheckAt
  <2>3. n \in 6 .. len => cs[n].ask # "token register"
    BY <2>2, WorkAsks
  <2>4. n = 1 \/ n = 2 \/ n = 3 \/ n = 4 \/ n = 5 \/ n \in 6 .. len
    BY ONLY <1>2, <1>3
  <2>5. cs[n].ask \in {"user", "token branch", "token register", "status", "mode"} \/ (cs[n] \in WorkChecks /\ n >= 6)
    <3>1. n \in 6 .. len => cs[n] \in WorkChecks /\ n >= 6
      BY ONLY <2>2, <1>2
    <3>2. n \notin 6 .. len => cs[n].ask = "user" \/ cs[n].ask = "token branch" \/ cs[n].ask = "token register"
                                 \/ cs[n].ask = "status" \/ cs[n].ask = "mode"
      BY ONLY <2>1, <2>4
    <3>3. QED
      BY ONLY <3>1, <3>2
  <2>6. cs[n].ask = "token register" => n = 3
    BY ONLY <2>1, <2>3, <2>4
  <2>7. QED
    BY ONLY <1>1, <1>5, <2>1, <2>5, <2>6
<1>6. QED
  BY <1>4, <1>5

\* What each check asks.
LEMMA PassesAre ==
    ASSUME NEW c, NEW r, NEW t, NEW b, Passes(c, r, t, b)
    PROVE  /\ c.ask = "user" => users[t.user].active /\ t.signed >= users[t.user].changes
           /\ c.ask = "token branch" => (t.branch # None => t.branch \in users[t.user].branches)
           /\ c.ask = "token register" => (t.register # None => registers[t.register].open)
           /\ c.ask = "status" => StatusAllows(r)
           /\ c.ask = "admin" => t.user = Owner
           /\ c.ask = "branch" => (t.user = Owner /\ b \in users[t.user].branches) \/ t.branch = b
           /\ c.ask = "access" => b \in users[t.user].branches
           /\ c.ask = "permission" => t.user = Owner \/ users[t.user].permissions \cap c.of # {}
           /\ c.ask = "register" => t.register # None
           /\ c.ask = "drawer" => t.register # None /\ t.branch = b
<1>1. CASE c.ask = "user"
  BY <1>1 DEF Passes, UserStands
<1>2. CASE c.ask = "token branch"
  BY <1>2 DEF Passes
<1>3. CASE c.ask = "token register"
  BY <1>3 DEF Passes
<1>4. CASE c.ask = "status"
  BY <1>4 DEF Passes
<1>5. CASE c.ask = "admin"
  BY <1>5 DEF Passes, Role
<1>6. CASE c.ask = "branch"
  BY <1>6 DEF Passes, RequireBranch, Role
<1>7. CASE c.ask = "access"
  BY <1>7 DEF Passes
<1>8. CASE c.ask = "permission"
  BY <1>8 DEF Passes, MayPass, Role
<1>9. CASE c.ask = "register"
  BY <1>9 DEF Passes
<1>10. CASE c.ask = "drawer"
  BY <1>10 DEF Passes
<1>11. QED
  BY <1>1, <1>2, <1>3, <1>4, <1>5, <1>6, <1>7, <1>8, <1>9, <1>10

\* A register that is open is its user's.
LEMMA OpenIsTheirs ==
    ASSUME NEW t, TokenFits(t), t.register # None, registers[t.register].open
    PROVE  t.register \in OpenOf(t.user) /\ registers[t.register].branch = t.branch
BY DEF TokenFits, OpenOf

LEMMA PassedShows ==
    ASSUME AccessTypes, ChecksShown, InFlight, ~Allowed, Passes(NextCheck, request.route, token, request.branch)
    PROVE  Shown(NextCheck)
<1> DEFINE n == request.at + 1
           c == NextCheck
           r == request.route
           b == request.branch
<1>1. /\ r \in Routes /\ b \in Branches /\ b # None /\ TokenFits(token)
      /\ n \in 1 .. Len(r.checks) /\ c = r.checks[n]
  <2>1. /\ r \in Routes /\ b \in Branches /\ TokenFits(token) /\ request.at \in 0 .. Len(r.checks)
        /\ request.at # Len(r.checks)
    BY DEF AccessTypes, Allowed, Checks
  <2>2. Len(r.checks) \in Nat
    <3>1. r.checks \in Seq(GuardChecks \cup WorkChecks)
      BY <2>1, CheckAt
    <3>2. QED
      BY ONLY <3>1
  <2>3. b # None
    BY <2>1, AccessAssumption DEF AccessAssumption
  <2>4. n \in 1 .. Len(r.checks)
    BY <2>1, <2>2
  <2>5. QED
    BY <2>1, <2>3, <2>4 DEF NextCheck, Checks
<1>2. RightsNow(token, b) \subseteq held /\ \A i \in 1 .. n - 1 : Shown(r.checks[i])
  <2>1. RightsNow(token, b) \subseteq held /\ \A i \in 1 .. request.at : Shown(r.checks[i])
    BY DEF ChecksShown, Checks
  <2>2. n - 1 = request.at
    BY DEF AccessTypes
  <2>3. QED
    BY <2>1, <2>2
<1>3. /\ c.ask = "user" => users[token.user].active /\ token.signed >= users[token.user].changes
      /\ c.ask = "token branch" => (token.branch # None => token.branch \in users[token.user].branches)
      /\ c.ask = "token register" => (token.register # None => registers[token.register].open)
      /\ c.ask = "status" => StatusAllows(r)
      /\ c.ask = "admin" => token.user = Owner
      /\ c.ask = "branch" => (token.user = Owner /\ b \in users[token.user].branches) \/ token.branch = b
      /\ c.ask = "access" => b \in users[token.user].branches
      /\ c.ask = "permission" => token.user = Owner \/ users[token.user].permissions \cap c.of # {}
      /\ c.ask = "register" => token.register # None
      /\ c.ask = "drawer" => token.register # None /\ token.branch = b
  BY PassesAre
<1>4. /\ users[token.user].active => "active" \in held
      /\ token.signed >= users[token.user].changes => "password" \in held
      /\ b \in users[token.user].branches => "access" \in held
      /\ b \in users[token.user].branches
           /\ (token.user = Owner \/ \E i \in OpenOf(token.user) : registers[i].branch = b) => "branch" \in held
      /\ \A i \in OpenOf(token.user) : "register" \in held /\ (registers[i].branch = b => "drawer" \in held)
      /\ token.user = Owner => "admin" \in held /\ Permissions \subseteq held
      /\ token.user # Owner => users[token.user].permissions \subseteq held
      /\ ~shut => "changeable" \in held
  BY <1>2, Rights
<1> HIDE DEF n, c, r, b
<1>5. CASE c.ask = "user"
  BY <1>3, <1>4, <1>5 DEF Shown, c
<1>6. CASE c.ask = "token branch"
  <2>1. SUFFICES ASSUME token.register # None, token.branch = b, registers[token.register].open PROVE "branch" \in held
    BY <1>6 DEF Shown, c, b
  <2>2. token.register \in OpenOf(token.user) /\ registers[token.register].branch = b
    BY <1>1, <2>1, OpenIsTheirs
  <2>3. QED
    BY <1>1, <1>3, <1>4, <1>6, <2>1, <2>2
<1>7. CASE c.ask = "token register"
  <2>1. SUFFICES ASSUME token.register # None
                 PROVE  "register" \in held /\ (token.branch = b => {"branch", "drawer"} \subseteq held)
    BY <1>7 DEF Shown, c, b
  <2>2. token.register \in OpenOf(token.user) /\ registers[token.register].branch = token.branch /\ registers[token.register].open
    BY <1>1, <1>3, <1>7, <2>1, OpenIsTheirs
  <2>3. "register" \in held /\ (token.branch = b => "drawer" \in held)
    BY <1>4, <2>2
  <2>4. "public" \notin r.marks /\ n = 3
    BY <1>1, <1>7, Places
  <2>5. Shown(r.checks[2]) /\ r.checks[2].ask = "token branch"
    <3>1. r.checks[2].ask = "token branch"
      BY <1>1, <1>7, Places
    <3>2. 2 \in 1 .. n - 1
      BY ONLY <2>4
    <3>3. QED
      BY <1>2, <3>1, <3>2
  <2>6. token.branch = b => "branch" \in held
    BY <2>1, <2>2, <2>5 DEF Shown, b
  <2>7. QED
    BY <2>3, <2>6
<1>8. CASE c.ask = "status"
  <2>1. SUFFICES ASSUME "changeable" \in Needs(r) PROVE "changeable" \in held
    BY <1>8 DEF Shown, c, r
  <2>2. r.call[1] # "GET" /\ r.marks \cap {"whenLocked", "whenUnpaid", "public"} = {}
    <3>1. \A i \in DOMAIN r.checks : r.checks[i].ask \in {"admin", "branch", "access", "register", "drawer"} =>
             r.checks[i].ask # "changeable"
      OBVIOUS
    <3>2. QED
      BY <2>1, <3>1 DEF Needs
  <2>3. StatusAllows(r)
    BY <1>3, <1>8
  <2>4. ~shut
    BY <2>2, <2>3 DEF StatusAllows
  <2>5. QED
    BY <1>4, <2>4
<1>9. CASE c.ask = "mode"
  BY <1>9 DEF Shown, c
<1>10. CASE c \in WorkChecks /\ n >= 6 /\ "public" \notin r.marks
  <2>1. /\ c.ask \in {"admin", "branch", "access", "register", "drawer", "open", "permission"}
        /\ c.ask = "permission" => c.of \subseteq Permissions /\ c.of # {}
    BY <1>10, WorkAsks
  <2>2. Shown(r.checks[3]) /\ r.checks[3].ask = "token register"
    <3>1. r.checks[3].ask = "token register"
      BY <1>1, <1>10, Places
    <3>2. 3 \in 1 .. n - 1
      BY <1>1, <1>10
    <3>3. QED
      BY <1>2, <3>1, <3>2
  <2>3. token.register # None => "register" \in held /\ (token.branch = b => {"branch", "drawer"} \subseteq held)
    BY <2>2 DEF Shown, b
  <2>4. token.branch = b => token.register # None
    BY <1>1 DEF TokenFits
  <2>5. c.ask \in {"admin", "branch", "access", "register", "drawer"} => c.ask \in held
    <3>1. c.ask = "admin" => "admin" \in held
      BY <1>3, <1>4
    <3>2. c.ask = "branch" => "branch" \in held
      BY <1>3, <1>4, <2>3, <2>4
    <3>3. c.ask = "access" => "access" \in held
      BY <1>3, <1>4
    <3>4. c.ask = "register" => "register" \in held
      BY <1>3, <2>3
    <3>5. c.ask = "drawer" => "drawer" \in held
      BY <1>3, <2>3
    <3>6. QED
      BY <3>1, <3>2, <3>3, <3>4, <3>5
  <2>6. c.ask = "permission" => c.of \cap held # {}
    <3>1. SUFFICES ASSUME c.ask = "permission" PROVE c.of \cap held # {}
      OBVIOUS
    <3>2. CASE token.user = Owner
      BY <1>4, <2>1, <3>1, <3>2
    <3>3. CASE token.user # Owner
      BY <1>3, <1>4, <3>1, <3>3
    <3>4. QED
      BY <3>2, <3>3
  <2>7. c.ask = "admin" => token.user = Owner
    BY <1>3
  <2>8. QED
    BY <2>1, <2>5, <2>6, <2>7 DEF Shown, c
<1>11. c.ask \in {"user", "token branch", "token register", "status", "mode"}
         \/ (c \in WorkChecks /\ n >= 6 /\ "public" \notin r.marks)
  BY <1>1, Places
<1>12. QED
  BY <1>5, <1>6, <1>7, <1>8, <1>9, <1>10, <1>11 DEF c

-----------------------------------------------------------------------------
(* What requests carried out leave of the rows.                            *)

\* Rows keep their types, registers are only added and closed, and the owner stands.
RowsMove ==
    /\ users' \in [Users -> UserRow] /\ shut' \in BOOLEAN /\ registers' \in Seq(RegisterRow)
    /\ DOMAIN registers \subseteq DOMAIN registers'
    /\ \A i \in DOMAIN registers : /\ registers'[i].user = registers[i].user /\ registers'[i].branch = registers[i].branch
                                   /\ registers'[i].open => registers[i].open
    /\ OwnerStands'

RowsTyped == users \in [Users -> UserRow] /\ shut \in BOOLEAN /\ registers \in Seq(RegisterRow) /\ OwnerStands

LEMMA RowsRest == RowsTyped /\ UNCHANGED rows => RowsMove
BY DEF RowsTyped, RowsMove, rows, OwnerStands

LEMMA SetUserMoves ==
    ASSUME RowsTyped, NEW u \in Users, NEW row \in UserRow, SetUser(u, row),
           u = Owner => row.active /\ ~row.mustChange /\ row.branches = Branches
    PROVE  RowsMove
<1>1. users' = [users EXCEPT ![u] = row] /\ registers' = registers /\ shut' = shut
  BY DEF SetUser
<1>2. users' \in [Users -> UserRow]
  BY <1>1 DEF RowsTyped
<1>3. OwnerStands'
  BY <1>1 DEF RowsTyped, OwnerStands, Users
<1>4. QED
  BY <1>1, <1>2, <1>3 DEF RowsMove, RowsTyped

LEMMA NewPasswordMoves ==
    ASSUME RowsTyped, NEW u \in Users, NEW mustChange \in BOOLEAN, NewPassword(u, mustChange), u = Owner => ~mustChange
    PROVE  RowsMove
<1> DEFINE row == [users[u] EXCEPT !.changes = @ + 1, !.mustChange = mustChange]
<1>1. SetUser(u, row) /\ users[u] \in UserRow
  BY DEF NewPassword, RowsTyped
<1>2. row \in UserRow /\ row.active = users[u].active /\ row.mustChange = mustChange /\ row.branches = users[u].branches
  <2>1. PICK v \in UserRow : v = users[u]
    BY <1>1
  <2>2. v.active \in BOOLEAN /\ v.changes + 1 \in Nat /\ v.permissions \in SUBSET Permissions /\ v.branches \in SUBSET Branches
    BY DEF UserRow
  <2>3. row = [active |-> v.active, mustChange |-> mustChange, changes |-> v.changes + 1,
               permissions |-> v.permissions, branches |-> v.branches]
    <3>1. row = [v EXCEPT !.changes = @ + 1, !.mustChange = mustChange]
      BY <2>1
    <3> HIDE DEF row
    <3>2. v = [active |-> v.active, mustChange |-> v.mustChange, changes |-> v.changes,
               permissions |-> v.permissions, branches |-> v.branches]
      BY DEF UserRow
    <3>3. QED
      BY <3>1, <3>2
  <2> HIDE DEF row
  <2>4. row \in UserRow
    BY <2>2, <2>3 DEF UserRow
  <2>5. QED
    BY <2>1, <2>3, <2>4
<1>3. u = Owner => row.active /\ ~row.mustChange /\ row.branches = Branches
  BY <1>2 DEF RowsTyped, OwnerStands
<1> HIDE DEF row
<1>4. QED
  BY <1>1, <1>2, <1>3, SetUserMoves

LEMMA CashierMoves ==
    ASSUME RowsTyped, NEW u \in Cashiers, NEW row \in UserRow, SetUser(u, row)
    PROVE  RowsMove
<1>1. u # Owner /\ u \in Users
  BY AccessAssumption DEF AccessAssumption, Users
<1>2. QED
  BY <1>1, SetUserMoves

LEMMA StaffActiveMoves ==
    ASSUME RowsTyped, SetStaffActive
    PROVE  RowsMove
<1>1. PICK u \in Cashiers : SetUser(u, [users[u] EXCEPT !.active = ~@])
  BY DEF SetStaffActive
<1>2. users[u] \in UserRow
  BY DEF RowsTyped, Users
<1>3. [users[u] EXCEPT !.active = ~@] \in UserRow
  BY <1>2 DEF UserRow
<1>4. QED
  BY <1>1, <1>3, CashierMoves

LEMMA CloseRowMoves ==
    ASSUME RowsTyped, NEW i, CloseRow(i)
    PROVE  RowsMove
<1>1. registers' = [registers EXCEPT ![i].open = FALSE] /\ users' = users /\ shut' = shut
  BY DEF CloseRow
<1>2. PICK n \in Nat : registers \in [1 .. n -> RegisterRow] /\ DOMAIN registers = 1 .. n
  BY DEF RowsTyped
<1>3. registers' \in [1 .. n -> RegisterRow]
  BY <1>1, <1>2 DEF RegisterRow
<1>4. registers' \in Seq(RegisterRow) /\ DOMAIN registers' = 1 .. n
  BY <1>3
<1>5. \A j \in 1 .. n : /\ registers'[j].user = registers[j].user /\ registers'[j].branch = registers[j].branch
                        /\ registers'[j].open => registers[j].open
  BY <1>1, <1>2 DEF RegisterRow
<1>6. QED
  BY <1>1, <1>2, <1>4, <1>5 DEF RowsMove, RowsTyped, OwnerStands

LEMMA OpenRegisterMoves ==
    ASSUME RowsTyped, NEW q, q.token.user \in Users, q.branch \in Branches, OpenRegister(q)
    PROVE  /\ RowsMove
           /\ Len(registers) + 1 \in DOMAIN registers'
           /\ registers'[Len(registers) + 1].user = q.token.user /\ registers'[Len(registers) + 1].branch = q.branch
<1>1. PICK row \in RegisterRow : /\ row = [user |-> q.token.user, branch |-> q.branch, open |-> TRUE]
                                 /\ registers' = Append(registers, row)
  BY DEF OpenRegister, RegisterRow
<1>2. users' = users /\ shut' = shut
  BY DEF OpenRegister
<1>3. /\ registers' \in Seq(RegisterRow) /\ DOMAIN registers \subseteq DOMAIN registers'
      /\ \A i \in DOMAIN registers : registers'[i] = registers[i]
      /\ Len(registers) + 1 \in DOMAIN registers' /\ registers'[Len(registers) + 1] = row
  <2>1. registers \in Seq(RegisterRow)
    BY DEF RowsTyped
  <2>2. QED
    BY <1>1, <2>1
<1>4. row.user = q.token.user /\ row.branch = q.branch
  BY <1>1
<1>5. QED
  BY <1>2, <1>3, <1>4 DEF RowsMove, RowsTyped, OwnerStands


LEMMA ShutMoves ==
    ASSUME RowsTyped, NEW value \in BOOLEAN, Shut(value)
    PROVE  RowsMove
BY DEF Shut, RowsTyped, RowsMove, OwnerStands

LEMMA UpdateUserMoves ==
    ASSUME RowsTyped, NEW q, q.token.user = Owner, UpdateUser(q)
    PROVE  RowsMove
<1>1. CASE SetStaffActive
  BY <1>1, StaffActiveMoves
<1>2. ASSUME NEW u \in Cashiers, NEW ps \in Grants, SetUser(u, [users[u] EXCEPT !.permissions = ps])
      PROVE  RowsMove
  <2>1. users[u] \in UserRow /\ ps \in SUBSET Permissions
    BY AccessAssumption DEF RowsTyped, Users, AccessAssumption
  <2>2. [users[u] EXCEPT !.permissions = ps] \in UserRow
    BY <2>1 DEF UserRow
  <2>3. QED
    BY <1>2, <2>2, CashierMoves
<1>3. ASSUME NEW u \in Users, NewPassword(u, u # q.token.user) PROVE RowsMove
  <2>1. (u # q.token.user) \in BOOLEAN /\ (u = Owner => ~(u # q.token.user))
    OBVIOUS
  <2>2. QED
    BY <1>3, <2>1, NewPasswordMoves
<1>4. QED
  BY <1>1, <1>2, <1>3 DEF UpdateUser

LEMMA BranchAccessMoves ==
    ASSUME RowsTyped, NEW q, q.branch \in Branches, GrantUserBranchAccess(q) \/ RevokeUserBranchAccess(q)
    PROVE  RowsMove
<1>1. PICK u \in Cashiers, bs \in SUBSET Branches : SetUser(u, [users[u] EXCEPT !.branches = bs])
  <2>1. \A u \in Cashiers : users[u] \in UserRow
    BY DEF RowsTyped, Users
  <2>2. ASSUME NEW u \in Cashiers, SetUser(u, [users[u] EXCEPT !.branches = @ \cup {q.branch}])
        PROVE  \E bs \in SUBSET Branches : SetUser(u, [users[u] EXCEPT !.branches = bs])
    <3>1. users[u].branches \cup {q.branch} \in SUBSET Branches
      BY <2>1 DEF UserRow
    <3>2. QED
      BY <2>2, <3>1
  <2>3. ASSUME NEW u \in Cashiers, SetUser(u, [users[u] EXCEPT !.branches = @ \ {q.branch}])
        PROVE  \E bs \in SUBSET Branches : SetUser(u, [users[u] EXCEPT !.branches = bs])
    <3>1. users[u].branches \ {q.branch} \in SUBSET Branches
      BY <2>1 DEF UserRow
    <3>2. QED
      BY <2>3, <3>1
  <2>4. QED
    BY <2>2, <2>3 DEF GrantUserBranchAccess, RevokeUserBranchAccess
<1>2. users[u] \in UserRow
  BY DEF RowsTyped, Users
<1>3. [users[u] EXCEPT !.branches = bs] \in UserRow
  BY <1>2 DEF UserRow
<1>4. QED
  BY <1>1, <1>3, CashierMoves

LEMMA CallsDiffer ==
    /\ \A p, s : p # s => Post(p) # Post(s)
    /\ \A p, s : Patch(p) # Post(s) /\ Delete(p) # Post(s) /\ Delete(p) # Patch(s)
BY DEF Post, Patch, Delete

LEMMA EffectMoves ==
    ASSUME RowsTyped, NEW q, q.token.user \in Users, q.branch \in Branches,
           q.route.call = Patch("/users/:id") => q.token.user = Owner, Effect(q)
    PROVE  RowsMove
<1> DEFINE call == q.route.call
<1>1. CASE call = Post("/registers/open")
  BY <1>1, OpenRegisterMoves, CallsDiffer DEF Effect
<1>2. CASE call = Post("/registers/close")
  BY <1>2, CloseRowMoves, CallsDiffer DEF Effect, CloseRegister
<1>3. CASE call = Post("/registers/:id/close")
  BY <1>3, CloseRowMoves, CallsDiffer DEF Effect, CloseRegisterFor
<1>4. CASE call = Post("/auth/change-password")
  <2>1. NewPassword(q.token.user, FALSE)
    BY <1>4, CallsDiffer DEF Effect, ChangePassword
  <2>2. QED
    BY <2>1, NewPasswordMoves
<1>5. CASE call = Post("/auth/recover")
  <2>1. NewPassword(Owner, FALSE) /\ Owner \in Users
    BY <1>5, CallsDiffer DEF Effect, Users
  <2>2. QED
    BY <2>1, NewPasswordMoves
<1>6. CASE call = Post("/accounts/staff-password")
  <2>1. PICK u \in Users : NewPassword(u, u # Owner)
    BY <1>6, CallsDiffer DEF Effect
  <2>2. (u # Owner) \in BOOLEAN /\ (u = Owner => ~(u # Owner))
    OBVIOUS
  <2>3. QED
    BY <2>1, <2>2, NewPasswordMoves
<1>7. CASE call = Post("/accounts/staff-active")
  BY <1>7, StaffActiveMoves, CallsDiffer DEF Effect
<1>8. CASE call = Patch("/users/:id")
  <2>1. UpdateUser(q) /\ q.token.user = Owner
    BY <1>8, CallsDiffer DEF Effect
  <2>2. QED
    BY <2>1, UpdateUserMoves
<1>9. CASE call = Post("/users/:id/branches/:branchId")
  BY <1>9, BranchAccessMoves, CallsDiffer DEF Effect
<1>10. CASE call = Delete("/users/:id/branches/:branchId")
  BY <1>10, BranchAccessMoves, CallsDiffer DEF Effect
<1>11. CASE call = Post("/migration/begin")
  BY <1>11, ShutMoves, CallsDiffer DEF Effect, BeginMove
<1>12. CASE call = Post("/migration/abort")
  BY <1>12, ShutMoves, CallsDiffer DEF Effect
<1>13. CASE call = Post("/billing/checkout")
  BY <1>13, ShutMoves, CallsDiffer DEF Effect
<1>14. CASE /\ call # Post("/registers/open") /\ call # Post("/registers/close") /\ call # Post("/registers/:id/close")
            /\ call # Post("/auth/change-password") /\ call # Post("/auth/recover") /\ call # Post("/accounts/staff-password")
            /\ call # Post("/accounts/staff-active") /\ call # Patch("/users/:id")
            /\ call # Post("/users/:id/branches/:branchId") /\ call # Delete("/users/:id/branches/:branchId")
            /\ call # Post("/migration/begin") /\ call # Post("/migration/abort") /\ call # Post("/billing/checkout")
  BY <1>14, RowsRest, CallsDiffer DEF Effect
<1>15. QED
  BY <1>1, <1>2, <1>3, <1>4, <1>5, <1>6, <1>7, <1>8, <1>9, <1>10, <1>11, <1>12, <1>13, <1>14

\* The token an answer brings names a register of its user's.
LEMMA AnswerFits ==
    ASSUME RowsTyped, NEW q, TokenFits(q.token), q.branch \in Branches, Effect(q), RowsMove, token' = TokenAfter(q)
    PROVE  TokenFits(token)'
<1> DEFINE call == q.route.call
           t == q.token
<1>1. PICK n \in Nat : n = users[t.user].changes
  <2>1. t.user \in Users
    BY DEF TokenFits
  <2>2. users[t.user] \in UserRow
    BY <2>1 DEF RowsTyped
  <2>3. QED
    BY <2>2 DEF UserRow
<1>2. TokenFits(t)'
  BY DEF TokenFits, RowsMove
<1>3. CASE call = Post("/registers/open")
  <2>1. token' = SignToken(t.user, q.branch, Len(registers) + 1) /\ OpenRegister(q)
    BY <1>3, CallsDiffer DEF TokenAfter, Effect
  <2>2. PICK m \in Nat : m = Len(registers) + 1
    BY DEF RowsTyped
  <2>3. m \in DOMAIN registers' /\ registers'[m].user = t.user /\ registers'[m].branch = q.branch
    BY <2>1, <2>2, OpenRegisterMoves DEF TokenFits
  <2>4. token' = [user |-> t.user, branch |-> q.branch, register |-> m, signed |-> n]
    BY <1>1, <2>1, <2>2 DEF SignToken
  <2>5. m # None
    BY <2>2 DEF RowsTyped, None
  <2>6. t.user \in Users
    BY DEF TokenFits
  <2>7. QED
    BY <1>1, <2>2, <2>3, <2>4, <2>5, <2>6 DEF TokenFits
<1>4. CASE call = Post("/registers/close")
  <2>1. token' = SignToken(t.user, None, None)
    BY <1>4, CallsDiffer DEF TokenAfter
  <2>2. token' = [user |-> t.user, branch |-> None, register |-> None, signed |-> n]
    BY <1>1, <2>1 DEF SignToken
  <2>3. QED
    BY <1>1, <2>2 DEF TokenFits
<1>5. CASE call = Post("/auth/change-password")
  <2>1. token' = [t EXCEPT !.signed = n + 1]
    BY <1>1, <1>5, CallsDiffer DEF TokenAfter
  <2>2. token' = [user |-> t.user, branch |-> t.branch, register |-> t.register, signed |-> n + 1]
    BY <2>1 DEF TokenFits
  <2>3. QED
    BY <1>1, <1>2, <2>2 DEF TokenFits
<1>6. CASE call # Post("/registers/open") /\ call # Post("/registers/close") /\ call # Post("/auth/change-password")
  <2>1. token' = t
    BY <1>6 DEF TokenAfter
  <2>2. QED
    BY <1>2, <2>1 DEF TokenFits
<1>7. QED
  BY <1>3, <1>4, <1>5, <1>6

-----------------------------------------------------------------------------
(* Every step keeps what has been shown.                                   *)

LEMMA GreatestThere ==
    ASSUME NEW n \in Nat, NEW S, S \subseteq 1 .. n, S # {}
    PROVE  \E i \in S : \A j \in S : j <= i
<1> DEFINE T == {n - i : i \in S}
<1>1. T \subseteq Nat /\ T # {}
  <2>1. ASSUME NEW i \in S PROVE n - i \in Nat
    <3>1. i \in 1 .. n
      OBVIOUS
    <3>2. QED
      BY <3>1
  <2>2. QED
    BY <2>1
<1>2. PICK d \in T : \A e \in T : ~(<<e, d>> \in OpToRel(<, Nat))
  BY <1>1, NatLessThanWellFounded, WFMin
<1>3. PICK i \in S : d = n - i
  OBVIOUS
<1>4. ASSUME NEW j \in S PROVE j <= i
  <2>1. ~(n - j < d) /\ n - j \in Nat /\ d \in Nat
    BY <1>1, <1>2 DEF OpToRel
  <2>2. QED
    BY <1>3, <2>1
<1>5. QED
  BY <1>4

\* Signing in brings a token of the user's, with the register left open if there is one.
LEMMA LoginFits ==
    ASSUME RowsTyped, NEW u \in Users
    PROVE  /\ TokenFits(LoginToken(u)) /\ LoginToken(u).user = u /\ LoginToken(u).signed = users[u].changes
           /\ LoginToken(u).register # None => LoginToken(u).register \in OpenOf(u)
<1>1. PICK n \in Nat : n = users[u].changes
  BY DEF RowsTyped, UserRow
<1>2. PICK len \in Nat : DOMAIN registers = 1 .. len /\ registers \in [1 .. len -> RegisterRow]
  BY DEF RowsTyped
<1>3. CASE OpenOf(u) = {}
  <2>1. LoginToken(u) = [user |-> u, branch |-> None, register |-> None, signed |-> n]
    BY <1>1, <1>3 DEF LoginToken, SignToken
  <2>2. QED
    BY <1>1, <2>1 DEF TokenFits
<1>4. CASE OpenOf(u) # {}
  <2>1. OpenOf(u) \subseteq 1 .. len
    BY <1>2 DEF OpenOf
  <2>2. \E i \in OpenOf(u) : \A j \in OpenOf(u) : j <= i
    BY <1>4, <2>1, GreatestThere
  <2>3. PICK last : last = CHOOSE i \in OpenOf(u) : \A j \in OpenOf(u) : j <= i
    OBVIOUS
  <2>4. last \in OpenOf(u)
    BY <2>2, <2>3
  <2>5. LoginToken(u) = SignToken(u, registers[last].branch, last)
    BY <1>4, <2>3 DEF LoginToken
  <2>6. LoginToken(u) = [user |-> u, branch |-> registers[last].branch, register |-> last, signed |-> n]
    BY <1>1, <2>5 DEF SignToken
  <2>7. last \in 1 .. len /\ registers[last] \in RegisterRow /\ registers[last].user = u
    BY <1>2, <2>1, <2>4 DEF OpenOf
  <2>8. registers[last].branch \in Branches /\ last # None
    BY <2>7 DEF RegisterRow, None
  <2>9. QED
    BY <1>1, <1>2, <2>4, <2>6, <2>7, <2>8 DEF TokenFits
<1>5. QED
  BY <1>3, <1>4

LEMMA NamedBranches == \A r : Named(r) \subseteq Branches
BY AccessAssumption DEF Named, AccessAssumption

LEMMA Typed == AccessTypes /\ OwnerStands => RowsTyped
BY DEF AccessTypes, RowsTyped

LEMMA ShownStays ==
    ASSUME NEW c, Shown(c), token' = token, request'.branch = request.branch, request'.route = request.route,
           held \subseteq held',
           token.register # None => (registers'[token.register].open => registers[token.register].open)
    PROVE  Shown(c)'
<1>1. c.ask = "user" => {"active", "password"} \subseteq held'
  BY DEF Shown
<1>2. c.ask = "token branch" /\ token'.register # None /\ token'.branch = request'.branch /\ registers'[token'.register].open =>
          "branch" \in held'
  BY DEF Shown
<1>3. c.ask = "token register" /\ token'.register # None =>
          "register" \in held' /\ (token'.branch = request'.branch => {"branch", "drawer"} \subseteq held')
  BY DEF Shown
<1>4. c.ask = "status" /\ "changeable" \in Needs(request'.route) => "changeable" \in held'
  BY DEF Shown
<1>5. c.ask \in {"admin", "branch", "access", "register", "drawer"} => c.ask \in held'
  BY DEF Shown
<1>6. c.ask = "admin" => token'.user = Owner
  BY DEF Shown
<1>7. c.ask = "permission" => c.of \cap held' # {}
  BY DEF Shown
<1>8. QED
  BY <1>1, <1>2, <1>3, <1>4, <1>5, <1>6, <1>7 DEF Shown

LEMMA SignInKept ==
    ASSUME AccessInv, SignIn
    PROVE  AccessInv'
<1>1. PICK u \in Users : token' = LoginToken(u)
  BY DEF SignIn
<1>2. TokenFits(token')
  BY <1>1, LoginFits, Typed DEF AccessInv
<1>3. request' = NoRequest /\ UNCHANGED <<offline, shut, users, registers, held>>
  BY DEF SignIn, rows
<1>4. TokenFits(token)'
  BY <1>2, <1>3 DEF TokenFits
<1>5. ~InFlight'
  BY <1>3 DEF InFlight
<1>6. AccessTypes'
  BY <1>3, <1>4, <1>5 DEF AccessInv, AccessTypes
<1>7. QED
  BY <1>3, <1>5, <1>6 DEF AccessInv, ChecksShown, OwnerStands

LEMMA ChecksCounted == \A r \in Routes : Len(r.checks) \in Nat
<1>1. \A r \in Routes : r.checks \in Seq(GuardChecks \cup WorkChecks)
  BY CheckAt
<1>2. QED
  BY ONLY <1>1

LEMMA CallKept ==
    ASSUME AccessInv, Call
    PROVE  AccessInv'
<1>0. PICK r \in Asked : \E b \in Named(r) : request' = [at |-> 0, route |-> r, branch |-> b, token |-> token]
  BY DEF Call
<1>1. PICK b \in Named(r) : request' = [at |-> 0, route |-> r, branch |-> b, token |-> token]
  BY <1>0
<1>2. r \in Routes /\ b \in Branches
  BY NamedBranches, AccessAssumption DEF AccessAssumption
<1>3. request'.at = 0 /\ request'.route = r /\ request'.branch = b /\ token # SignedOut
  BY <1>1 DEF Call
<1>4. UNCHANGED <<offline, shut, users, registers, token>> /\ held' = RightsNow(token, b)
  BY <1>3 DEF Call, rows
<1>5. Checks' = r.checks /\ 0 \in 0 .. Len(r.checks)
  BY <1>2, <1>3, ChecksCounted DEF Checks
<1>6. request' = [at |-> request'.at, route |-> request'.route, branch |-> request'.branch, token |-> token]
  BY <1>1, <1>3
<1>7. TokenFits(token)'
  BY <1>3, <1>4 DEF AccessInv, AccessTypes, TokenFits
<1>8. AccessTypes'
  BY <1>2, <1>3, <1>4, <1>5, <1>6, <1>7 DEF AccessInv, AccessTypes
<1>9. RightsNow(token, request.branch)' = RightsNow(token, b)
  BY <1>3, <1>4 DEF RightsNow, OpenOf
<1>10. ChecksShown'
  BY <1>3, <1>4, <1>9 DEF ChecksShown
<1>11. OwnerStands'
  BY <1>4 DEF AccessInv, OwnerStands
<1>12. QED
  BY <1>8, <1>10, <1>11 DEF AccessInv

LEMMA PassCheckKept ==
    ASSUME AccessInv, PassCheck
    PROVE  AccessInv'
<1>1. /\ InFlight /\ ~Allowed /\ Passes(NextCheck, request.route, token, request.branch)
      /\ UNCHANGED <<offline, shut, users, registers, token, held>>
  BY DEF PassCheck, rows
<1>2. PICK n \in Nat : n = request.at + 1 /\ request.at \in Nat /\ n \in 1 .. Len(Checks)
  <2>1. request.at \in 0 .. Len(Checks) /\ request.at # Len(Checks) /\ Len(Checks) \in Nat
    BY <1>1, ChecksCounted DEF AccessInv, AccessTypes, Allowed, Checks
  <2>2. QED
    BY <2>1
<1>3. request' = [at |-> n, route |-> request.route, branch |-> request.branch, token |-> token]
  <2>1. request = [at |-> request.at, route |-> request.route, branch |-> request.branch, token |-> token]
    BY <1>1 DEF AccessInv, AccessTypes
  <2>2. request' = [request EXCEPT !.at = n]
    BY <1>2 DEF PassCheck
  <2>3. QED
    BY <2>1, <2>2
<1>4. request'.at = n /\ request'.route = request.route /\ request'.branch = request.branch /\ Checks' = Checks
  BY <1>3 DEF Checks
<1>5. request' = [at |-> request'.at, route |-> request'.route, branch |-> request'.branch, token |-> token]
  BY <1>3, <1>4
<1>6. TokenFits(token)' /\ token # SignedOut
  BY <1>1 DEF AccessInv, AccessTypes, TokenFits
<1>7. AccessTypes'
  <2>1. n \in 0 .. Len(Checks)
    BY <1>2
  <2>2. QED
    BY <1>1, <1>4, <1>5, <1>6, <2>1 DEF AccessInv, AccessTypes
<1>8. Shown(NextCheck)
  BY <1>1, PassedShows DEF AccessInv
<1>9. \A c : Shown(c) => Shown(c)'
  BY <1>1, <1>4, ShownStays
<1>10. \A i \in 1 .. n : Shown(Checks[i])
  <2>1. \A i \in 1 .. request.at : Shown(Checks[i])
    BY <1>1 DEF AccessInv, ChecksShown
  <2>2. Checks[n] = NextCheck
    BY <1>2 DEF NextCheck
  <2>3. \A i \in 1 .. n : i = n \/ i \in 1 .. request.at
    BY <1>2
  <2>4. QED
    BY <1>8, <2>1, <2>2, <2>3
<1>11. RightsNow(token, request.branch)' = RightsNow(token, request.branch)
  BY <1>1, <1>4 DEF RightsNow, OpenOf
<1>12. ChecksShown'
  BY <1>1, <1>4, <1>9, <1>10, <1>11 DEF AccessInv, ChecksShown
<1>13. OwnerStands'
  BY <1>1 DEF AccessInv, OwnerStands
<1>14. QED
  BY <1>7, <1>12, <1>13 DEF AccessInv

LEMMA TurnAwayKept ==
    ASSUME AccessInv, TurnAway
    PROVE  AccessInv'
<1>1. request' = NoRequest /\ UNCHANGED <<offline, shut, users, registers, token>>
  BY DEF TurnAway, rows
<1>2. ~InFlight'
  BY <1>1 DEF InFlight
<1>3. AccessTypes'
  BY <1>1, <1>2 DEF AccessInv, AccessTypes, TokenFits
<1>4. QED
  BY <1>1, <1>2, <1>3 DEF AccessInv, ChecksShown, OwnerStands

LEMMA SubscriptionEndsKept ==
    ASSUME AccessInv, SubscriptionEnds
    PROVE  AccessInv'
<1>1. shut' = TRUE /\ ~shut /\ UNCHANGED <<offline, users, registers, token, request, held>>
  BY DEF SubscriptionEnds
<1>2. AccessTypes'
  BY <1>1 DEF AccessInv, AccessTypes, TokenFits, InFlight, Checks
<1>3. RightsNow(token, request.branch)' \subseteq RightsNow(token, request.branch)
  <2>1. {"changeable" : x \in {s \in {shut'} : ~s}} = {}
    BY <1>1
  <2>2. RightsNow(token, request.branch)' =
          {"active" : x \in {u \in {token.user} : users[u].active}}
            \cup {"password" : x \in {u \in {token.user} : token.signed >= users[u].changes}}
            \cup {"branch" : x \in {u \in {token.user} :
                    /\ request.branch \in users[u].branches
                    /\ u = Owner \/ \E i \in OpenOf(u) : registers[i].branch = request.branch}}
            \cup {"access" : x \in {u \in {token.user} : request.branch \in users[u].branches}}
            \cup {"register" : x \in OpenOf(token.user)}
            \cup {"drawer" : x \in {i \in OpenOf(token.user) : registers[i].branch = request.branch}}
            \cup {"admin" : x \in {token.user} \cap {Owner}}
            \cup {"changeable" : x \in {s \in {shut'} : ~s}}
            \cup (IF token.user = Owner THEN Permissions ELSE users[token.user].permissions)
    BY <1>1 DEF RightsNow, OpenOf
  <2>3. QED
    BY <2>1, <2>2 DEF RightsNow
<1>4. \A c : Shown(c) => Shown(c)'
  BY <1>1, ShownStays
<1>5. ChecksShown'
  BY <1>1, <1>3, <1>4 DEF AccessInv, ChecksShown, InFlight, Checks
<1>6. QED
  BY <1>1, <1>2, <1>5 DEF AccessInv, OwnerStands

\* A request through every check of a call that is an admin's is the owner's.
LEMMA OwnersCall ==
    ASSUME AccessInv, Allowed, request.route.call = Patch("/users/:id")
    PROVE  token.user = Owner
<1>1. request.route \in Routes /\ request.at = Len(Checks) /\ InFlight
  BY DEF AccessInv, AccessTypes, Allowed
<1>2. PICK i \in 1 .. Len(Checks) : Checks[i] = Admin
  BY <1>1, CheckAt DEF Checks
<1>3. Shown(Admin)
  BY <1>1, <1>2 DEF AccessInv, ChecksShown
<1>4. Admin.ask = "admin"
  BY DEF Admin, Check
<1>5. QED
  BY <1>3, <1>4 DEF Shown

LEMMA CarryOutKept ==
    ASSUME AccessInv, CarryOut
    PROVE  AccessInv'
<1>1. Allowed /\ InFlight /\ request' = NoRequest /\ UNCHANGED offline
  BY DEF CarryOut, Allowed
<1>2. ~InFlight'
  BY <1>1 DEF InFlight
<1>3. TokenFits(token) /\ request.token = token /\ request.branch \in Branches /\ RowsTyped
  BY <1>1, Typed DEF AccessInv, AccessTypes
<1>4. CASE Effect(request) /\ token' = TokenAfter(request)
  <2>1. token.user \in Users
    BY <1>3 DEF TokenFits
  <2>2. request.route.call = Patch("/users/:id") => token.user = Owner
    BY <1>1, OwnersCall
  <2>3. RowsMove
    BY <1>3, <1>4, <2>1, <2>2, EffectMoves
  <2>4. TokenFits(token)'
    BY <1>3, <1>4, <2>3, AnswerFits
  <2>5. AccessTypes'
    BY <1>1, <1>2, <2>3, <2>4 DEF AccessInv, AccessTypes, RowsMove
  <2>6. QED
    BY <1>2, <2>3, <2>5 DEF AccessInv, ChecksShown, RowsMove
<1>5. CASE UNCHANGED <<rows, token>>
  <2>1. UNCHANGED <<shut, users, registers, token>>
    BY <1>5 DEF rows
  <2>2. AccessTypes'
    BY <1>1, <1>2, <2>1 DEF AccessInv, AccessTypes, TokenFits
  <2>3. QED
    BY <1>2, <2>1, <2>2 DEF AccessInv, ChecksShown, OwnerStands
<1>6. QED
  BY <1>4, <1>5 DEF CarryOut

LEMMA MeanwhileKept ==
    ASSUME AccessInv, Meanwhile
    PROVE  AccessInv'
<1>1. UNCHANGED <<offline, token, request>> /\ held' = IF InFlight THEN held \cup RightsNow(token, request.branch)' ELSE held
  BY DEF Meanwhile
<1>2. PICK r \in Changing, u \in Users :
        \E b \in Named(r) : LetIn(r, u, b) /\ Effect([route |-> r, branch |-> b, token |-> LoginToken(u)])
  BY DEF Meanwhile
<1>3. PICK b \in Named(r) : LetIn(r, u, b) /\ Effect([route |-> r, branch |-> b, token |-> LoginToken(u)])
  BY <1>2
<1>4. PICK q : q = [route |-> r, branch |-> b, token |-> LoginToken(u)]
  OBVIOUS
<1>5. q.route = r /\ q.branch = b /\ q.token = LoginToken(u) /\ Effect(q)
  BY <1>3, <1>4
<1>6. r \in Routes /\ b \in Branches /\ RowsTyped
  BY NamedBranches, Typed, AccessAssumption DEF AccessAssumption, AccessInv
<1>7. LoginToken(u).user = u
  BY <1>6, LoginFits
<1>8. r.call = Patch("/users/:id") => u = Owner
  <2>1. SUFFICES ASSUME r.call = Patch("/users/:id") PROVE u = Owner
    OBVIOUS
  <2>2. PICK i \in 1 .. Len(r.checks) : r.checks[i] = Admin
    BY <1>6, <2>1, CheckAt
  <2>3. i \in DOMAIN r.checks
    <3>1. r.checks \in Seq(GuardChecks \cup WorkChecks)
      BY <1>6, CheckAt
    <3>2. QED
      BY <3>1
  <2>4. Passes(Admin, r, LoginToken(u), b)
    BY <1>3, <2>2, <2>3 DEF LetIn
  <2>5. Admin.ask = "admin"
    BY DEF Admin, Check
  <2>6. QED
    BY <1>7, <2>4, <2>5, PassesAre
<1>9. RowsMove
  BY <1>5, <1>6, <1>7, <1>8, EffectMoves
<1>10. AccessTypes'
  <2>1. token # SignedOut => TokenFits(token)'
    BY <1>1, <1>9 DEF AccessInv, AccessTypes, TokenFits, RowsMove
  <2>2. QED
    BY <1>1, <1>9, <2>1 DEF AccessInv, AccessTypes, RowsMove, InFlight, Checks
<1>11. ChecksShown'
  <2>1. SUFFICES ASSUME InFlight
                 PROVE  /\ RightsNow(token, request.branch)' \subseteq held'
                        /\ \A i \in 1 .. request.at : Shown(Checks[i])'
    BY <1>1 DEF ChecksShown, InFlight, Checks
  <2>2. held' = held \cup RightsNow(token, request.branch)'
    BY <1>1, <2>1
  <2>3. TokenFits(token)
    BY <2>1 DEF AccessInv, AccessTypes
  <2>4. token.register # None => (registers'[token.register].open => registers[token.register].open)
    BY <1>9, <2>3 DEF TokenFits, RowsMove
  <2>5. \A c : Shown(c) => Shown(c)'
    BY <1>1, <2>2, <2>4, ShownStays
  <2>6. Checks' = Checks /\ request' = request
    BY <1>1 DEF Checks
  <2>7. \A i \in 1 .. request.at : Shown(Checks[i])
    BY <2>1 DEF AccessInv, ChecksShown
  <2>8. PICK cs : cs = Checks
    OBVIOUS
  <2>9. \A i \in 1 .. request.at : Shown(cs[i])'
    BY <2>5, <2>7, <2>8
  <2>10. \A i \in 1 .. request.at : Shown(Checks[i])'
    BY <2>6, <2>8, <2>9
  <2>11. QED
    BY <2>2, <2>10
<1>12. QED
  BY <1>9, <1>10, <1>11 DEF AccessInv, RowsMove

\* Whatever is called, by whoever and in any order, what a request has shown so far it was entitled to.
THEOREM AccessInvHolds == AccessSpec => []AccessInv
<1>1. AccessInit => AccessInv
  <2>1. SUFFICES ASSUME AccessInit PROVE AccessInv
    OBVIOUS
  <2>2. ~InFlight
    BY <2>1 DEF AccessInit, InFlight
  <2>3. users \in [Users -> UserRow]
    BY <2>1 DEF AccessInit, UserRow
  <2>4. OwnerStands
    BY <2>1 DEF AccessInit, OwnerStands, Users
  <2>5. AccessTypes
    <3>1. offline \in BOOLEAN /\ shut \in BOOLEAN /\ token = SignedOut /\ registers = <<>>
      BY <2>1 DEF AccessInit
    <3>2. registers \in Seq(RegisterRow)
      BY <3>1
    <3>3. QED
      BY <2>2, <2>3, <3>1, <3>2 DEF AccessTypes
  <2>6. QED
    BY <2>2, <2>4, <2>5 DEF AccessInv, ChecksShown
<1>2. AccessInv /\ [AccessNext]_accessVars => AccessInv'
  <2>1. SUFFICES ASSUME AccessInv, [AccessNext]_accessVars PROVE AccessInv'
    OBVIOUS
  <2>2. CASE UNCHANGED accessVars
    <3>1. UNCHANGED <<offline, shut, users, registers, token, request, held>>
      BY <2>2 DEF accessVars
    <3>2. AccessTypes' /\ OwnerStands'
      BY <2>1, <3>1 DEF AccessInv, AccessTypes, TokenFits, InFlight, Checks, OwnerStands
    <3>3. RightsNow(token, request.branch)' = RightsNow(token, request.branch)
      BY <3>1 DEF RightsNow, OpenOf
    <3>4. \A c : Shown(c) => Shown(c)'
      BY <3>1, ShownStays
    <3>5. ChecksShown'
      BY <2>1, <3>1, <3>3, <3>4 DEF AccessInv, ChecksShown, InFlight, Checks
    <3>6. QED
      BY <3>2, <3>5 DEF AccessInv
  <2>3. QED
    BY <2>1, <2>2, SignInKept, CallKept, PassCheckKept, TurnAwayKept, CarryOutKept, MeanwhileKept, SubscriptionEndsKept
    DEF AccessNext
<1>3. QED
  BY <1>1, <1>2, PTL DEF AccessSpec

\* What every check passed shows together is what the route needs.
LEMMA AllShown ==
    ASSUME AccessInv
    PROVE  RightsHeld
<1> DEFINE r == request.route
           n == Len(Checks)
<1>1. SUFFICES ASSUME Allowed PROVE Entitled(r, held)
  BY DEF RightsHeld
<1>2. r \in Routes /\ Checks = r.checks /\ (\A i \in 1 .. Len(r.checks) : Shown(r.checks[i]))
  BY <1>1 DEF AccessInv, AccessTypes, ChecksShown, Allowed, Checks
<1>3. \A i \in DOMAIN r.checks : i \in 1 .. Len(r.checks)
  <2>1. r.checks \in Seq(GuardChecks \cup WorkChecks)
    BY <1>2, CheckAt
  <2>2. QED
    BY <2>1
<1> HIDE DEF r
<1>4. "public" \notin r.marks => {"active", "password"} \subseteq held /\ ("changeable" \in Needs(r) => "changeable" \in held)
  <2>1. SUFFICES ASSUME "public" \notin r.marks
                 PROVE  {"active", "password"} \subseteq held /\ ("changeable" \in Needs(r) => "changeable" \in held)
    OBVIOUS
  <2>2. PICK cs : cs = r.checks
    OBVIOUS
  <2>3. Len(cs) >= 5 /\ cs[1].ask = "user" /\ cs[4].ask = "status" /\ Len(cs) \in Nat
    BY <1>2, <2>1, <2>2, CheckAt, ChecksCounted
  <2>4. Shown(cs[1]) /\ Shown(cs[4])
    BY <1>2, <2>2, <2>3
  <2>5. QED
    BY <2>3, <2>4 DEF Shown, r
<1>5. "public" \in r.marks => "changeable" \notin Needs(r)
  <2>1. \A i \in DOMAIN r.checks : r.checks[i].ask \in {"admin", "branch", "access", "register", "drawer"} =>
           r.checks[i].ask # "changeable"
    OBVIOUS
  <2>2. QED
    BY <2>1 DEF Needs
<1>6. \A i \in DOMAIN r.checks : r.checks[i].ask \in {"admin", "branch", "access", "register", "drawer"} =>
         r.checks[i].ask \in held
  BY <1>2, <1>3 DEF Shown
<1>7. Needs(r) \subseteq held
  <2>1. SUFFICES ASSUME NEW need \in Needs(r) PROVE need \in held
    OBVIOUS
  <2>2. CASE need \in {"active", "password"}
    <3>1. "public" \notin r.marks
      <4>1. \A i \in DOMAIN r.checks : r.checks[i].ask \in {"admin", "branch", "access", "register", "drawer"} =>
               r.checks[i].ask \notin {"active", "password"}
        OBVIOUS
      <4>2. QED
        BY <2>1, <2>2, <4>1 DEF Needs
    <3>2. QED
      BY <1>4, <2>2, <3>1
  <2>3. CASE need = "changeable"
    BY <1>4, <1>5, <2>1, <2>3
  <2>4. CASE need \notin {"active", "password", "changeable"}
    <3>1. \E i \in DOMAIN r.checks : /\ r.checks[i].ask \in {"admin", "branch", "access", "register", "drawer"}
                                     /\ need = r.checks[i].ask
      BY <2>1, <2>4 DEF Needs
    <3>2. QED
      BY <1>6, <3>1
  <2>5. QED
    BY <2>2, <2>3, <2>4
<1>8. \A ps \in PermissionsAsked(r) : ps \cap held # {}
  BY <1>2, <1>3 DEF PermissionsAsked, Shown
<1>9. QED
  BY <1>7, <1>8 DEF Entitled, r

\* A request that gets through every check had, at some moment since it arrived, all its route asks of its
\* caller, however many users, branches and requests of others come between its checks (AuthGuard,
\* InstanceStatusGuard, AccessService).
THEOREM RightsHeldHolds == AccessSpec => []RightsHeld
<1>1. AccessInv => RightsHeld
  BY AllShown
<1>2. QED
  BY <1>1, AccessInvHolds, PTL

-----------------------------------------------------------------------------
(* The ways out.                                                           *)

LEMMA ServedRoute ==
    ASSUME NEW marks, NEW work, NEW calls, NEW c \in calls
    PROVE  \E r \in Serve(marks, work, calls) : r.call = c
<1> DEFINE r == [call |-> c, marks |-> marks, checks |-> Guards(marks) \o work]
<1>1. r \in Serve(marks, work, calls)
  BY DEF Serve
<1>2. r.call = c
  OBVIOUS
<1> HIDE DEF r
<1>3. QED
  BY <1>1, <1>2

\* Every call a client can make is served by a controller.
LEMMA CallsServed == EveryCallServed
<1> DEFINE There(call) == \E r \in Routes : r.call = call
<1>1. \A call \in metaRoutes : There(call)
  <2>1. \A call \in metaRoutes : \E r \in MetaController : r.call = call
    BY ServedRoute DEF metaRoutes, MetaController
  <2>2. QED
    BY <2>1 DEF Routes
<1>2. \A call \in setupRoutes : There(call)
  <2>1. \A call \in setupRoutes : \E r \in SetupController : r.call = call
    BY ServedRoute DEF setupRoutes, SetupController
  <2>2. QED
    BY <2>1 DEF Routes
<1>3. \A call \in businessesRoutes : There(call)
  <2>1. \A call \in businessesRoutes : \E r \in AccountsController : r.call = call
    <3>1. PICK calls : calls = {Get("/accounts/businesses"), Get("/accounts/businesses/:businessId/staff"),
                         Post("/businesses"), Post("/businesses/import"),
                         Post("/accounts/businesses/:businessId/deletion/code"),
                         Post("/accounts/businesses/:businessId/deletion"),
                         Post("/accounts/businesses/:businessId/deletion/cancel"), Post("/accounts/signup"),
                         Post("/accounts/login"), Post("/accounts/staff-active"),
                         Post("/accounts/staff-password"), Post("/accounts/password-reset"),
                         Post("/accounts/password-reset/confirm")}
      OBVIOUS
    <3>2. \A c \in calls : \E r \in Serve({"public", "online"}, <<>>, calls) : r.call = c
      BY ServedRoute
    <3>3. Post("/businesses") \in calls /\ Serve({"public", "online"}, <<>>, calls) = AccountsController
      BY <3>1 DEF AccountsController
    <3>4. QED
      BY <3>2, <3>3 DEF businessesRoutes
  <2>2. QED
    BY <2>1 DEF Routes
<1>4. \A call \in accountsRoutes : There(call)
  <2>1. \A call \in accountsRoutes : \E r \in AccountsController : r.call = call
    BY ServedRoute DEF accountsRoutes, AccountsController
  <2>2. QED
    BY <2>1 DEF Routes
<1>5. \A call \in authRoutes : There(call)
  <2>1. \A call \in authRoutes : \E r \in AuthController : r.call = call
    BY ServedRoute DEF authRoutes, AuthController
  <2>2. QED
    BY <2>1 DEF Routes
<1>6. \A call \in usersRoutes : There(call)
  <2>1. \A call \in usersRoutes : \E r \in UsersController : r.call = call
    BY ServedRoute DEF usersRoutes, UsersController
  <2>2. QED
    BY <2>1 DEF Routes
<1>7. \A call \in businessRoutes : There(call)
  <2>1. \A call \in businessRoutes : \E r \in SettingsController : r.call = call
    BY ServedRoute DEF businessRoutes, SettingsController
  <2>2. QED
    BY <2>1 DEF Routes
<1>8. \A call \in branchesRoutes : There(call)
  <2>1. \A call \in branchesRoutes : \E r \in BranchesController \cup SettingsController : r.call = call
    BY ServedRoute DEF branchesRoutes, BranchesController, SettingsController
  <2>2. QED
    BY <2>1 DEF Routes
<1>9. \A call \in countersRoutes : There(call)
  <2>1. \A call \in countersRoutes : \E r \in CountersController \cup FallbackController : r.call = call
    BY ServedRoute DEF countersRoutes, CountersController, FallbackController
  <2>2. QED
    BY <2>1 DEF Routes
<1>10. \A call \in registersRoutes : There(call)
  <2>1. \A call \in registersRoutes : \E r \in RegistersController : r.call = call
    <3>1. \A c \in {Post("/registers/open")} :
             \E r \in Serve({}, <<Access>>, {Post("/registers/open")}) : r.call = c
      BY ServedRoute
    <3>2. \A c \in {Get("/registers/current"), Get("/registers/summary")} :
             \E r \in Serve({}, <<>>, {Get("/registers/current"), Get("/registers/summary")}) : r.call = c
      BY ServedRoute
    <3>3. \A c \in {Post("/registers/close")} :
             \E r \in Serve({"whenUnpaid"}, <<Register, Open>>, {Post("/registers/close")}) : r.call = c
      BY ServedRoute
    <3>4. \A c \in {Post("/registers/:id/close")} :
             \E r \in Serve({"whenUnpaid"}, <<Admin, Access>>, {Post("/registers/:id/close")}) : r.call = c
      BY ServedRoute
    <3>5. QED
      BY <3>1, <3>2, <3>3, <3>4 DEF registersRoutes, RegistersController
  <2>2. QED
    BY <2>1 DEF Routes
<1>11. \A call \in customersRoutes : There(call)
  <2>1. \A call \in customersRoutes : \E r \in CustomersController : r.call = call
    BY ServedRoute DEF customersRoutes, CustomersController
  <2>2. QED
    BY <2>1 DEF Routes
<1>12. \A call \in expensesRoutes : There(call)
  <2>1. \A call \in expensesRoutes : \E r \in ExpensesController : r.call = call
    BY ServedRoute DEF expensesRoutes, ExpensesController
  <2>2. QED
    BY <2>1 DEF Routes
<1>13. \A call \in itemGroupsRoutes : There(call)
  <2>1. \A call \in itemGroupsRoutes : \E r \in ItemGroupsController : r.call = call
    <3>1. \A c \in {Get("/item-groups")} :
             \E r \in Serve({}, <<>>, {Get("/item-groups")}) : r.call = c
      BY ServedRoute
    <3>2. \A c \in {Post("/item-groups"), Post("/item-groups/:id/values"), Patch("/item-groups/:id/prices")} :
             \E r \in Serve({}, <<May("MANAGE_ITEMS")>>, {Post("/item-groups"), Post("/item-groups/:id/values"), Patch("/item-groups/:id/prices")}) : r.call = c
      BY ServedRoute
    <3>3. QED
      BY <3>1, <3>2 DEF itemGroupsRoutes, ItemGroupsController
  <2>2. QED
    BY <2>1 DEF Routes
<1>14. \A call \in itemsRoutes : There(call)
  <2>1. \A call \in itemsRoutes : \E r \in ItemsController : r.call = call
    BY ServedRoute DEF itemsRoutes, ItemsController
  <2>2. QED
    BY <2>1 DEF Routes
<1>15. \A call \in stockRoutes : There(call)
  <2>1. \A call \in stockRoutes : \E r \in StockController : r.call = call
    BY ServedRoute DEF stockRoutes, StockController
  <2>2. QED
    BY <2>1 DEF Routes
<1>16. \A call \in transfersRoutes : There(call)
  <2>1. \A call \in transfersRoutes : \E r \in TransfersController : r.call = call
    BY ServedRoute DEF transfersRoutes, TransfersController
  <2>2. QED
    BY <2>1 DEF Routes
<1>17. \A call \in purchasesRoutes : There(call)
  <2>1. \A call \in purchasesRoutes : \E r \in PurchasesController : r.call = call
    BY ServedRoute DEF purchasesRoutes, PurchasesController
  <2>2. QED
    BY <2>1 DEF Routes
<1>18. \A call \in suppliersRoutes : There(call)
  <2>1. \A call \in suppliersRoutes : \E r \in SuppliersController : r.call = call
    BY ServedRoute DEF suppliersRoutes, SuppliersController
  <2>2. QED
    BY <2>1 DEF Routes
<1>19. \A call \in gstRoutes : There(call)
  <2>1. \A call \in gstRoutes : \E r \in GstController : r.call = call
    BY ServedRoute DEF gstRoutes, GstController
  <2>2. QED
    BY <2>1 DEF Routes
<1>20. \A call \in billingRoutes : There(call)
  <2>1. \A call \in billingRoutes : \E r \in BillingController : r.call = call
    BY ServedRoute DEF billingRoutes, BillingController
  <2>2. QED
    BY <2>1 DEF Routes
<1>21. \A call \in auditRoutes : There(call)
  <2>1. \A call \in auditRoutes : \E r \in AuditController : r.call = call
    BY ServedRoute DEF auditRoutes, AuditController
  <2>2. QED
    BY <2>1 DEF Routes
<1>22. \A call \in reportsRoutes : There(call)
  <2>1. \A call \in reportsRoutes : \E r \in ReportsController : r.call = call
    BY ServedRoute DEF reportsRoutes, ReportsController
  <2>2. QED
    BY <2>1 DEF Routes
<1>23. \A call \in salesRoutes : There(call)
  <2>1. \A call \in salesRoutes : \E r \in SalesController \cup ReturnsController : r.call = call
    BY ServedRoute DEF salesRoutes, SalesController, ReturnsController
  <2>2. QED
    BY <2>1 DEF Routes
<1>24. \A call \in receiptsRoutes : There(call)
  <2>1. \A call \in receiptsRoutes : \E r \in SalesController : r.call = call
    BY ServedRoute DEF receiptsRoutes, SalesController
  <2>2. QED
    BY <2>1 DEF Routes
<1>25. \A call \in returnsRoutes : There(call)
  <2>1. \A call \in returnsRoutes : \E r \in ReturnsController : r.call = call
    BY ServedRoute DEF returnsRoutes, ReturnsController
  <2>2. QED
    BY <2>1 DEF Routes
<1> HIDE DEF There
<1>26. \A call \in appContract : There(call)
  BY <1>1, <1>2, <1>3, <1>4, <1>5, <1>6, <1>7, <1>8, <1>9, <1>10, <1>11, <1>12, <1>13, <1>14, <1>15, <1>16, <1>17, <1>18, <1>19, <1>20, <1>21, <1>22, <1>23, <1>24, <1>25 DEF appContract
<1>27. QED
  BY <1>26 DEF There, EveryCallServed, Serving

\* What lets each check pass.
LEMMA PassesIf ==
    ASSUME NEW c, NEW r, NEW t, NEW b
    PROVE  /\ c.ask = "user" /\ UserStands(t, r.marks) => Passes(c, r, t, b)
           /\ c.ask = "token branch" /\ (t.branch # None => t.branch \in users[t.user].branches) => Passes(c, r, t, b)
           /\ c.ask = "token register" /\ (t.register # None => registers[t.register].open) => Passes(c, r, t, b)
           /\ c.ask = "status" /\ StatusAllows(r) => Passes(c, r, t, b)
           /\ c.ask = "mode" /\ ModeAllows(r) => Passes(c, r, t, b)
           /\ c.ask = "admin" /\ t.user = Owner => Passes(c, r, t, b)
           /\ c.ask = "access" /\ b \in users[t.user].branches => Passes(c, r, t, b)
<1>1. c.ask = "user" /\ UserStands(t, r.marks) => Passes(c, r, t, b)
  BY DEF Passes
<1>2. c.ask = "token branch" /\ (t.branch # None => t.branch \in users[t.user].branches) => Passes(c, r, t, b)
  BY DEF Passes
<1>3. c.ask = "token register" /\ (t.register # None => registers[t.register].open) => Passes(c, r, t, b)
  BY DEF Passes
<1>4. c.ask = "status" /\ StatusAllows(r) => Passes(c, r, t, b)
  BY DEF Passes
<1>5. c.ask = "mode" /\ ModeAllows(r) => Passes(c, r, t, b)
  BY DEF Passes
<1>6. c.ask = "admin" /\ t.user = Owner => Passes(c, r, t, b)
  BY DEF Passes, Role
<1>7. c.ask = "access" /\ b \in users[t.user].branches => Passes(c, r, t, b)
  BY DEF Passes
<1>8. QED
  BY <1>1, <1>2, <1>3, <1>4, <1>5, <1>6, <1>7

\* A user whose branches are as they were at the last opening of a register gets through the guards.
LEMMA GetsThrough ==
    ASSUME RowsTyped, NEW u \in Users, NEW r, NEW b, NEW work \in Seq(WorkChecks),
           r.checks = Guards(r.marks) \o work, "public" \notin r.marks,
           users[u].active, ~Stranded(u), users[u].mustChange => "beforeChange" \in r.marks,
           StatusAllows(r), ModeAllows(r), \A i \in DOMAIN work : Passes(work[i], r, LoginToken(u), b)
    PROVE  LetIn(r, u, b)
<1> DEFINE All == GuardChecks \cup WorkChecks
<1>a. PICK t : t = LoginToken(u)
  OBVIOUS
<1>b. PICK g : g = Guards(r.marks)
  OBVIOUS
<1>1. TokenFits(t) /\ t.user = u /\ t.signed = users[u].changes /\ (t.register # None => t.register \in OpenOf(u))
  BY <1>a, LoginFits
<1>2. PICK n \in Nat : n = users[u].changes
  BY DEF RowsTyped, UserRow
<1>3. UserStands(t, r.marks)
  BY <1>1, <1>2 DEF UserStands
<1>4. t.branch # None => t.branch \in users[u].branches
  BY <1>1 DEF TokenFits, Stranded
<1>5. t.register # None => registers[t.register].open
  BY <1>1 DEF OpenOf
<1>6. /\ Len(g) = 5 /\ g[1] = Check("user", {}) /\ g[2] = Check("token branch", {})
      /\ g[3] = Check("token register", {}) /\ g[4] = Check("status", {}) /\ g[5] = Check("mode", {})
  BY <1>b, GuardsAre
<1> DEFINE Passed(c) == Passes(c, r, t, b)
<1>7. /\ \A c : c.ask = "user" => Passed(c)
      /\ \A c : c.ask = "token branch" => Passed(c)
      /\ \A c : c.ask = "token register" => Passed(c)
      /\ \A c : c.ask = "status" => Passed(c)
      /\ \A c : c.ask = "mode" => Passed(c)
  <2>1. \A c : c.ask = "user" => Passed(c)
    <3>1. SUFFICES ASSUME NEW c, c.ask = "user" PROVE Passes(c, r, t, b)
      OBVIOUS
    <3>2. QED
      BY ONLY <1>3, <3>1, PassesIf
  <2>2. \A c : c.ask = "token branch" => Passed(c)
    BY <1>1, <1>4, PassesIf
  <2>3. \A c : c.ask = "token register" => Passed(c)
    BY <1>5, PassesIf
  <2>4. \A c : c.ask = "status" => Passed(c)
    BY PassesIf
  <2>5. \A c : c.ask = "mode" => Passed(c)
    BY PassesIf
  <2>6. QED
    BY <2>1, <2>2, <2>3, <2>4, <2>5
<1>8. Passed(g[1]) /\ Passed(g[2]) /\ Passed(g[3]) /\ Passed(g[4]) /\ Passed(g[5])
  <2>1. /\ g[1].ask = "user" /\ g[2].ask = "token branch" /\ g[3].ask = "token register" /\ g[4].ask = "status"
        /\ g[5].ask = "mode"
    BY ONLY <1>6, AskOf
  <2> HIDE DEF Passed
  <2>2. QED
    BY ONLY <1>7, <2>1
<1>12. g \in Seq(All) /\ work \in Seq(All)
  <2>1. GuardChecks \subseteq All /\ WorkChecks \subseteq All /\ g \in Seq(GuardChecks)
    BY <1>b, GuardsAre
  <2> HIDE DEF All
  <2>2. QED
    BY <2>1
<1>13. \A i \in DOMAIN work : Passed(work[i])
  BY <1>a
<1> HIDE DEF Passed, All
<1>14. PICK cs : cs = r.checks
  OBVIOUS
<1>15. cs = g \o work
  BY <1>14, <1>b
<1>16. /\ cs \in Seq(All) /\ Len(cs) = Len(g) + Len(work)
       /\ \A i \in 1 .. Len(g) : cs[i] = g[i]
       /\ \A i \in 1 .. Len(work) : cs[Len(g) + i] = work[i]
  BY <1>12, <1>15, Following
<1>17. PICK m \in Nat : m = Len(work) /\ DOMAIN work = 1 .. m /\ DOMAIN cs = 1 .. 5 + m
  <2>1. Len(work) \in Nat /\ DOMAIN work = 1 .. Len(work)
    OBVIOUS
  <2>2. DOMAIN cs = 1 .. Len(cs)
    BY <1>16
  <2>3. Len(cs) = 5 + Len(work)
    BY <1>6, <1>16
  <2>4. QED
    BY <2>1, <2>2, <2>3
<1>18. ASSUME NEW i \in 1 .. 5 + m PROVE Passed(cs[i])
  <2>1. CASE i \in 1 .. 5
    <3>1. cs[i] = g[i]
      BY <1>6, <1>16, <2>1
    <3>2. i = 1 \/ i = 2 \/ i = 3 \/ i = 4 \/ i = 5
      BY <2>1
    <3>3. Passed(g[i])
      BY ONLY <1>8, <3>2
    <3>4. QED
      BY <3>1, <3>3
  <2>2. CASE i \notin 1 .. 5
    <3>1. i - 5 \in 1 .. m /\ i = 5 + (i - 5)
      BY <1>17, <2>2
    <3>2. cs[i] = work[i - 5]
      <4>1. Len(g) = 5 /\ Len(work) = m
        BY <1>6, <1>17
      <4>2. PICK j \in 1 .. m : j = i - 5
        BY <3>1
      <4>3. cs[5 + j] = work[j]
        BY ONLY <1>16, <4>1, <4>2
      <4>4. 5 + j = i
        BY <3>1, <4>2
      <4>5. QED
        BY <4>2, <4>3, <4>4
    <3>3. QED
      BY <1>13, <1>17, <3>1, <3>2
  <2>3. QED
    BY <2>1, <2>2
<1>19. QED
  BY <1>a, <1>14, <1>17, <1>18 DEF LetIn, Passed


LEMMA BranchesOfRegisters == RowsTyped => \A i \in DOMAIN registers : registers[i].branch \in Branches
<1>1. SUFFICES ASSUME RowsTyped, NEW i \in DOMAIN registers PROVE registers[i].branch \in Branches
  OBVIOUS
<1>2. PICK n \in Nat : registers \in [1 .. n -> RegisterRow]
  BY <1>1 DEF RowsTyped
<1>3. registers[i] \in RegisterRow
  BY <1>1, <1>2
<1>4. QED
  BY <1>3 DEF RegisterRow

\* The owner gets through to a route that asks for an admin with access to the branch.
LEMMA OwnerReaches ==
    ASSUME RowsTyped, NEW marks, "public" \notin marks, NEW work \in Seq({Admin, Access}), NEW calls, NEW c \in calls,
           NEW b \in Branches, Serve(marks, work, calls) \subseteq Routes,
           \A r : r.call = c /\ r.marks = marks => StatusAllows(r) /\ ModeAllows(r)
    PROVE  Reaches(Owner, Serving(c), b)
<1>1. PICK r \in Serve(marks, work, calls) : r.call = c
  BY ServedRoute
<1>2. r \in Serving(c) /\ r.marks = marks /\ r.checks = Guards(marks) \o work
  BY <1>1 DEF Serve, Serving
<1>3. Owner \in Users /\ users[Owner].active /\ ~users[Owner].mustChange /\ users[Owner].branches = Branches
  BY DEF RowsTyped, OwnerStands, Users
<1>4. ~Stranded(Owner)
  <2>1. \A i \in DOMAIN registers : registers[i].branch \in Branches
    BY BranchesOfRegisters
  <2>2. QED
    BY <1>3, <2>1 DEF Stranded, OpenOf
<1>5. LoginToken(Owner).user = Owner
  BY <1>3, LoginFits
<1>6. \A i \in DOMAIN work : Passes(work[i], r, LoginToken(Owner), b)
  <2>1. SUFFICES ASSUME NEW i \in DOMAIN work PROVE Passes(work[i], r, LoginToken(Owner), b)
    OBVIOUS
  <2>2. work[i] = Admin \/ work[i] = Access
    OBVIOUS
  <2>3. Admin.ask = "admin" /\ Access.ask = "access"
    BY AskOf DEF Admin, Access
  <2>4. CASE work[i] = Admin
    BY <1>5, <2>3, <2>4, PassesIf
  <2>5. CASE work[i] = Access
    BY <1>3, <1>5, <2>3, <2>5, PassesIf
  <2>6. QED
    BY <2>2, <2>4, <2>5
<1>7. work \in Seq(WorkChecks)
  <2>1. {Admin, Access} \subseteq WorkChecks
    BY WorkKnown
  <2>2. QED
    BY <2>1
<1>8. StatusAllows(r) /\ ModeAllows(r)
  BY <1>1, <1>2
<1>9. LetIn(r, Owner, b)
  BY <1>2, <1>3, <1>4, <1>6, <1>7, <1>8, GetsThrough
<1>10. QED
  BY <1>2, <1>9 DEF Reaches

LEMMA WaysOut ==
    ASSUME AccessInv
    PROVE  WaysOutOpen
<1>1. RowsTyped /\ Home \in Branches /\ <<Admin>> \in Seq({Admin, Access}) /\ <<Admin, Access>> \in Seq({Admin, Access})
  BY Typed, AccessAssumption DEF AccessInv, AccessAssumption
<1>2. ASSUME NEW u \in Users, users[u].active, ~Stranded(u) PROVE Reaches(u, ChooseAPassword, Home)
  <2>1. PICK r \in Serve({"beforeChange", "whenLocked"}, <<>>, {Post("/auth/change-password")}) :
          r.call = Post("/auth/change-password")
    BY ServedRoute
  <2>2. r \in ChooseAPassword
    BY <2>1 DEF ChooseAPassword, Serving, Routes, AuthController
  <2>3. r.marks = {"beforeChange", "whenLocked"} /\ r.checks = Guards(r.marks) \o <<>>
    BY <2>1 DEF Serve
  <2>4. StatusAllows(r) /\ ModeAllows(r)
    BY <2>3 DEF StatusAllows, ModeAllows
  <2>5. PICK work \in Seq(WorkChecks) : work = <<>>
    BY WorkSequences
  <2>6. LetIn(r, u, Home)
    <3>1. DOMAIN work = {}
      BY <2>5
    <3>2. \A i \in DOMAIN work : Passes(work[i], r, LoginToken(u), Home)
      BY <3>1
    <3>3. "public" \notin r.marks /\ "beforeChange" \in r.marks /\ r.checks = Guards(r.marks) \o work
      BY <2>3, <2>5
    <3>4. QED
      BY <1>1, <1>2, <2>4, <3>2, <3>3, GetsThrough
  <2>7. QED
    BY <2>2, <2>6 DEF Reaches
<1>3. ASSUME NEW i \in DOMAIN registers, ~offline PROVE Reaches(Owner, CloseForOthers, registers[i].branch)
  <2>1. registers[i].branch \in Branches
    BY <1>1, BranchesOfRegisters
  <2>2. Serve({"whenUnpaid"}, <<Admin, Access>>, {Post("/registers/:id/close")}) \subseteq Routes
    BY DEF Routes, RegistersController
  <2>3. \A r : r.call = Post("/registers/:id/close") /\ r.marks = {"whenUnpaid"} => StatusAllows(r) /\ ModeAllows(r)
    BY <1>3 DEF StatusAllows, ModeAllows
  <2>4. "public" \notin {"whenUnpaid"}
    OBVIOUS
  <2>5. QED
    BY <1>1, <2>1, <2>2, <2>3, <2>4, OwnerReaches DEF CloseForOthers
<1>4. ASSUME offline PROVE Reaches(Owner, ComeBack, Home)
  <2>1. Serve({"offline", "whenLocked"}, <<Admin>>, {Post("/migration/abort"), Post("/migration/complete")}) \subseteq Routes
    BY DEF Routes, MigrationController
  <2>2. \A r : r.call = Post("/migration/abort") /\ r.marks = {"offline", "whenLocked"} => StatusAllows(r) /\ ModeAllows(r)
    BY <1>4 DEF StatusAllows, ModeAllows
  <2>3. "public" \notin {"offline", "whenLocked"}
    OBVIOUS
  <2>4. QED
    BY <1>1, <2>1, <2>2, <2>3, OwnerReaches DEF ComeBack
<1>5. ASSUME ~offline PROVE Reaches(Owner, PayUp, Home)
  <2>1. Serve({"managed", "whenUnpaid"}, <<Admin>>, {Get("/billing"), Post("/billing/checkout"), Get("/billing/invoices/:id")})
          \subseteq Routes
    BY DEF Routes, BillingController
  <2>2. \A r : r.call = Post("/billing/checkout") /\ r.marks = {"managed", "whenUnpaid"} => StatusAllows(r) /\ ModeAllows(r)
    BY <1>5 DEF StatusAllows, ModeAllows
  <2>3. "public" \notin {"managed", "whenUnpaid"}
    OBVIOUS
  <2>4. QED
    BY <1>1, <2>1, <2>2, <2>3, OwnerReaches DEF PayUp
<1>6. QED
  BY <1>2, <1>3, <1>4, <1>5, CallsServed DEF WaysOutOpen

\* Whatever state the business is in, the routes that lead out of it are open: every call of the contract is
\* served, a password can be chosen, registers closed, the business paid for or brought back.
THEOREM WaysOutOpenHolds == AccessSpec => []WaysOutOpen
<1>1. AccessInv => WaysOutOpen
  BY WaysOut
<1>2. QED
  BY <1>1, AccessInvHolds, PTL

-----------------------------------------------------------------------------
(* The returns and reports of a period.                                    *)

BillStatuses == {"DRAFT", "SETTLED", "CANCELLED"}
BillRow ==
    [buyer : BOOLEAN, away : BOOLEAN, type : Types, at : Nat, offline : BOOLEAN, arrived : BOOLEAN,
     status : BillStatuses, paidAt : Int, lines : Seq(LineForms), grandTotal : Int]
CreditRow == [bill : Nat, line : Nat, value : Nat, at : Nat, tax : Int]
ChangeRow == [type : Types, date : Int, from : Int]

EndOf(p) == StartOfLocalDay((p + 1) * PeriodDays, zone)

FiledRows(f) == [period : Periods, moved : BOOLEAN, late : BOOLEAN, figures : {f.figures}]
FiledTyped == \A f \in filed : f \in FiledRows(f)

GstTypes ==
    /\ clock \in Nat /\ zone \in Zones /\ events \in Nat
    /\ changes \in Seq(ChangeRow) /\ sales \in Seq(BillRow) /\ credits \in Seq(CreditRow)
    /\ FiledTyped

\* What lines come to.
LineTotal(lines) == Total([i \in DOMAIN lines |-> lines[i].value + lines[i].tax])

\* A bill is dated and paid by now, its total is its lines', and only a regular one has tax.
BillDated(bill) ==
    /\ bill.at <= clock /\ bill.paidAt <= clock
    /\ bill.status # "SETTLED" => bill.paidAt = Never
    /\ ~bill.arrived => bill.status = "DRAFT"
    /\ bill.grandTotal = LineTotal(bill.lines)
    /\ bill.type # "REGULAR" => \A i \in DOMAIN bill.lines : bill.lines[i].tax = 0

BillsDated == \A b \in DOMAIN sales : BillDated(sales[b])

\* What came back is of a line of a bill that stands.
ReturnDated(r) ==
    LET bill == sales[credits[r].bill] IN
    /\ credits[r].bill \in DOMAIN sales /\ credits[r].at <= clock
    /\ bill.status # "CANCELLED" /\ bill.arrived
    /\ credits[r].line \in DOMAIN bill.lines
    /\ bill.lines[credits[r].line].tax = 0 => credits[r].tax = 0

ReturnsDated == \A r \in DOMAIN credits : ReturnDated(r)

\* A period is filed when it is over.
FiledOver == \A f \in filed : ~f.moved => EndOf(f.period) <= clock

RowsInv == GstTypes /\ BillsDated /\ ReturnsDated /\ FiledOver

(* The calendar. *)

LEMMA Quotient ==
    ASSUME NEW n \in Nat \ {0}, NEW x \in Int, NEW d \in Int
    PROVE  (x < d * n => x \div n < d) /\ (d * n <= x => d <= x \div n)
<1> DEFINE q == x \div n
<1>1. q \in Int /\ q * n <= x /\ x < (q + 1) * n
  OBVIOUS
<1> HIDE DEF q
<1>2. ASSUME x < d * n, ~(q < d) PROVE FALSE
  <2>1. (q - d) * n >= 0
    BY <1>1, <1>2
  <2>2. q * n >= d * n
    BY <1>1, <2>1
  <2>3. QED
    BY <1>1, <1>2, <2>2
<1>3. ASSUME d * n <= x, ~(d <= q) PROVE FALSE
  <2>1. (d - q - 1) * n >= 0
    BY <1>1, <1>3
  <2>2. d * n >= (q + 1) * n
    BY <1>1, <2>1
  <2>3. QED
    BY <1>1, <1>3, <2>2
<1>4. QED
  BY <1>2, <1>3 DEF q

LEMMA Midnights ==
    ASSUME NEW z \in Zones, NEW p \in Nat
    PROVE  /\ StartOfLocalDay(p * PeriodDays, z) \in Int
           /\ StartOfLocalDay((p + 1) * PeriodDays, z) \in Int
<1>1. DayParts \in Nat \ {0} /\ PeriodDays \in Nat \ {0} /\ z \in Int
  BY GstAssumption
<1>2. p * PeriodDays \in Int /\ (p + 1) * PeriodDays \in Int
  BY <1>1
<1>3. \A d \in Int : StartOfLocalDay(d, z) \in Int
  BY <1>1 DEF StartOfLocalDay
<1>4. QED
  BY <1>2, <1>3

\* A day of a period that is over is not today.
LEMMA NotToday ==
    ASSUME NEW p \in Nat, zone \in Zones, clock \in Nat, EndOf(p) <= clock, NEW at \in Nat, InPeriod(at, p)
    PROVE  LocalDay(at, zone) # LocalDay(clock, zone)
<1> DEFINE d == (p + 1) * PeriodDays
<1>1. DayParts \in Nat \ {0} /\ PeriodDays \in Nat \ {0} /\ zone \in Int
  BY GstAssumption
<1>2. d \in Int
  BY <1>1
<1>3. at + zone < d * DayParts /\ d * DayParts <= clock + zone
  <2>1. StartOfLocalDay(d, zone) = d * DayParts - zone /\ d * DayParts \in Int
    BY <1>1, <1>2 DEF StartOfLocalDay
  <2>2. at < StartOfLocalDay(d, zone) /\ StartOfLocalDay(d, zone) <= clock
    BY DEF InPeriod, EndOf
  <2> HIDE DEF d
  <2>3. QED
    BY <1>1, <2>1, <2>2
<1> HIDE DEF d
<1>4. (at + zone) \div DayParts < d /\ d <= (clock + zone) \div DayParts
  BY <1>1, <1>2, <1>3, Quotient
<1>5. (at + zone) \div DayParts \in Int /\ (clock + zone) \div DayParts \in Int
  BY <1>1
<1>6. QED
  BY <1>2, <1>4, <1>5 DEF LocalDay

\* Nor is now within it.
LEMMA OverByNow ==
    ASSUME NEW p \in Nat, zone \in Zones, clock \in Nat, EndOf(p) <= clock, NEW at \in Int, InPeriod(at, p)
    PROVE  at < clock
<1>1. EndOf(p) \in Int
  BY Midnights DEF EndOf
<1>2. at < EndOf(p)
  BY DEF InPeriod, EndOf
<1>3. QED
  BY <1>1, <1>2

-----------------------------------------------------------------------------
(* What a period's figures are made of.                                    *)

Dated(p) == {b \in Known : InPeriod(sales[b].at, p)}
CameBack(p) == {r \in DOMAIN credits : InPeriod(credits[r].at, p)}
Collected(p) == {b \in Known : sales[b].paidAt # Never /\ InPeriod(sales[b].paidAt, p)}
Cancelled(b) == sales[b].status = "CANCELLED"

\* What of a bill the figures are worked out from.
GoodsOf(b) ==
    [buyer |-> sales[b].buyer, away |-> sales[b].away, type |-> sales[b].type, at |-> sales[b].at,
     lines |-> sales[b].lines, grandTotal |-> sales[b].grandTotal]

\* Nothing a period's figures are worked out from changes.
PeriodStands(p) ==
    /\ zone' = zone
    /\ \A b \in DOMAIN sales : b \in DOMAIN sales' /\ GoodsOf(b)' = GoodsOf(b)
    /\ Dated(p)' = Dated(p) /\ CameBack(p)' = CameBack(p) /\ Collected(p)' = Collected(p)
    /\ \A b \in Dated(p) : Cancelled(b)' <=> Cancelled(b)
    /\ \A r \in CameBack(p) : /\ credits'[r] = credits[r] /\ credits[r].bill \in DOMAIN sales
                              /\ Cancelled(credits[r].bill)' <=> Cancelled(credits[r].bill)

LEMMA OnlyOne == \A x : Only({x}) = x
BY DEF Only

LEMMA GoodsSame ==
    ASSUME NEW p, PeriodStands(p), NEW b \in DOMAIN sales
    PROVE  /\ sales'[b].buyer = sales[b].buyer /\ sales'[b].away = sales[b].away /\ sales'[b].type = sales[b].type
           /\ sales'[b].at = sales[b].at /\ sales'[b].lines = sales[b].lines
           /\ sales'[b].grandTotal = sales[b].grandTotal
BY Zenon DEF PeriodStands, GoodsOf

EntriesOf(b) == {Entry(b, b, i, sales[b].lines[i].value, sales[b].lines[i].tax) : i \in DOMAIN sales[b].lines}
BackEntry(r) == Entry(r, credits[r].bill, credits[r].line, credits[r].value, credits[r].tax)

LEMMA BackSame ==
    ASSUME NEW p, PeriodStands(p), NEW r \in CameBack(p)
    PROVE  BackEntry(r)' = BackEntry(r)
<1>1. credits'[r] = credits[r] /\ credits[r].bill \in DOMAIN sales
  BY DEF PeriodStands
<1>2. QED
  BY <1>1, GoodsSame DEF BackEntry, Entry, IsB2b, IsB2cl

LEMMA BillsSame ==
    ASSUME NEW p, NEW types, PeriodStands(p)
    PROVE  /\ Invoices(p, types)' = Invoices(p, types) /\ Invoices(p, types) \subseteq Dated(p)
           /\ Notes(p, types)' = Notes(p, types) /\ Notes(p, types) \subseteq CameBack(p)
<1>1. Invoices(p, types) = {b \in Dated(p) : sales[b].type \in types /\ ~Cancelled(b)}
  BY DEF Invoices, Dated, Cancelled
<1>2. Invoices(p, types)' = {b \in Dated(p)' : sales'[b].type \in types /\ ~Cancelled(b)'}
  BY DEF Invoices, Dated, Cancelled
<1>3. Notes(p, types) = {r \in CameBack(p) : sales[credits[r].bill].type \in types}
  BY DEF Notes, CameBack
<1>4. Notes(p, types)' = {r \in CameBack(p)' : sales'[credits'[r].bill].type \in types}
  BY DEF Notes, CameBack
<1>5. Dated(p) \subseteq DOMAIN sales
  BY DEF Dated, Known
<1>6. \A b \in Dated(p) : sales'[b].type = sales[b].type /\ (Cancelled(b)' <=> Cancelled(b))
  BY <1>5, GoodsSame DEF PeriodStands
<1>7. \A r \in CameBack(p) : sales'[credits'[r].bill].type = sales[credits[r].bill].type
  BY GoodsSame DEF PeriodStands
<1>8. Dated(p)' = Dated(p) /\ CameBack(p)' = CameBack(p)
  BY DEF PeriodStands
<1>9. Invoices(p, types)' = Invoices(p, types)
  BY <1>1, <1>2, <1>6, <1>8
<1>10. Notes(p, types)' = Notes(p, types)
  BY <1>3, <1>4, <1>7, <1>8
<1>11. QED
  BY <1>1, <1>3, <1>9, <1>10

\* The lines sold on bills, and those that came back, are as they were.
LEMMA LinesSame ==
    ASSUME NEW p, NEW types, PeriodStands(p)
    PROVE  /\ SoldLines(Invoices(p, types))' = SoldLines(Invoices(p, types))
           /\ BackLines(Notes(p, types))' = BackLines(Notes(p, types))
<1> DEFINE bills == Invoices(p, types)
           notes == Notes(p, types)
<1>1. bills' = bills /\ notes' = notes /\ bills \subseteq DOMAIN sales /\ notes \subseteq CameBack(p)
  BY BillsSame DEF Dated, Known
<1>2. \A b \in bills : sales'[b].lines = sales[b].lines
  BY <1>1, GoodsSame
<1>3. \A b \in bills : \A i \in DOMAIN sales[b].lines :
          Entry(b, b, i, sales[b].lines[i].value, sales[b].lines[i].tax)' = Entry(b, b, i, sales[b].lines[i].value, sales[b].lines[i].tax)
  <2>1. SUFFICES ASSUME NEW b \in bills, NEW i
                 PROVE Entry(b, b, i, sales[b].lines[i].value, sales[b].lines[i].tax)' = Entry(b, b, i, sales[b].lines[i].value, sales[b].lines[i].tax)
    OBVIOUS
  <2>2. b \in DOMAIN sales /\ sales'[b].lines = sales[b].lines
    BY <1>1, <1>2
  <2>3. QED
    BY <2>2, GoodsSame DEF Entry, IsB2b, IsB2cl
<1>4. \A r \in notes : BackEntry(r)' = BackEntry(r)
  BY <1>1, BackSame
<1>5. SoldLines(bills)' = SoldLines(bills)
  <2>1. \A b \in bills : EntriesOf(b)' = EntriesOf(b)
    BY <1>2, <1>3 DEF EntriesOf
  <2> HIDE DEF bills
  <2>2. SoldLines(bills) = UNION {EntriesOf(b) : b \in bills}
    BY DEF SoldLines, EntriesOf
  <2>3. SoldLines(bills)' = UNION {EntriesOf(b)' : b \in bills'}
    BY DEF SoldLines, EntriesOf
  <2>4. QED
    BY <1>1, <2>1, <2>2, <2>3
<1>6. BackLines(notes)' = BackLines(notes)
  <2> HIDE DEF notes
  <2>1. BackLines(notes) = {BackEntry(r) : r \in notes} /\ BackLines(notes)' = {BackEntry(r)' : r \in notes'}
    BY DEF BackLines, BackEntry
  <2>2. QED
    BY <1>1, <1>4, <2>1
<1>7. QED
  BY <1>5, <1>6

SummaryOf(bills, gross, sold, back, money) ==
    [count |-> Cardinality(bills), gross |-> gross, tax |-> sold.tax, returnsGross |-> back.txval + back.tax,
     net |-> gross - sold.tax - back.txval, collected |-> money]

LEMMA SummarySame ==
    ASSUME NEW p, PeriodStands(p)
    PROVE  Summary(p)' = Summary(p)
<1> DEFINE bills == Invoices(p, Types)
           notes == {r \in Notes(p, Types) : sales[credits[r].bill].status # "CANCELLED"}
           gross == [b \in bills |-> sales[b].grandTotal]
           money == [b \in Collected(p) |-> sales[b].grandTotal]
<1>1. bills' = bills /\ bills \subseteq DOMAIN sales
  BY BillsSame DEF Dated, Known
<1>2. notes' = notes
  <2>1. Notes(p, Types)' = Notes(p, Types) /\ Notes(p, Types) \subseteq CameBack(p)
    BY BillsSame
  <2>2. \A r \in CameBack(p) : (sales'[credits'[r].bill].status # "CANCELLED") <=> (sales[credits[r].bill].status # "CANCELLED")
    BY DEF PeriodStands, Cancelled
  <2>3. QED
    BY <2>1, <2>2
<1>3. gross' = gross
  <2>1. \A b \in bills : sales'[b].grandTotal = sales[b].grandTotal
    BY <1>1, GoodsSame
  <2> HIDE DEF bills
  <2>2. QED
    BY <1>1, <2>1
<1>4. money' = money
  <2>1. Collected(p)' = Collected(p) /\ Collected(p) \subseteq DOMAIN sales
    BY DEF PeriodStands, Collected, Known
  <2>2. \A b \in Collected(p) : sales'[b].grandTotal = sales[b].grandTotal
    BY <2>1, GoodsSame
  <2>3. QED
    BY <2>1, <2>2
<1>5. SoldLines(bills)' = SoldLines(bills)
  BY LinesSame
<1>6. BackLines(notes)' = BackLines(notes)
  <2>1. notes \subseteq CameBack(p)
    BY BillsSame
  <2>2. \A r \in notes : BackEntry(r)' = BackEntry(r)
    BY <2>1, BackSame
  <2> HIDE DEF notes
  <2>3. BackLines(notes) = {BackEntry(r) : r \in notes} /\ BackLines(notes)' = {BackEntry(r)' : r \in notes'}
    BY DEF BackLines, BackEntry
  <2>4. QED
    BY <1>2, <2>2, <2>3
<1>7. Summary(p) = SummaryOf(bills, Total(gross), Amounts(SoldLines(bills)), Amounts(BackLines(notes)), Total(money))
  BY DEF Summary, SummaryOf, Collected
<1>8. Summary(p)' = SummaryOf(bills', Total(gross'), Amounts(SoldLines(bills)'), Amounts(BackLines(notes)'), Total(money'))
  BY DEF Summary, SummaryOf, Collected
<1> HIDE DEF bills, notes, gross, money
<1>9. QED
  BY <1>1, <1>3, <1>4, <1>5, <1>6, <1>7, <1>8

LEMMA Gstr1Is ==
    ASSUME NEW p
    PROVE  /\ Gstr1(p) = Sections(SoldLines(Invoices(p, {"REGULAR"})), BackLines(Notes(p, {"REGULAR"})), Counts(p))
           /\ Gstr1(p)' = Sections(SoldLines(Invoices(p, {"REGULAR"}))', BackLines(Notes(p, {"REGULAR"}))', Counts(p)')
<1>1. \A x, y, z : Only({Sections(a, b, z) : a \in {x}, b \in {y}}) = Sections(x, y, z)
  <2>1. SUFFICES ASSUME NEW x, NEW y, NEW z PROVE Only({Sections(a, b, z) : a \in {x}, b \in {y}}) = Sections(x, y, z)
    OBVIOUS
  <2>2. {Sections(a, b, z) : a \in {x}, b \in {y}} = {Sections(x, y, z)}
    OBVIOUS
  <2>3. Only({Sections(x, y, z)}) = Sections(x, y, z)
    BY OnlyOne, Zenon
  <2>4. QED
    BY ONLY <2>2, <2>3
<1>2. QED
  BY <1>1 DEF Gstr1

FiguresOf(g, composition, summary, sold, back) ==
    [gstr1 |-> g, gstr3b |-> Gstr3b(g), composition |-> composition, summary |-> summary, items |-> Items(sold, back)]

LEMMA FiguresAre ==
    ASSUME NEW p
    PROVE  /\ Figures(p) = FiguresOf(Gstr1(p), Composition(p), Summary(p), SoldLines(Invoices(p, Types)), BackLines(Notes(p, Types)))
           /\ Figures(p)' = FiguresOf(Gstr1(p)', Composition(p)', Summary(p)', SoldLines(Invoices(p, Types))', BackLines(Notes(p, Types))')
<1>1. \A g, c, s, x, y : Only({FiguresOf(h, c, s, a, b) : h \in {g}, a \in {x}, b \in {y}}) = FiguresOf(g, c, s, x, y)
  <2>1. SUFFICES ASSUME NEW g, NEW c, NEW s, NEW x, NEW y
                 PROVE Only({FiguresOf(h, c, s, a, b) : h \in {g}, a \in {x}, b \in {y}}) = FiguresOf(g, c, s, x, y)
    OBVIOUS
  <2>2. {FiguresOf(h, c, s, a, b) : h \in {g}, a \in {x}, b \in {y}} = {FiguresOf(g, c, s, x, y)}
    OBVIOUS
  <2>3. QED
    BY <2>2, OnlyOne
<1>2. QED
  BY <1>1 DEF Figures, FiguresOf

LEMMA FiguresSame ==
    ASSUME NEW p, PeriodStands(p)
    PROVE  Figures(p)' = Figures(p)
<1>1. \A types : SoldLines(Invoices(p, types))' = SoldLines(Invoices(p, types)) /\ BackLines(Notes(p, types))' = BackLines(Notes(p, types))
  BY LinesSame
<1>2. Counts(p)' = Counts(p)
  <2> DEFINE regular == {b \in Known : InPeriod(sales[b].at, p) /\ sales[b].type = "REGULAR"}
             off == {b \in regular : sales[b].status = "CANCELLED"}
  <2>1. Dated(p) \subseteq DOMAIN sales /\ Dated(p)' = Dated(p)
    BY DEF Dated, Known, PeriodStands
  <2>2. \A b \in Dated(p) : sales'[b].type = sales[b].type /\ ((sales'[b].status = "CANCELLED") <=> (sales[b].status = "CANCELLED"))
    BY <2>1, GoodsSame DEF PeriodStands, Cancelled
  <2>3. regular = {b \in Dated(p) : sales[b].type = "REGULAR"} /\ regular' = {b \in Dated(p)' : sales'[b].type = "REGULAR"}
    BY DEF Dated
  <2>4. regular' = regular
    BY <2>1, <2>2, <2>3
  <2>5. off' = off
    <3>1. off = {b \in regular : sales[b].status = "CANCELLED"} /\ off' = {b \in regular' : sales'[b].status = "CANCELLED"}
      OBVIOUS
    <3>2. regular \subseteq Dated(p)
      BY <2>3
    <3> HIDE DEF regular, off
    <3>3. QED
      BY <2>2, <2>4, <3>1, <3>2
  <2>6. Notes(p, {"REGULAR"})' = Notes(p, {"REGULAR"})
    BY BillsSame
  <2>7. /\ Counts(p) = [documents |-> Cardinality(regular), cancelled |-> Cardinality(off), notes |-> Cardinality(Notes(p, {"REGULAR"}))]
        /\ Counts(p)' = [documents |-> Cardinality(regular'), cancelled |-> Cardinality(off'), notes |-> Cardinality(Notes(p, {"REGULAR"})')]
    BY DEF Counts
  <2> HIDE DEF regular, off
  <2>8. QED
    BY <2>4, <2>5, <2>6, <2>7
<1>3. Gstr1(p)' = Gstr1(p)
  <2>1. /\ Gstr1(p) = Sections(SoldLines(Invoices(p, {"REGULAR"})), BackLines(Notes(p, {"REGULAR"})), Counts(p))
        /\ Gstr1(p)' = Sections(SoldLines(Invoices(p, {"REGULAR"}))', BackLines(Notes(p, {"REGULAR"}))', Counts(p)')
    BY Gstr1Is
  <2>2. QED
    BY <1>1, <1>2, <2>1
<1>4. Composition(p)' = Composition(p)
  BY <1>1 DEF Composition
<1>5. Summary(p)' = Summary(p)
  BY SummarySame
<1>6. QED
  BY <1>1, <1>3, <1>4, <1>5, FiguresAre

-----------------------------------------------------------------------------
(* What each step keeps.                                                   *)

\* The rows of bills stay what they were, whatever happens to them but their status and payment.
RowsKept ==
    /\ zone' = zone
    /\ \A b \in DOMAIN sales : b \in DOMAIN sales' /\ GoodsOf(b)' = GoodsOf(b)
    /\ \A r \in DOMAIN credits : r \in DOMAIN credits' /\ credits'[r] = credits[r]

LEMMA AppendedRow ==
    ASSUME NEW S, NEW s \in Seq(S), NEW e \in S
    PROVE  /\ Append(s, e) \in Seq(S) /\ DOMAIN Append(s, e) = DOMAIN s \cup {Len(s) + 1}
           /\ Len(s) + 1 \notin DOMAIN s /\ Append(s, e)[Len(s) + 1] = e
           /\ \A i \in DOMAIN s : Append(s, e)[i] = s[i]
<1>1. Len(Append(s, e)) = Len(s) + 1 /\ Append(s, e) \in Seq(S) /\ Len(s) \in Nat
  OBVIOUS
<1>2. DOMAIN s = 1 .. Len(s) /\ DOMAIN Append(s, e) = 1 .. Len(s) + 1
  BY <1>1
<1>3. \A i \in 1 .. Len(s) + 1 : Append(s, e)[i] = IF i <= Len(s) THEN s[i] ELSE e
  OBVIOUS
<1>4. QED
  BY <1>1, <1>2, <1>3

\* A row at a time: what is changed is one bill's, outside the period.
LEMMA StandsIfOutside ==
    ASSUME RowsInv, NEW p \in Periods, RowsKept,
           \A b \in DOMAIN sales' : InPeriod(sales'[b].at, p) /\ sales'[b].arrived =>
              b \in DOMAIN sales /\ sales[b].arrived,
           \A b \in DOMAIN sales : InPeriod(sales[b].at, p) /\ sales[b].arrived => sales'[b].arrived /\ (Cancelled(b)' <=> Cancelled(b)),
           \A r \in DOMAIN credits' : InPeriod(credits'[r].at, p) => r \in DOMAIN credits,
           \A r \in DOMAIN credits : Cancelled(credits[r].bill)' <=> Cancelled(credits[r].bill),
           Collected(p)' = Collected(p)
    PROVE  PeriodStands(p)
<1>1. zone' = zone /\ \A b \in DOMAIN sales : b \in DOMAIN sales' /\ GoodsOf(b)' = GoodsOf(b)
  BY DEF RowsKept
<1>2. \A b \in DOMAIN sales : sales'[b].at = sales[b].at
  BY <1>1, Zenon DEF GoodsOf
<1>3. \A at : InPeriod(at, p)' <=> InPeriod(at, p)
  BY <1>1 DEF InPeriod
<1>4. Dated(p) = {b \in DOMAIN sales : sales[b].arrived /\ InPeriod(sales[b].at, p)}
  BY DEF Dated, Known
<1>5. Dated(p)' = {b \in DOMAIN sales' : sales'[b].arrived /\ InPeriod(sales'[b].at, p)}
  BY <1>3 DEF Dated, Known
<1>6. Dated(p)' = Dated(p)
  BY <1>1, <1>2, <1>4, <1>5
<1>7. \A b \in Dated(p) : Cancelled(b)' <=> Cancelled(b)
  BY <1>4
<1>8. \A r \in DOMAIN credits : r \in DOMAIN credits' /\ credits'[r] = credits[r]
  BY DEF RowsKept
<1>9. CameBack(p) = {r \in DOMAIN credits : InPeriod(credits[r].at, p)} /\ CameBack(p)' = {r \in DOMAIN credits' : InPeriod(credits'[r].at, p)}
  BY <1>3 DEF CameBack
<1>10. CameBack(p)' = CameBack(p)
  BY <1>8, <1>9
<1>11. \A r \in CameBack(p) : credits'[r] = credits[r] /\ credits[r].bill \in DOMAIN sales /\ (Cancelled(credits[r].bill)' <=> Cancelled(credits[r].bill))
  BY <1>8, <1>9 DEF RowsInv, ReturnsDated, ReturnDated
<1>12. QED
  BY <1>1, <1>6, <1>7, <1>10, <1>11 DEF PeriodStands

(* The registration a bill is made under. *)

Sooner(known, i, j) == known[i].from < known[j].from \/ (known[i].from = known[j].from /\ i < j)

LEMMA LatestThere ==
    ASSUME NEW known \in Seq(ChangeRow), NEW begun \in SUBSET DOMAIN known, begun # {}
    PROVE  \E i \in begun : \A j \in begun \ {i} : Sooner(known, j, i)
<1> DEFINE After(i) == {j \in begun : Sooner(known, i, j)}
           Tails == {T \in SUBSET begun : T # {} /\ \A i \in T : After(i) \subseteq T}
<1>1. Len(known) \in Nat /\ DOMAIN known = 1 .. Len(known)
  OBVIOUS
<1>2. begun \subseteq Int /\ \A i \in begun : known[i].from \in Int
  <2>1. \A i \in DOMAIN known : i \in Int /\ known[i] \in ChangeRow
    BY <1>1
  <2>2. begun \subseteq DOMAIN known
    OBVIOUS
  <2>3. QED
    BY <2>1, <2>2 DEF ChangeRow
<1>3. IsFiniteSet(begun)
  <2>1. IsFiniteSet(DOMAIN known)
    BY <1>1, FS_Interval
  <2>2. QED
    BY <2>1, FS_Subset
<1>4. begun \in Tails
  OBVIOUS
<1>5. PICK T \in Tails : \A U \in SUBSET T : U # T => U \notin Tails
  <2>1. Tails \in SUBSET (SUBSET begun) /\ Tails # {}
    BY <1>4
  <2> HIDE DEF Tails
  <2>2. QED
    BY <1>3, <2>1, SmallestSet
<1>6. PICK i \in T : TRUE
  OBVIOUS
<1>7. \A j, k \in begun : k \in After(j) => After(k) \subseteq After(j)
  BY <1>2 DEF Sooner
<1>8. After(i) = {}
  <2>1. After(i) \subseteq T /\ i \notin After(i) /\ T \subseteq begun
    BY <1>2, <1>6 DEF Sooner
  <2>2. After(i) \notin Tails
    <3>1. After(i) \in SUBSET T /\ After(i) # T
      BY <1>6, <2>1
    <3> HIDE DEF Tails, After
    <3>2. QED
      BY <1>5, <3>1
  <2>3. \A j \in After(i) : After(j) \subseteq After(i)
    BY <1>7, <2>1, <1>6
  <2>4. QED
    BY <2>2, <2>3
<1>9. \A j \in begun \ {i} : Sooner(known, j, i)
  <2>1. \A j \in begun : ~Sooner(known, i, j)
    BY <1>8
  <2>2. i \in begun
    BY <1>6
  <2>3. QED
    BY <1>2, <2>1, <2>2 DEF Sooner
<1>10. QED
  BY <1>6, <1>9

LEMMA TaxpayerKnown ==
    ASSUME NEW known \in Seq(ChangeRow), NEW at
    PROVE  TaxpayerAt(known, at) \in Types
<1> DEFINE begun == {i \in DOMAIN known : known[i].from <= at}
           latest == CHOOSE i \in begun : \A j \in begun \ {i} :
                        known[j].from < known[i].from \/ (known[j].from = known[i].from /\ j < i)
<1>1. CASE begun = {}
  BY <1>1, GstAssumption DEF TaxpayerAt
<1>2. CASE begun # {}
  <2>1. \E i \in begun : \A j \in begun \ {i} : known[j].from < known[i].from \/ (known[j].from = known[i].from /\ j < i)
    BY <1>2, LatestThere DEF Sooner
  <2>2. latest \in begun
    BY <2>1
  <2>3. known[latest] \in ChangeRow
    <3>1. \A i \in begun : known[i] \in ChangeRow
      OBVIOUS
    <3> HIDE DEF begun, latest
    <3>2. QED
      BY <2>2, <3>1
  <2>4. TaxpayerAt(known, at) = known[latest].type
    BY <1>2 DEF TaxpayerAt
  <2> HIDE DEF begun, latest
  <2>5. QED
    BY <2>3, <2>4 DEF ChangeRow
<1>3. QED
  BY <1>1, <1>2

(* A bill as it is made. *)

LEMMA LinesTotalled ==
    ASSUME NEW lines \in Seq(LineForms)
    PROVE  IsFiniteSet(DOMAIN lines) /\ LineTotal(lines) \in Int
<1>1. Len(lines) \in Nat /\ DOMAIN lines = 1 .. Len(lines)
  OBVIOUS
<1>2. IsFiniteSet(DOMAIN lines)
  BY <1>1, FS_Interval
<1>3. [i \in DOMAIN lines |-> lines[i].value + lines[i].tax] \in [DOMAIN lines -> Int]
  BY <1>1 DEF LineForms
<1>4. QED
  BY <1>2, <1>3, TotalType DEF LineTotal

LEMMA BillMade ==
    ASSUME RowsInv, NEW form \in Forms, NEW type \in Types, NEW arrived \in BOOLEAN
    PROVE  LET bill == Bill(form, type, arrived) IN
           /\ bill \in BillRow /\ BillDated(bill)
           /\ bill.at = clock /\ bill.paidAt = Never /\ bill.arrived = arrived /\ bill.status = "DRAFT"
<1> DEFINE lines == BillLines(form, type)
           bill == Bill(form, type, arrived)
<1>1. form.buyer \in BOOLEAN /\ form.away \in BOOLEAN /\ form.lines \in Seq(LineForms)
  BY GstAssumption
<1>2. Len(form.lines) \in Nat /\ DOMAIN form.lines = 1 .. Len(form.lines) /\ \A i \in 1 .. Len(form.lines) : form.lines[i] \in LineForms
  BY <1>1
<1>3. \A i \in DOMAIN form.lines :
          [form.lines[i] EXCEPT !.tax = IF type = "REGULAR" THEN @ ELSE 0] \in LineForms
  BY <1>2 DEF LineForms
<1>4. lines = [i \in 1 .. Len(form.lines) |-> [form.lines[i] EXCEPT !.tax = IF type = "REGULAR" THEN @ ELSE 0]]
  BY <1>2 DEF BillLines
<1>5. lines \in Seq(LineForms) /\ DOMAIN lines = DOMAIN form.lines
  BY <1>2, <1>3, <1>4
<1>6. type # "REGULAR" => \A i \in DOMAIN lines : lines[i].tax = 0
  BY <1>2, <1>4 DEF LineForms
<1>7. Total([i \in DOMAIN form.lines |-> lines[i].value + lines[i].tax]) = LineTotal(lines)
  BY <1>5 DEF LineTotal
<1>8. bill = [buyer |-> form.buyer, away |-> form.away /\ type = "REGULAR", type |-> type, at |-> clock,
              offline |-> ~arrived, arrived |-> arrived, status |-> "DRAFT", paidAt |-> Never, lines |-> lines, grandTotal |-> LineTotal(lines)]
  <2> HIDE DEF lines
  <2>1. QED
    BY <1>7 DEF Bill, lines
<1>9. LineTotal(lines) \in Int
  BY <1>5, LinesTotalled
<1>10. clock \in Nat /\ Never \in Int /\ Never <= clock
  BY DEF RowsInv, GstTypes, Never
<1> HIDE DEF lines, bill
<1>11. bill \in BillRow
  BY <1>1, <1>5, <1>8, <1>9, <1>10 DEF BillRow, BillStatuses
<1>12. BillDated(bill)
  BY <1>6, <1>8, <1>10 DEF BillDated
<1>13. QED
  BY <1>8, <1>11, <1>12 DEF bill

(* Each step keeps the rows sound, and the figures of a period that is over. *)

LEMMA OverStays ==
    ASSUME RowsInv, filed' = filed, zone' = zone, clock' \in Nat, clock <= clock'
    PROVE  FiledOver'
<1>1. SUFFICES ASSUME NEW f \in filed, ~f.moved PROVE EndOf(f.period)' <= clock'
  BY DEF FiledOver
<1>2. EndOf(f.period) <= clock /\ f.period \in Nat /\ zone \in Zones /\ clock \in Nat
  BY <1>1 DEF RowsInv, FiledOver, GstTypes, FiledTyped, FiledRows, Periods
<1>3. EndOf(f.period) \in Int
  BY <1>2, Midnights DEF EndOf
<1>4. EndOf(f.period)' = EndOf(f.period)
  BY DEF EndOf
<1>5. QED
  BY <1>2, <1>3, <1>4

LEMMA DatesStay ==
    ASSUME RowsInv, clock' \in Nat, clock <= clock'
    PROVE  \A bill \in BillRow : BillDated(bill) => BillDated(bill)'
<1>1. SUFFICES ASSUME NEW bill \in BillRow, BillDated(bill) PROVE BillDated(bill)'
  OBVIOUS
<1>2. bill.at \in Int /\ bill.paidAt \in Int /\ clock \in Int
  BY DEF BillRow, RowsInv, GstTypes
<1>3. bill.at <= clock' /\ bill.paidAt <= clock'
  BY <1>1, <1>2 DEF BillDated
<1>4. QED
  BY <1>1, <1>3 DEF BillDated

LEMMA NewBillKept ==
    ASSUME RowsInv, NEW bill \in BillRow, BillDated(bill), bill.at = clock, bill.paidAt = Never,
           sales' = Append(sales, bill), UNCHANGED <<clock, zone, events, changes, credits, filed>>
    PROVE  RowsInv' /\ \A p \in Periods : EndOf(p) <= clock => PeriodStands(p)
<1>1. sales \in Seq(BillRow) /\ credits \in Seq(CreditRow) /\ clock \in Nat /\ zone \in Zones
  BY DEF RowsInv, GstTypes
<1>2. /\ sales' \in Seq(BillRow) /\ DOMAIN sales' = DOMAIN sales \cup {Len(sales) + 1}
      /\ Len(sales) + 1 \notin DOMAIN sales /\ sales'[Len(sales) + 1] = bill
      /\ \A b \in DOMAIN sales : sales'[b] = sales[b]
  BY <1>1, AppendedRow
<1>3. GstTypes'
  BY <1>2 DEF RowsInv, GstTypes, FiledTyped
<1>4. BillsDated'
  <2>1. \A some : BillDated(some)' <=> BillDated(some)
    BY DEF BillDated
  <2>2. QED
    BY <1>2, <2>1 DEF RowsInv, BillsDated
<1>5. ReturnsDated'
  BY <1>2 DEF RowsInv, ReturnsDated, ReturnDated
<1>6. FiledOver'
  BY <1>1, OverStays
<1>7. ASSUME NEW p \in Periods, EndOf(p) <= clock PROVE PeriodStands(p)
  <2>1. ~InPeriod(clock, p)
    BY <1>1, <1>7, OverByNow DEF Periods
  <2>2. RowsKept
    BY <1>2 DEF RowsKept, GoodsOf
  <2>3. \A b \in DOMAIN sales' : InPeriod(sales'[b].at, p) => b \in DOMAIN sales /\ sales'[b] = sales[b]
    BY <1>2, <2>1
  <2>4. \A b \in DOMAIN sales : sales'[b].arrived = sales[b].arrived /\ (Cancelled(b)' <=> Cancelled(b))
    BY <1>2 DEF Cancelled
  <2>5. \A r \in DOMAIN credits : Cancelled(credits[r].bill)' <=> Cancelled(credits[r].bill)
    BY <2>4 DEF RowsInv, ReturnsDated, ReturnDated
  <2>6. Collected(p)' = Collected(p)
    <3>1. \A at : InPeriod(at, p)' <=> InPeriod(at, p)
      BY DEF InPeriod
    <3>2. Collected(p) = {b \in DOMAIN sales : sales[b].arrived /\ sales[b].paidAt # Never /\ InPeriod(sales[b].paidAt, p)}
      BY DEF Collected, Known
    <3>3. Collected(p)' = {b \in DOMAIN sales' : sales'[b].arrived /\ sales'[b].paidAt # Never /\ InPeriod(sales'[b].paidAt, p)}
      BY <3>1 DEF Collected, Known
    <3>4. QED
      BY <1>2, <3>2, <3>3
  <2>7. QED
    BY <2>2, <2>3, <2>4, <2>5, <2>6, StandsIfOutside
<1>8. QED
  BY <1>3, <1>4, <1>5, <1>6, <1>7 DEF RowsInv

LEMMA MakeSaleKept ==
    ASSUME RowsInv, NEW form \in Forms, MakeSale(form) \/ SellOffline(form)
    PROVE  RowsInv' /\ filed' = filed /\ \A p \in Periods : EndOf(p) <= clock => PeriodStands(p)
<1>1. changes \in Seq(ChangeRow)
  BY DEF RowsInv, GstTypes
<1>2. PICK type \in Types, arrived \in BOOLEAN :
          sales' = Append(sales, Bill(form, type, arrived)) /\ UNCHANGED <<clock, zone, events, changes, credits, filed>>
  <2>1. CASE MakeSale(form)
    BY <1>1, <2>1, TaxpayerKnown DEF MakeSale
  <2>2. CASE SellOffline(form)
    <3>1. PICK n \in 0 .. Len(changes) :
              sales' = Append(sales, Bill(form, TaxpayerAt(SubSeq(changes, 1, n), clock), FALSE))
      BY <2>2 DEF SellOffline
    <3>2. SubSeq(changes, 1, n) \in Seq(ChangeRow)
      BY <1>1, <3>1, SubSeqProperties
    <3>3. TaxpayerAt(SubSeq(changes, 1, n), clock) \in Types
      BY <3>2, TaxpayerKnown
    <3>4. QED
      BY <2>2, <3>1, <3>3 DEF SellOffline
  <2>3. QED
    BY <2>1, <2>2
<1>3. LET bill == Bill(form, type, arrived) IN bill \in BillRow /\ BillDated(bill) /\ bill.at = clock /\ bill.paidAt = Never
  BY BillMade
<1>4. QED
  BY <1>2, <1>3, NewBillKept

PaidIn(bill, p) == bill.arrived /\ bill.paidAt # Never /\ InPeriod(bill.paidAt, p)
SameGoods(bill, row) ==
    /\ bill.buyer = row.buyer /\ bill.away = row.away /\ bill.type = row.type /\ bill.at = row.at
    /\ bill.lines = row.lines /\ bill.grandTotal = row.grandTotal

LEMMA BillChanged ==
    ASSUME RowsInv, NEW b \in DOMAIN sales, NEW bill \in BillRow, BillDated(bill), SameGoods(bill, sales[b]),
           sales' = [sales EXCEPT ![b] = bill], sales[b].arrived => bill.arrived,
           (\E r \in DOMAIN credits : credits[r].bill = b) => bill.status # "CANCELLED",
           UNCHANGED <<clock, zone, changes, credits>>, events' \in Nat, FiledTyped', FiledOver'
    PROVE  /\ RowsInv'
           /\ \A p \in Periods :
                 /\ EndOf(p) <= clock /\ (PaidIn(bill, p) <=> PaidIn(sales[b], p))
                 /\ InPeriod(bill.at, p) /\ bill.arrived =>
                       sales[b].arrived /\ (bill.status = "CANCELLED" <=> sales[b].status = "CANCELLED")
                 => PeriodStands(p)
<1>1. sales \in Seq(BillRow) /\ credits \in Seq(CreditRow) /\ clock \in Nat /\ zone \in Zones
  BY DEF RowsInv, GstTypes
<1>2. /\ sales' \in Seq(BillRow) /\ DOMAIN sales' = DOMAIN sales /\ sales'[b] = bill
      /\ \A c \in DOMAIN sales : sales'[c] = IF c = b THEN bill ELSE sales[c]
  BY <1>1
<1>3. GstTypes'
  BY <1>2 DEF RowsInv, GstTypes
<1>4. BillsDated'
  <2>1. \A some : BillDated(some)' <=> BillDated(some)
    BY DEF BillDated
  <2>2. QED
    BY <1>2, <2>1 DEF RowsInv, BillsDated
<1>5. ReturnsDated'
  <2>1. SUFFICES ASSUME NEW r \in DOMAIN credits PROVE ReturnDated(r)'
    BY DEF ReturnsDated
  <2>2. ReturnDated(r)
    BY DEF RowsInv, ReturnsDated
  <2>3. CASE credits[r].bill = b
    BY <1>2, <2>2, <2>3 DEF ReturnDated, SameGoods
  <2>4. CASE credits[r].bill # b
    BY <1>2, <2>2, <2>4 DEF ReturnDated
  <2>5. QED
    BY <2>3, <2>4
<1>6. ASSUME NEW p \in Periods, EndOf(p) <= clock, PaidIn(bill, p) <=> PaidIn(sales[b], p),
             InPeriod(bill.at, p) /\ bill.arrived =>
                sales[b].arrived /\ (bill.status = "CANCELLED" <=> sales[b].status = "CANCELLED")
      PROVE  PeriodStands(p)
  <2>1. RowsKept
    BY <1>2 DEF RowsKept, GoodsOf, SameGoods
  <2>2. \A c \in DOMAIN sales' : InPeriod(sales'[c].at, p) /\ sales'[c].arrived => c \in DOMAIN sales /\ sales[c].arrived
    BY <1>2, <1>6
  <2>3. \A c \in DOMAIN sales : InPeriod(sales[c].at, p) /\ sales[c].arrived => sales'[c].arrived /\ (Cancelled(c)' <=> Cancelled(c))
    BY <1>2, <1>6 DEF Cancelled, SameGoods
  <2>4. \A r \in DOMAIN credits : Cancelled(credits[r].bill)' <=> Cancelled(credits[r].bill)
    BY <1>2 DEF RowsInv, ReturnsDated, ReturnDated, Cancelled
  <2>5. Collected(p)' = Collected(p)
    <3>1. \A at : InPeriod(at, p)' <=> InPeriod(at, p)
      BY DEF InPeriod
    <3>2. Collected(p) = {c \in DOMAIN sales : PaidIn(sales[c], p)}
      BY DEF Collected, Known, PaidIn
    <3>3. Collected(p)' = {c \in DOMAIN sales' : PaidIn(sales'[c], p)}
      BY <3>1 DEF Collected, Known, PaidIn
    <3>4. \A c \in DOMAIN sales : PaidIn(sales'[c], p) <=> PaidIn(sales[c], p)
      BY <1>2, <1>6
    <3>5. QED
      BY <1>2, <3>2, <3>3, <3>4
  <2>6. QED
    BY <2>1, <2>2, <2>3, <2>4, <2>5, StandsIfOutside
<1>7. QED
  BY <1>3, <1>4, <1>5, <1>6 DEF RowsInv

\* What arrives late marks the returns of its dates, and nothing else of what was filed.
LEMMA LateMarks ==
    ASSUME RowsInv, NEW dates, filed' = Late(dates)
    PROVE  \A g \in filed' : \E f \in filed :
              /\ g.period = f.period /\ g.moved = f.moved /\ g.figures = f.figures /\ g \in FiledRows(g) /\ f \in FiledRows(f)
              /\ g.late <=> (f.late \/ \E at \in dates : InPeriod(at, f.period))
<1>1. SUFFICES ASSUME NEW g \in filed'
               PROVE  \E f \in filed :
                         /\ g.period = f.period /\ g.moved = f.moved /\ g.figures = f.figures /\ g \in FiledRows(g) /\ f \in FiledRows(f)
                         /\ g.late <=> (f.late \/ \E at \in dates : InPeriod(at, f.period))
  OBVIOUS
<1>2. PICK f \in filed : g = [f EXCEPT !.late = @ \/ \E at \in dates : InPeriod(at, f.period)]
  BY <1>1 DEF Late
<1>3. f \in FiledRows(f)
  BY DEF RowsInv, GstTypes, FiledTyped
<1>4. PICK late \in BOOLEAN : late = (f.late \/ \E at \in dates : InPeriod(at, f.period))
  OBVIOUS
<1>5. g = [f EXCEPT !.late = late]
  BY <1>2, <1>4
<1>6. g.period = f.period /\ g.moved = f.moved /\ g.figures = f.figures /\ g.late = late /\ g \in FiledRows(g)
  BY ONLY <1>3, <1>4, <1>5 DEF FiledRows
<1>7. QED
  BY <1>3, <1>4, <1>6

LEMMA LateKept ==
    ASSUME RowsInv, NEW dates, filed' = Late(dates), UNCHANGED <<clock, zone>>
    PROVE  FiledTyped' /\ FiledOver'
<1>1. FiledTyped'
  BY LateMarks DEF FiledTyped, FiledRows
<1>2. \A p : EndOf(p)' = EndOf(p)
  BY DEF EndOf
<1>3. FiledOver'
  <2>1. SUFFICES ASSUME NEW g \in filed', ~g.moved PROVE EndOf(g.period)' <= clock'
    BY DEF FiledOver
  <2>2. PICK f \in filed : g.period = f.period /\ g.moved = f.moved
    BY LateMarks
  <2>3. QED
    BY <1>2, <2>1, <2>2 DEF RowsInv, FiledOver
<1>4. QED
  BY <1>1, <1>3

LEMMA SyncArrivesKept ==
    ASSUME RowsInv, NEW b \in DOMAIN sales, NEW paidAt \in Int, SyncArrives(b, paidAt)
    PROVE  /\ RowsInv' /\ filed' = Late({sales[b].at, paidAt} \ {Never})
           /\ \A p \in Periods : EndOf(p) <= clock /\ (\A at \in {sales[b].at, paidAt} \ {Never} : ~InPeriod(at, p)) => PeriodStands(p)
<1> DEFINE status == IF paidAt = Never THEN "DRAFT" ELSE "SETTLED"
           bill == [sales[b] EXCEPT !.arrived = TRUE, !.paidAt = paidAt, !.status = status]
<1>1. sales[b] \in BillRow /\ BillDated(sales[b]) /\ clock \in Nat
  BY DEF RowsInv, GstTypes, BillsDated
<1>2. ~sales[b].arrived /\ sales[b].status = "DRAFT" /\ paidAt <= clock
  BY <1>1 DEF SyncArrives, BillDated, BillRow, Never
<1>3. status \in BillStatuses /\ (status # "SETTLED" => paidAt = Never) /\ status # "CANCELLED"
  BY DEF BillStatuses
<1>4. sales' = [sales EXCEPT ![b] = bill] /\ UNCHANGED <<clock, zone, changes, credits>> /\ filed' = Late({sales[b].at, paidAt} \ {Never})
  BY <1>1, <1>2 DEF SyncArrives, BillRow
<1>5. /\ bill \in BillRow /\ SameGoods(bill, sales[b])
      /\ bill.arrived /\ bill.status = status /\ bill.paidAt = paidAt /\ bill.at = sales[b].at
  <2> HIDE DEF status
  <2>1. QED
    BY <1>1, <1>3 DEF BillRow, SameGoods
<1> HIDE DEF bill, status
<1>6. BillDated(bill)
  BY <1>1, <1>2, <1>3, <1>5 DEF BillDated, SameGoods
<1>7. FiledTyped' /\ FiledOver'
  BY <1>4, LateKept
<1>8. ~\E r \in DOMAIN credits : credits[r].bill = b
  BY <1>2 DEF RowsInv, ReturnsDated, ReturnDated
<1>9. events' \in Nat
  BY DEF RowsInv, GstTypes, SyncArrives
<1>10. sales[b].at # Never
  BY <1>1 DEF BillRow, Never
<1>11. ASSUME NEW p \in Periods, \A at \in {sales[b].at, paidAt} \ {Never} : ~InPeriod(at, p)
       PROVE  ~InPeriod(bill.at, p) /\ ~PaidIn(bill, p) /\ ~PaidIn(sales[b], p)
  BY <1>2, <1>5, <1>10, <1>11 DEF PaidIn
<1>12. /\ RowsInv'
       /\ \A p \in Periods :
             /\ EndOf(p) <= clock /\ (PaidIn(bill, p) <=> PaidIn(sales[b], p))
             /\ InPeriod(bill.at, p) /\ bill.arrived =>
                   sales[b].arrived /\ (bill.status = "CANCELLED" <=> sales[b].status = "CANCELLED")
             => PeriodStands(p)
  BY <1>2, <1>4, <1>5, <1>6, <1>7, <1>8, <1>9, BillChanged
<1>13. QED
  BY <1>4, <1>11, <1>12

LEMMA PayBillKept ==
    ASSUME RowsInv, NEW b \in DOMAIN sales, PayBill(b)
    PROVE  RowsInv' /\ filed' = filed /\ \A p \in Periods : EndOf(p) <= clock => PeriodStands(p)
<1> DEFINE bill == [sales[b] EXCEPT !.status = "SETTLED", !.paidAt = clock]
<1>1. sales[b] \in BillRow /\ BillDated(sales[b]) /\ clock \in Nat /\ zone \in Zones
  BY DEF RowsInv, GstTypes, BillsDated
<1>2. sales[b].arrived /\ sales[b].status = "DRAFT" /\ sales[b].paidAt = Never
  BY <1>1 DEF PayBill, BillDated
<1>3. bill \in BillRow /\ BillDated(bill) /\ SameGoods(bill, sales[b]) /\ bill.arrived /\ bill.status = "SETTLED" /\ bill.paidAt = clock
  <2>1. bill \in BillRow
    <3>1. \A row \in BillRow : [row EXCEPT !.status = "SETTLED"] \in BillRow
      BY DEF BillRow, BillStatuses
    <3>2. \A row \in BillRow : \A n \in Int : [row EXCEPT !.paidAt = n] \in BillRow
      BY DEF BillRow
    <3>3. PICK row : row = [sales[b] EXCEPT !.status = "SETTLED"]
      OBVIOUS
    <3>4. row \in BillRow
      BY <1>1, <3>1, <3>3
    <3>5. bill = [row EXCEPT !.paidAt = clock]
      BY <1>1, <3>3 DEF BillRow
    <3> HIDE DEF bill
    <3>6. clock \in Int
      BY <1>1
    <3>7. QED
      BY <3>2, <3>4, <3>5, <3>6
  <2>2. SameGoods(bill, sales[b]) /\ bill.arrived = sales[b].arrived /\ bill.status = "SETTLED" /\ bill.paidAt = clock
    BY <1>1 DEF BillRow, SameGoods
  <2>3. bill.arrived
    BY <1>2, <2>2
  <2> HIDE DEF bill
  <2>4. BillDated(bill)
    BY <1>1, <2>2, <2>3 DEF BillDated, SameGoods
  <2>5. QED
    BY <2>1, <2>2, <2>3, <2>4
<1>4. sales' = [sales EXCEPT ![b] = bill] /\ UNCHANGED <<clock, zone, changes, credits, filed>>
  BY DEF PayBill
<1>5. events' \in Nat
  BY DEF RowsInv, GstTypes, PayBill
<1>6. FiledTyped' /\ FiledOver'
  <2>1. FiledOver'
    BY <1>1, <1>4, OverStays
  <2>2. QED
    BY <1>4, <2>1 DEF RowsInv, GstTypes, FiledTyped
<1>7. \A p \in Periods : EndOf(p) <= clock => ~InPeriod(clock, p)
  BY <1>1, OverByNow DEF Periods
<1>8. \A p \in Periods : EndOf(p) <= clock => ~PaidIn(bill, p) /\ ~PaidIn(sales[b], p)
  BY <1>2, <1>3, <1>7 DEF PaidIn
<1> HIDE DEF bill
<1>9. QED
  BY <1>2, <1>3, <1>4, <1>5, <1>6, <1>8, BillChanged

LEMMA CancelSaleKept ==
    ASSUME RowsInv, NEW b \in DOMAIN sales, CancelSale(b)
    PROVE  RowsInv' /\ filed' = filed /\ \A p \in Periods : EndOf(p) <= clock => PeriodStands(p)
<1> DEFINE bill == [sales[b] EXCEPT !.status = "CANCELLED"]
<1>1. sales[b] \in BillRow /\ BillDated(sales[b]) /\ clock \in Nat /\ zone \in Zones
  BY DEF RowsInv, GstTypes, BillsDated
<1>2. /\ sales[b].arrived /\ sales[b].status = "DRAFT" /\ sales[b].paidAt = Never
      /\ (\A r \in DOMAIN credits : credits[r].bill # b) /\ LocalDay(sales[b].at, zone) = LocalDay(clock, zone)
  BY <1>1 DEF CancelSale, Cancellable, BillDated
<1>3. bill \in BillRow /\ BillDated(bill) /\ SameGoods(bill, sales[b]) /\ bill.arrived /\ bill.status = "CANCELLED" /\ bill.paidAt = Never
  BY <1>1, <1>2 DEF BillRow, BillStatuses, BillDated, SameGoods
<1>4. sales' = [sales EXCEPT ![b] = bill] /\ UNCHANGED <<clock, zone, changes, credits, filed>>
  BY DEF CancelSale
<1>5. events' \in Nat
  BY DEF RowsInv, GstTypes, CancelSale
<1>6. FiledTyped' /\ FiledOver'
  <2>1. FiledOver'
    BY <1>1, <1>4, OverStays
  <2>2. QED
    BY <1>4, <2>1 DEF RowsInv, GstTypes, FiledTyped
<1>7. \A p \in Periods : EndOf(p) <= clock => ~InPeriod(bill.at, p)
  <2>1. sales[b].at \in Nat /\ bill.at = sales[b].at
    BY <1>1, <1>3 DEF BillRow, SameGoods
  <2>2. QED
    BY <1>1, <1>2, <2>1, NotToday DEF Periods
<1>8. \A p : ~PaidIn(bill, p) /\ ~PaidIn(sales[b], p)
  BY <1>2, <1>3 DEF PaidIn
<1> HIDE DEF bill
<1>9. QED
  BY <1>2, <1>3, <1>4, <1>5, <1>6, <1>7, <1>8, BillChanged

LEMMA TakeBackKept ==
    ASSUME RowsInv, NEW b \in DOMAIN sales, NEW i \in DOMAIN sales[b].lines, NEW value \in Nat, NEW at \in Nat, at <= clock,
           sales[b].arrived, sales[b].status # "CANCELLED", TakeBack(b, i, value, at),
           UNCHANGED <<clock, zone, changes, sales>>, events' \in Nat, FiledTyped', FiledOver'
    PROVE  RowsInv' /\ \A p \in Periods : EndOf(p) <= clock /\ ~InPeriod(at, p) => PeriodStands(p)
<1> DEFINE before == {r \in DOMAIN credits : credits[r].bill = b /\ credits[r].line = i}
           line == sales[b].lines[i]
           left == line.value - Total([r \in before |-> credits[r].value])
           taxLeft == line.tax - Total([r \in before |-> credits[r].tax])
           tax == IF value = left THEN taxLeft ELSE (line.tax * value) \div line.value
           row == [bill |-> b, line |-> i, value |-> value, at |-> at, tax |-> tax]
<1>1. /\ sales \in Seq(BillRow) /\ credits \in Seq(CreditRow) /\ clock \in Nat /\ zone \in Zones /\ sales[b] \in BillRow
      /\ \A r \in DOMAIN credits : credits[r] \in CreditRow
  BY DEF RowsInv, GstTypes
<1>2. /\ sales[b].arrived /\ sales[b].status # "CANCELLED" /\ value \in 1 .. left
      /\ credits' = Append(credits, row) /\ UNCHANGED <<clock, zone, changes, sales>>
  BY DEF TakeBack
<1>3. b \in Nat /\ i \in Nat /\ line \in LineForms
  <2>1. sales[b].lines \in Seq(LineForms)
    BY <1>1 DEF BillRow
  <2>2. QED
    BY <1>1, <2>1
<1>4. line.value \in Nat /\ line.tax \in Nat
  BY <1>3 DEF LineForms
<1>5. IsFiniteSet(before)
  <2>1. Len(credits) \in Nat /\ DOMAIN credits = 1 .. Len(credits)
    BY <1>1
  <2>2. IsFiniteSet(DOMAIN credits)
    BY <2>1, FS_Interval
  <2>3. QED
    BY <2>2, FS_Subset
<1>6. /\ [r \in before |-> credits[r].value] \in [before -> Int] /\ \A r \in before : [s \in before |-> credits[s].value][r] >= 0
      /\ [r \in before |-> credits[r].tax] \in [before -> Int]
  BY <1>1 DEF CreditRow
<1>7. /\ Total([r \in before |-> credits[r].value]) \in Int /\ Total([r \in before |-> credits[r].value]) >= 0
      /\ Total([r \in before |-> credits[r].tax]) \in Int
  <2> HIDE DEF before
  <2>1. QED
    BY <1>5, <1>6, TotalType
<1>8. left \in Int /\ left <= line.value /\ taxLeft \in Int
  <2> HIDE DEF line, before
  <2>1. QED
    BY <1>4, <1>7
<1>9. tax \in Int
  <2>1. line.value > 0
    <3> HIDE DEF left, line
    <3>1. QED
      BY <1>2, <1>4, <1>8
  <2>2. (line.tax * value) \div line.value \in Int
    <3>1. line.tax * value \in Int
      BY <1>4
    <3> HIDE DEF line
    <3>2. QED
      BY <1>4, <2>1, <3>1
  <2> HIDE DEF left, taxLeft, line
  <2>3. QED
    BY <1>8, <2>2
<1>10. row \in CreditRow
  <2> HIDE DEF tax
  <2>1. QED
    BY <1>1, <1>3, <1>9 DEF CreditRow
<1>11. line.tax = 0 => tax = 0
  <2>1. SUFFICES ASSUME line.tax = 0 PROVE tax = 0
    OBVIOUS
  <2>2. \A r \in before : credits[r].tax = 0
    BY <2>1 DEF RowsInv, ReturnsDated, ReturnDated
  <2>3. Total([r \in before |-> credits[r].tax]) = 0
    <3>1. \A r \in before : [s \in before |-> credits[s].tax][r] = 0
      BY <2>2
    <3> HIDE DEF before
    <3>2. QED
      BY <1>5, <1>6, <3>1, TotalOfNone
  <2>4. taxLeft = 0
    <3> HIDE DEF before, line
    <3>1. QED
      BY <2>1, <2>3
  <2>5. (line.tax * value) \div line.value = 0
    <3>1. line.value > 0 /\ line.tax * value = 0
      <4> HIDE DEF left, line
      <4>1. QED
        BY <1>2, <1>4, <1>8, <2>1
    <3> HIDE DEF line
    <3>2. QED
      BY <1>4, <3>1
  <2> HIDE DEF left, taxLeft, line
  <2>6. QED
    BY <2>4, <2>5
<1>12. row.bill = b /\ row.line = i /\ row.at = at /\ row.tax = tax
  OBVIOUS
<1>13. /\ credits' \in Seq(CreditRow) /\ DOMAIN credits' = DOMAIN credits \cup {Len(credits) + 1}
       /\ Len(credits) + 1 \notin DOMAIN credits /\ credits'[Len(credits) + 1] = row
       /\ \A r \in DOMAIN credits : credits'[r] = credits[r]
  <2> HIDE DEF row
  <2>1. QED
    BY <1>1, <1>2, <1>10, AppendedRow
<1> HIDE DEF row, tax, left, taxLeft
<1>14. GstTypes'
  BY <1>2, <1>13 DEF RowsInv, GstTypes
<1>15. BillsDated'
  BY <1>2 DEF RowsInv, BillsDated, BillDated
<1>16. ReturnsDated'
  <2>1. SUFFICES ASSUME NEW r \in DOMAIN credits' PROVE ReturnDated(r)'
    BY DEF ReturnsDated
  <2>2. CASE r \in DOMAIN credits
    BY <1>2, <1>13, <2>2 DEF RowsInv, ReturnsDated, ReturnDated
  <2>3. CASE r = Len(credits) + 1
    BY <1>1, <1>2, <1>11, <1>12, <1>13, <2>3 DEF ReturnDated
  <2>4. QED
    BY <1>13, <2>1, <2>2, <2>3
<1>17. ASSUME NEW p \in Periods, ~InPeriod(at, p) PROVE PeriodStands(p)
  <2>1. RowsKept
    BY <1>2, <1>13 DEF RowsKept, GoodsOf
  <2>2. \A r \in DOMAIN credits' : InPeriod(credits'[r].at, p) => r \in DOMAIN credits
    BY <1>12, <1>13, <1>17
  <2>3. Collected(p)' = Collected(p) /\ \A c : Cancelled(c)' <=> Cancelled(c)
    BY <1>2 DEF Collected, Known, InPeriod, Cancelled
  <2>4. QED
    BY <1>2, <2>1, <2>2, <2>3, StandsIfOutside
<1>18. QED
  BY <1>2, <1>14, <1>15, <1>16, <1>17 DEF RowsInv

LEMMA CreateReturnKept ==
    ASSUME RowsInv, NEW b \in DOMAIN sales, NEW i \in DOMAIN sales[b].lines, NEW value \in Nat, CreateReturn(b, i, value)
    PROVE  RowsInv' /\ filed' = filed /\ \A p \in Periods : EndOf(p) <= clock => PeriodStands(p)
<1>1. clock \in Nat /\ zone \in Zones /\ events' \in Nat
  BY DEF RowsInv, GstTypes, CreateReturn
<1>2. /\ sales[b].arrived /\ sales[b].status # "CANCELLED" /\ TakeBack(b, i, value, clock)
      /\ UNCHANGED <<clock, zone, changes, sales, filed>>
  BY DEF CreateReturn
<1>3. FiledTyped' /\ FiledOver'
  <2>1. FiledOver'
    BY <1>1, <1>2, OverStays
  <2>2. QED
    BY <1>2, <2>1 DEF RowsInv, GstTypes, FiledTyped
<1>4. RowsInv' /\ \A p \in Periods : EndOf(p) <= clock /\ ~InPeriod(clock, p) => PeriodStands(p)
  BY <1>1, <1>2, <1>3, TakeBackKept
<1>5. \A p \in Periods : EndOf(p) <= clock => ~InPeriod(clock, p)
  BY <1>1, OverByNow DEF Periods
<1>6. QED
  BY <1>2, <1>4, <1>5

LEMMA SyncReturnKept ==
    ASSUME RowsInv, NEW b \in DOMAIN sales, NEW i \in DOMAIN sales[b].lines, NEW value \in Nat, NEW at \in Nat, at <= clock,
           SyncReturn(b, i, value, at)
    PROVE  /\ RowsInv' /\ filed' = Late({at})
           /\ \A p \in Periods : EndOf(p) <= clock /\ ~InPeriod(at, p) => PeriodStands(p)
<1>1. events' \in Nat
  BY DEF RowsInv, GstTypes, SyncReturn
<1>2. /\ sales[b].arrived /\ sales[b].status # "CANCELLED" /\ TakeBack(b, i, value, at)
      /\ UNCHANGED <<clock, zone, changes, sales>> /\ filed' = Late({at})
  BY DEF SyncReturn
<1>3. FiledTyped' /\ FiledOver'
  BY <1>2, LateKept
<1>4. QED
  BY <1>1, <1>2, <1>3, TakeBackKept

\* Nothing happens to the bills, nor to midnight.
LEMMA RestStands ==
    ASSUME UNCHANGED <<zone, sales, credits>>, RowsInv
    PROVE  \A p : PeriodStands(p)
<1>1. ASSUME NEW p PROVE PeriodStands(p)
  <2>1. Dated(p)' = Dated(p) /\ CameBack(p)' = CameBack(p) /\ Collected(p)' = Collected(p)
    BY DEF Dated, CameBack, Collected, Known, InPeriod
  <2>2. \A b : (Cancelled(b)' <=> Cancelled(b)) /\ GoodsOf(b)' = GoodsOf(b)
    BY DEF Cancelled, GoodsOf
  <2>3. \A r \in CameBack(p) : credits'[r] = credits[r] /\ credits[r].bill \in DOMAIN sales
    BY DEF CameBack, RowsInv, ReturnsDated, ReturnDated
  <2>4. QED
    BY <2>1, <2>2, <2>3 DEF PeriodStands
<1>2. QED
  BY <1>1

LEMMA RowsRested ==
    ASSUME RowsInv, UNCHANGED <<sales, credits>>, clock' \in Nat, clock <= clock'
    PROVE  BillsDated' /\ ReturnsDated'
<1>1. /\ \A b \in DOMAIN sales : sales[b] \in BillRow
      /\ \A r \in DOMAIN credits : credits[r] \in CreditRow
      /\ clock \in Nat
  BY DEF RowsInv, GstTypes
<1>2. BillsDated'
  <2>1. \A b \in DOMAIN sales : BillDated(sales[b])
    BY DEF RowsInv, BillsDated
  <2>2. \A bill \in BillRow : BillDated(bill) => BillDated(bill)'
    BY DatesStay
  <2>3. \A b \in DOMAIN sales' : BillDated(sales'[b])
    BY <2>1
  <2>4. SUFFICES ASSUME NEW b \in DOMAIN sales PROVE BillDated(sales[b])'
    BY DEF BillsDated
  <2>5. sales[b].at \in Int /\ sales[b].paidAt \in Int /\ BillDated(sales[b])
    BY <1>1, <2>1 DEF BillRow
  <2>6. sales[b].at <= clock' /\ sales[b].paidAt <= clock'
    BY <1>1, <2>5 DEF BillDated
  <2>7. QED
    BY <2>5, <2>6 DEF BillDated
<1>3. ReturnsDated'
  <2>1. SUFFICES ASSUME NEW r \in DOMAIN credits PROVE ReturnDated(r)'
    BY DEF ReturnsDated
  <2>2. credits[r].at \in Nat /\ ReturnDated(r)
    BY <1>1 DEF CreditRow, RowsInv, ReturnsDated
  <2>3. credits[r].at <= clock'
    BY <1>1, <2>2 DEF ReturnDated
  <2>4. QED
    BY <2>2, <2>3 DEF ReturnDated
<1>4. QED
  BY <1>2, <1>3

LEMMA ChangeKept ==
    ASSUME RowsInv, (\E type \in Types, day \in Int : ChangeTaxpayerType(type, day)) \/ CancelTaxpayerTypeChange
    PROVE  RowsInv' /\ filed' = filed /\ \A p : PeriodStands(p)
<1>1. UNCHANGED <<clock, zone, sales, credits, filed>> /\ clock \in Nat /\ changes \in Seq(ChangeRow) /\ zone \in Zones
  BY DEF RowsInv, GstTypes, ChangeTaxpayerType, CancelTaxpayerTypeChange
<1>2. changes' \in Seq(ChangeRow) /\ events' \in Nat
  <2>1. CASE \E type \in Types, day \in Int : ChangeTaxpayerType(type, day)
    <3>1. PICK type \in Types, day \in Int : ChangeTaxpayerType(type, day)
      BY <2>1
    <3>2. PICK row : changes' = Append(changes, row) /\ events' = events + 1
                     /\ row = [type |-> type, date |-> day, from |-> IF day = LocalDay(clock, zone) THEN clock ELSE StartOfLocalDay(day, zone)]
      BY <3>1 DEF ChangeTaxpayerType
    <3>3. StartOfLocalDay(day, zone) \in Int
      BY <1>1, GstAssumption DEF StartOfLocalDay
    <3>4. row \in ChangeRow
      BY <1>1, <3>2, <3>3 DEF ChangeRow
    <3>5. QED
      BY <1>1, <3>2, <3>4 DEF RowsInv, GstTypes
  <2>2. CASE CancelTaxpayerTypeChange
    <3>1. changes' = SubSeq(changes, 1, Len(changes) - 1) /\ changes # <<>> /\ events' = events
      BY <1>1, <2>2 DEF CancelTaxpayerTypeChange, Scheduled, Front
    <3>2. Len(changes) \in Nat /\ Len(changes) # 0
      BY <1>1, <3>1
    <3>3. changes' \in Seq(ChangeRow)
      BY <1>1, <3>1, <3>2, SubSeqProperties
    <3>4. QED
      BY <3>1, <3>3 DEF RowsInv, GstTypes
  <2>3. QED
    BY <2>1, <2>2
<1>3. GstTypes'
  BY <1>1, <1>2 DEF RowsInv, GstTypes, FiledTyped
<1>4. BillsDated' /\ ReturnsDated'
  BY <1>1, RowsRested
<1>5. FiledOver'
  BY <1>1, OverStays
<1>6. QED
  BY <1>1, <1>3, <1>4, <1>5, RestStands DEF RowsInv

LEMMA TickKept ==
    ASSUME RowsInv, Tick
    PROVE  RowsInv' /\ filed' = filed /\ \A p : PeriodStands(p)
<1>1. clock \in Nat /\ clock' = clock + 1 /\ UNCHANGED <<zone, events, changes, sales, credits, filed>>
  BY DEF RowsInv, GstTypes, Tick
<1>2. GstTypes'
  BY <1>1 DEF RowsInv, GstTypes, FiledTyped
<1>3. BillsDated' /\ ReturnsDated'
  BY <1>1, RowsRested
<1>4. FiledOver'
  BY <1>1, OverStays
<1>5. QED
  BY <1>1, <1>2, <1>3, <1>4, RestStands DEF RowsInv

LEMMA ChangeTimezoneKept ==
    ASSUME RowsInv, NEW z \in Zones, ChangeTimezone(z)
    PROVE  RowsInv' /\ \A f \in filed' : f.moved
<1>1. /\ clock \in Nat /\ changes \in Seq(ChangeRow) /\ zone' = z /\ events' = events + 1
      /\ UNCHANGED <<clock, sales, credits>> /\ events \in Nat
  BY DEF RowsInv, GstTypes, ChangeTimezone
<1>2. \A f \in filed : [f EXCEPT !.moved = TRUE] \in [period : Periods, moved : {TRUE}, late : BOOLEAN, figures : {f.figures}]
  <2>1. SUFFICES ASSUME NEW f \in filed
                 PROVE [f EXCEPT !.moved = TRUE] \in [period : Periods, moved : {TRUE}, late : BOOLEAN, figures : {f.figures}]
    OBVIOUS
  <2>2. f \in FiledRows(f)
    BY DEF RowsInv, GstTypes, FiledTyped
  <2>3. QED
    BY ONLY <2>2 DEF FiledRows
<1>3. \A g \in filed' : g \in [period : Periods, moved : {TRUE}, late : BOOLEAN, figures : {g.figures}]
  <2>1. SUFFICES ASSUME NEW g \in filed' PROVE g \in [period : Periods, moved : {TRUE}, late : BOOLEAN, figures : {g.figures}]
    OBVIOUS
  <2>2. PICK f \in filed : g = [f EXCEPT !.moved = TRUE]
    BY <2>1 DEF ChangeTimezone
  <2>3. PICK figures : g \in [period : Periods, moved : {TRUE}, late : BOOLEAN, figures : {figures}]
    BY <1>2, <2>2, Zenon
  <2>4. QED
    BY ONLY <2>3
<1>4. FiledTyped' /\ \A f \in filed' : f.moved
  BY <1>3 DEF FiledTyped, FiledRows
<1>5. changes' \in Seq(ChangeRow)
  <2> DEFINE At(i) == Max({clock, StartOfLocalDay(changes[i].date, z)})
             Moved(i) == IF i \in Scheduled THEN [changes[i] EXCEPT !.from = At(i)] ELSE changes[i]
  <2>1. Len(changes) \in Nat /\ DOMAIN changes = 1 .. Len(changes) /\ \A i \in DOMAIN changes : changes[i] \in ChangeRow
    BY <1>1
  <2>2. changes' = [i \in DOMAIN changes |-> Moved(i)]
    BY DEF ChangeTimezone
  <2>3. \A i \in DOMAIN changes : At(i) \in Int
    <3>1. SUFFICES ASSUME NEW i \in DOMAIN changes PROVE At(i) \in Int
      OBVIOUS
    <3>2. PICK n \in Int : n = StartOfLocalDay(changes[i].date, z)
      BY <2>1, GstAssumption DEF ChangeRow, StartOfLocalDay
    <3>3. PICK m \in Int : m = clock
      BY <1>1
    <3>4. \E x \in {m, n} : \A y \in {m, n} : x >= y
      BY <3>2, <3>3
    <3>5. Max({m, n}) \in {m, n}
      BY <3>4 DEF Max
    <3>6. QED
      BY <3>2, <3>3, <3>5
  <2> HIDE DEF At
  <2>4. \A i \in DOMAIN changes : Moved(i) \in ChangeRow
    BY <2>1, <2>3 DEF ChangeRow
  <2> HIDE DEF Moved
  <2>5. QED
    BY <2>1, <2>2, <2>4
<1>6. BillsDated' /\ ReturnsDated'
  BY <1>1, RowsRested
<1>7. GstTypes'
  BY <1>1, <1>4, <1>5 DEF RowsInv, GstTypes
<1>8. FiledOver'
  BY <1>4 DEF FiledOver
<1>9. QED
  BY <1>4, <1>6, <1>7, <1>8 DEF RowsInv

LEMMA FileKept ==
    ASSUME RowsInv, NEW p \in Periods, File(p)
    PROVE  /\ RowsInv' /\ \A q : PeriodStands(q)
           /\ filed' = filed \cup {[period |-> p, moved |-> FALSE, late |-> FALSE, figures |-> Figures(p)]}
<1>1. /\ clock \in Nat /\ EndOf(p) <= clock /\ UNCHANGED <<clock, zone, events, changes, sales, credits>>
      /\ filed' = filed \cup {[period |-> p, moved |-> FALSE, late |-> FALSE, figures |-> Figures(p)]}
  BY DEF RowsInv, GstTypes, File, EndOf
<1>2. FiledTyped'
  <2>1. SUFFICES ASSUME NEW g \in filed' PROVE g \in FiledRows(g)
    BY DEF FiledTyped, FiledRows
  <2>2. CASE g \in filed
    BY <2>2 DEF RowsInv, GstTypes, FiledTyped
  <2>3. CASE g = [period |-> p, moved |-> FALSE, late |-> FALSE, figures |-> Figures(p)]
    BY ONLY <2>3, p \in Periods DEF FiledRows
  <2>4. QED
    BY <1>1, <2>1, <2>2, <2>3
<1>3. GstTypes'
  BY <1>1, <1>2 DEF RowsInv, GstTypes
<1>4. BillsDated' /\ ReturnsDated'
  BY <1>1, RowsRested
<1>5. FiledOver'
  <2>1. \A q : EndOf(q)' = EndOf(q)
    BY <1>1 DEF EndOf
  <2>2. QED
    BY <1>1, <2>1 DEF RowsInv, FiledOver
<1>6. QED
  BY <1>1, <1>3, <1>4, <1>5, RestStands DEF RowsInv

(* What was filed stands. *)

LEMMA FiledKept ==
    ASSUME RowsInv, FiledStands, filed' = filed, \A p \in Periods : EndOf(p) <= clock => PeriodStands(p)
    PROVE  FiledStands'
<1>1. SUFFICES ASSUME NEW f \in filed, ~f.moved, ~f.late PROVE Figures(f.period)' = f.figures
  BY DEF FiledStands
<1>2. f.period \in Periods /\ EndOf(f.period) <= clock /\ Figures(f.period) = f.figures
  BY <1>1 DEF RowsInv, GstTypes, FiledTyped, FiledRows, FiledOver, FiledStands
<1>3. QED
  BY <1>2, FiguresSame

\* But for the periods of what arrives late.
LEMMA LateStands ==
    ASSUME RowsInv, FiledStands, NEW dates, filed' = Late(dates),
           \A p \in Periods : EndOf(p) <= clock /\ (\A at \in dates : ~InPeriod(at, p)) => PeriodStands(p)
    PROVE  FiledStands'
<1>1. SUFFICES ASSUME NEW g \in filed', ~g.moved, ~g.late PROVE Figures(g.period)' = g.figures
  BY DEF FiledStands
<1>2. PICK f \in filed : /\ g.period = f.period /\ g.moved = f.moved /\ g.figures = f.figures /\ f \in FiledRows(f)
                         /\ g.late <=> (f.late \/ \E at \in dates : InPeriod(at, f.period))
  BY LateMarks
<1>3. f.period \in Periods /\ EndOf(f.period) <= clock /\ Figures(f.period) = f.figures
  BY <1>1, <1>2 DEF RowsInv, FiledOver, FiledStands, FiledRows
<1>4. PeriodStands(f.period)
  BY <1>1, <1>2, <1>3
<1>5. QED
  BY <1>2, <1>3, <1>4, FiguresSame

GstInv == RowsInv /\ FiledStands

THEOREM GstInvHolds == GstSpec => []GstInv
<1>1. GstInit => GstInv
  <2>1. SUFFICES ASSUME GstInit PROVE GstInv
    OBVIOUS
  <2>2. GstTypes /\ BillsDated /\ ReturnsDated /\ FiledOver /\ FiledStands
    <3>1. clock = 0 /\ zone \in Zones /\ events = 0 /\ changes = <<>> /\ sales = <<>> /\ credits = <<>> /\ filed = {}
      BY <2>1, GstAssumption DEF GstInit
    <3>2. QED
      BY <3>1 DEF GstTypes, FiledTyped, BillsDated, ReturnsDated, FiledOver, FiledStands
  <2>3. QED
    BY <2>2 DEF GstInv, RowsInv
<1>2. GstInv /\ [GstNext]_gstVars => GstInv'
  <2>1. SUFFICES ASSUME RowsInv, FiledStands, [GstNext]_gstVars PROVE RowsInv' /\ FiledStands'
    BY DEF GstInv
  <2>2. ASSUME NEW form \in Forms, MakeSale(form) \/ SellOffline(form) PROVE RowsInv' /\ FiledStands'
    BY <2>1, <2>2, MakeSaleKept, FiledKept
  <2>3. ASSUME NEW b \in DOMAIN sales, NEW paidAt \in {Never} \cup 0 .. clock, SyncArrives(b, paidAt) PROVE RowsInv' /\ FiledStands'
    <3>1. paidAt \in Int
      BY <2>1 DEF RowsInv, GstTypes, Never
    <3>2. /\ RowsInv' /\ filed' = Late({sales[b].at, paidAt} \ {Never})
          /\ \A p \in Periods : EndOf(p) <= clock /\ (\A at \in {sales[b].at, paidAt} \ {Never} : ~InPeriod(at, p)) => PeriodStands(p)
      BY <2>1, <2>3, <3>1, SyncArrivesKept
    <3>3. QED
      BY <2>1, <3>2, LateStands
  <2>4. ASSUME NEW b \in DOMAIN sales, PayBill(b) PROVE RowsInv' /\ FiledStands'
    BY <2>1, <2>4, PayBillKept, FiledKept
  <2>5. ASSUME NEW b \in DOMAIN sales, CancelSale(b) PROVE RowsInv' /\ FiledStands'
    BY <2>1, <2>5, CancelSaleKept, FiledKept
  <2>6. ASSUME NEW b \in DOMAIN sales, NEW i \in DOMAIN sales[b].lines, NEW value \in 1 .. sales[b].lines[i].value,
               CreateReturn(b, i, value) \/ \E at \in 0 .. clock : SyncReturn(b, i, value, at)
        PROVE  RowsInv' /\ FiledStands'
    <3>1. value \in Nat
      <4>1. sales \in Seq(BillRow)
        BY <2>1 DEF RowsInv, GstTypes
      <4>2. sales[b].lines \in Seq(LineForms)
        <5>1. sales[b] \in BillRow
          BY <4>1
        <5>2. QED
          BY <5>1 DEF BillRow
      <4>3. sales[b].lines[i].value \in Nat
        BY <4>2 DEF LineForms
      <4>4. QED
        BY <4>3
    <3>2. CASE CreateReturn(b, i, value)
      BY <2>1, <3>1, <3>2, CreateReturnKept, FiledKept
    <3>3. ASSUME NEW at \in 0 .. clock, SyncReturn(b, i, value, at) PROVE RowsInv' /\ FiledStands'
      <4>1. at \in Nat /\ at <= clock
        BY <2>1 DEF RowsInv, GstTypes
      <4>2. /\ RowsInv' /\ filed' = Late({at})
            /\ \A p \in Periods : EndOf(p) <= clock /\ ~InPeriod(at, p) => PeriodStands(p)
        BY <2>1, <3>1, <3>3, <4>1, SyncReturnKept
      <4>3. QED
        BY <2>1, <4>2, LateStands
    <3>4. QED
      BY <2>6, <3>2, <3>3
  <2>7. ASSUME (\E type \in Types, day \in 0 .. LastPeriod * PeriodDays : ChangeTaxpayerType(type, day)) \/ CancelTaxpayerTypeChange
        PROVE  RowsInv' /\ FiledStands'
    <3>1. (\E type \in Types, day \in Int : ChangeTaxpayerType(type, day)) \/ CancelTaxpayerTypeChange
      BY <2>7
    <3>2. QED
      BY <2>1, <3>1, ChangeKept, FiledKept
  <2>8. ASSUME NEW z \in Zones, ChangeTimezone(z) PROVE RowsInv' /\ FiledStands'
    BY <2>1, <2>8, ChangeTimezoneKept DEF FiledStands
  <2>9. ASSUME NEW p \in Periods, File(p) PROVE RowsInv' /\ FiledStands'
    <3>1. /\ RowsInv' /\ \A q : PeriodStands(q)
          /\ filed' = filed \cup {[period |-> p, moved |-> FALSE, late |-> FALSE, figures |-> Figures(p)]}
      BY <2>1, <2>9, FileKept
    <3>2. \A q : Figures(q)' = Figures(q)
      BY <3>1, FiguresSame
    <3>3. QED
      BY <2>1, <3>1, <3>2 DEF FiledStands
  <2>10. ASSUME Tick PROVE RowsInv' /\ FiledStands'
    BY <2>1, <2>10, TickKept, FiledKept
  <2>11. ASSUME UNCHANGED gstVars PROVE RowsInv' /\ FiledStands'
    <3>1. UNCHANGED <<clock, zone, events, changes, sales, credits, filed>> /\ clock \in Nat
      BY <2>1, <2>11 DEF gstVars, RowsInv, GstTypes
    <3>2. GstTypes'
      BY <2>1, <3>1 DEF RowsInv, GstTypes, FiledTyped
    <3>3. BillsDated' /\ ReturnsDated' /\ FiledOver'
      BY <2>1, <3>1, RowsRested, OverStays
    <3>4. QED
      BY <2>1, <3>1, <3>2, <3>3, RestStands, FiledKept DEF RowsInv
  <2>12. QED
    BY <2>1, <2>2, <2>3, <2>4, <2>5, <2>6, <2>7, <2>8, <2>9, <2>10, <2>11 DEF GstNext
<1>3. QED
  BY <1>1, <1>2, PTL DEF GstSpec

\* A period that is over keeps its figures, whatever is paid, cancelled or returned afterwards: nothing the
\* returns and reports are worked out from is dated in it any more (gst.service.ts, reports.service.ts).
THEOREM FiledStandsHolds == GstSpec => []FiledStands
<1>1. GstInv => FiledStands
  BY DEF GstInv
<1>2. QED
  BY <1>1, GstInvHolds, PTL

-----------------------------------------------------------------------------
(* The tables of a period add up.                                          *)

Summable(S) == IsFiniteSet(S) /\ \A e \in S : e.value \in Int /\ e.tax \in Int
Figure == [txval : Int, tax : Int]

LEMMA SummablePart ==
    ASSUME NEW S, NEW T, Summable(S), T \subseteq S
    PROVE  Summable(T)
<1>1. IsFiniteSet(T)
  BY FS_Subset DEF Summable
<1>2. QED
  BY <1>1 DEF Summable

LEMMA AmountsTyped ==
    ASSUME NEW S, Summable(S)
    PROVE  Amounts(S) \in Figure /\ Amounts(S).txval \in Int /\ Amounts(S).tax \in Int
<1>1. PICK v, t : v = [e \in S |-> e.value] /\ t = [e \in S |-> e.tax]
  OBVIOUS
<1>2. v \in [S -> Int] /\ t \in [S -> Int] /\ IsFiniteSet(S)
  BY <1>1 DEF Summable
<1>3. Total(v) \in Int /\ Total(t) \in Int
  BY <1>2, TotalType
<1>4. Amounts(S) = [txval |-> Total(v), tax |-> Total(t)]
  BY <1>1 DEF Amounts
<1>5. QED
  BY <1>3, <1>4 DEF Figure

LEMMA AmountsOfParts ==
    ASSUME NEW S, NEW T, NEW R, Summable(S), T \subseteq S, R = S \ T
    PROVE  Amounts(S) = Plus(Amounts(T), Amounts(R))
<1>1. PICK v, a, b : v = [e \in S |-> e.value] /\ a = [e \in T |-> e.value] /\ b = [e \in R |-> e.value]
  OBVIOUS
<1>2. PICK t, c, d : t = [e \in S |-> e.tax] /\ c = [e \in T |-> e.tax] /\ d = [e \in R |-> e.tax]
  OBVIOUS
<1>3. v \in [S -> Int] /\ a \in [T -> Int] /\ b \in [R -> Int] /\ \A e \in T : a[e] = v[e]
  BY <1>1 DEF Summable
<1>4. t \in [S -> Int] /\ c \in [T -> Int] /\ d \in [R -> Int] /\ \A e \in T : c[e] = t[e]
  BY <1>2 DEF Summable
<1>5. (\A e \in R : b[e] = v[e]) /\ (\A e \in R : d[e] = t[e]) /\ IsFiniteSet(S) /\ T \subseteq S /\ R = S \ T
  BY <1>1, <1>2 DEF Summable
<1>6. Total(v) = Total(a) + Total(b)
  BY ONLY <1>3, <1>5, TotalInParts
<1>7. Total(t) = Total(c) + Total(d)
  BY ONLY <1>4, <1>5, TotalInParts
<1>8. QED
  BY <1>1, <1>2, <1>6, <1>7 DEF Amounts, Plus

LEMMA AmountsUntaxed ==
    ASSUME NEW S, Summable(S), \A e \in S : e.tax = 0
    PROVE  Amounts(S).tax = 0
<1>1. PICK t : t = [e \in S |-> e.tax]
  OBVIOUS
<1>2. t \in [S -> Int] /\ IsFiniteSet(S) /\ \A e \in S : t[e] = 0
  BY <1>1 DEF Summable
<1>3. Total(t) = 0
  BY <1>2, TotalOfNone
<1>4. QED
  BY <1>1, <1>3 DEF Amounts

LEMMA AmountsOfNone == Summable({}) /\ Amounts({}) = [txval |-> 0, tax |-> 0]
<1>1. Summable({})
  BY FS_EmptySet DEF Summable
<1>2. PICK v, t : v = [e \in {} |-> e.value] /\ t = [e \in {} |-> e.tax]
  OBVIOUS
<1>3. v \in [{} -> Int] /\ t \in [{} -> Int] /\ (\A e \in {} : v[e] = 0) /\ (\A e \in {} : t[e] = 0) /\ IsFiniteSet({})
  BY <1>2, FS_EmptySet
<1>4. Total(v) = 0 /\ Total(t) = 0
  BY <1>3, TotalOfNone
<1>5. QED
  BY <1>1, <1>2, <1>4 DEF Amounts

LEMMA AmountsByGroup ==
    ASSUME NEW S, NEW Q, NEW key, Summable(S), IsFiniteSet(Q), \A e \in S : key[e] \in Q
    PROVE  /\ Total([k \in Q |-> Amounts(PartOf(S, key, k)).txval]) = Amounts(S).txval
           /\ Total([k \in Q |-> Amounts(PartOf(S, key, k)).tax]) = Amounts(S).tax
<1>1. PICK v, t : v = [e \in S |-> e.value] /\ t = [e \in S |-> e.tax]
  OBVIOUS
<1>2. IsFiniteSet(S) /\ IsFiniteSet(Q) /\ \A e \in S : key[e] \in Q
  BY DEF Summable
<1>3. v \in [S -> Int]
  BY <1>1 DEF Summable
<1>4. t \in [S -> Int]
  BY <1>1 DEF Summable
<1>5. Total(v) = Total([k \in Q |-> Total([e \in PartOf(S, key, k) |-> v[e]])])
  BY ONLY <1>2, <1>3, TotalByGroup
<1>6. Total(t) = Total([k \in Q |-> Total([e \in PartOf(S, key, k) |-> t[e]])])
  BY ONLY <1>2, <1>4, TotalByGroup
<1>7. ASSUME NEW k \in Q
      PROVE  /\ Total([e \in PartOf(S, key, k) |-> v[e]]) = Amounts(PartOf(S, key, k)).txval
             /\ Total([e \in PartOf(S, key, k) |-> t[e]]) = Amounts(PartOf(S, key, k)).tax
  <2>1. PartOf(S, key, k) \subseteq S
    BY DEF PartOf
  <2>2. /\ [e \in PartOf(S, key, k) |-> v[e]] = [e \in PartOf(S, key, k) |-> e.value]
        /\ [e \in PartOf(S, key, k) |-> t[e]] = [e \in PartOf(S, key, k) |-> e.tax]
    BY <1>1, <2>1
  <2>3. QED
    BY <2>2 DEF Amounts
<1>8. /\ [k \in Q |-> Total([e \in PartOf(S, key, k) |-> v[e]])] = [k \in Q |-> Amounts(PartOf(S, key, k)).txval]
      /\ [k \in Q |-> Total([e \in PartOf(S, key, k) |-> t[e]])] = [k \in Q |-> Amounts(PartOf(S, key, k)).tax]
  BY <1>7
<1>9. Amounts(S).txval = Total(v) /\ Amounts(S).tax = Total(t)
  BY <1>1 DEF Amounts
<1>10. QED
  BY <1>5, <1>6, <1>8, <1>9

(* A table sums to what was sold less what came back. *)

KeysOf(S, R, key) == {key[e] : e \in S \cup R}
RowsBy(S, R, key) ==
    [k \in KeysOf(S, R, key) |-> Less(Amounts(PartOf(S, key, k)), Amounts(PartOf(R, key, k)))]
Tabled(sect) == IsFiniteSet(DOMAIN sect) /\ sect \in [DOMAIN sect -> Figure]

LEMMA RowsTabled ==
    ASSUME NEW S, NEW R, NEW key, Summable(S), Summable(R)
    PROVE  Tabled(RowsBy(S, R, key))
<1>1. IsFiniteSet(KeysOf(S, R, key))
  <2>1. IsFiniteSet(S \cup R)
    BY FS_Union DEF Summable
  <2>2. [e \in S \cup R |-> key[e]] \in Surjection(S \cup R, KeysOf(S, R, key))
    BY DEF KeysOf, Surjection
  <2>3. QED
    BY <2>1, <2>2, FS_Surjection
<1>2. ASSUME NEW k PROVE Less(Amounts(PartOf(S, key, k)), Amounts(PartOf(R, key, k))) \in Figure
  <2>1. PartOf(S, key, k) \subseteq S /\ PartOf(R, key, k) \subseteq R
    BY DEF PartOf
  <2>2. Summable(PartOf(S, key, k)) /\ Summable(PartOf(R, key, k))
    BY <2>1, SummablePart
  <2>3. QED
    BY <2>2, AmountsTyped DEF Less, Figure
<1>3. QED
  BY <1>1, <1>2 DEF RowsBy, Tabled

LEMMA RowsTotal ==
    ASSUME NEW S, NEW R, NEW key, Summable(S), Summable(R)
    PROVE  RowsSum(RowsBy(S, R, key)) = Less(Amounts(S), Amounts(R))
<1> DEFINE Q == KeysOf(S, R, key)
           sect == RowsBy(S, R, key)
<1>1. IsFiniteSet(Q) /\ DOMAIN sect = Q /\ sect \in [Q -> Figure]
  BY RowsTabled DEF Tabled, RowsBy
<1>2. Summable(S) /\ IsFiniteSet(Q) /\ \A e \in S : key[e] \in Q
  BY <1>1 DEF KeysOf
<1>3. Summable(R) /\ IsFiniteSet(Q) /\ \A e \in R : key[e] \in Q
  BY <1>1 DEF KeysOf
<1>4. \A k \in Q : /\ sect[k] = Less(Amounts(PartOf(S, key, k)), Amounts(PartOf(R, key, k)))
                   /\ Amounts(PartOf(S, key, k)) \in Figure /\ Amounts(PartOf(R, key, k)) \in Figure
  <2>1. SUFFICES ASSUME NEW k \in Q PROVE Amounts(PartOf(S, key, k)) \in Figure /\ Amounts(PartOf(R, key, k)) \in Figure
    BY DEF RowsBy
  <2>2. PartOf(S, key, k) \subseteq S /\ PartOf(R, key, k) \subseteq R
    BY DEF PartOf
  <2>3. QED
    BY <2>2, SummablePart, AmountsTyped
<1> HIDE DEF Q, sect
<1>5. Total([k \in Q |-> sect[k].txval]) = Amounts(S).txval - Amounts(R).txval
  <2>1. PICK a, b, d : /\ a = [k \in Q |-> Amounts(PartOf(S, key, k)).txval]
                       /\ b = [k \in Q |-> Amounts(PartOf(R, key, k)).txval] /\ d = [k \in Q |-> sect[k].txval]
    OBVIOUS
  <2>2. a \in [Q -> Int] /\ b \in [Q -> Int] /\ d \in [Q -> Int] /\ \A k \in Q : a[k] = d[k] + b[k]
    BY <1>1, <1>4, <2>1 DEF Figure, Less
  <2>3. Total(a) = Total(d) + Total(b) /\ Total(d) \in Int /\ Total(b) \in Int
    BY <1>1, <2>2, TotalPlus, TotalType
  <2>4. Total([k \in Q |-> Amounts(PartOf(S, key, k)).txval]) = Amounts(S).txval
    BY ONLY <1>2, AmountsByGroup
  <2>5. Total([k \in Q |-> Amounts(PartOf(R, key, k)).txval]) = Amounts(R).txval
    BY ONLY <1>3, AmountsByGroup
  <2>6. QED
    BY <2>1, <2>3, <2>4, <2>5
<1>6. Total([k \in Q |-> sect[k].tax]) = Amounts(S).tax - Amounts(R).tax
  <2>1. PICK a, b, d : /\ a = [k \in Q |-> Amounts(PartOf(S, key, k)).tax]
                       /\ b = [k \in Q |-> Amounts(PartOf(R, key, k)).tax] /\ d = [k \in Q |-> sect[k].tax]
    OBVIOUS
  <2>2. a \in [Q -> Int] /\ b \in [Q -> Int] /\ d \in [Q -> Int] /\ \A k \in Q : a[k] = d[k] + b[k]
    BY <1>1, <1>4, <2>1 DEF Figure, Less
  <2>3. Total(a) = Total(d) + Total(b) /\ Total(d) \in Int /\ Total(b) \in Int
    BY <1>1, <2>2, TotalPlus, TotalType
  <2>4. Total([k \in Q |-> Amounts(PartOf(S, key, k)).tax]) = Amounts(S).tax
    BY ONLY <1>2, AmountsByGroup
  <2>5. Total([k \in Q |-> Amounts(PartOf(R, key, k)).tax]) = Amounts(R).tax
    BY ONLY <1>3, AmountsByGroup
  <2>6. QED
    BY <2>1, <2>3, <2>4, <2>5
<1>7. QED
  BY <1>1, <1>5, <1>6 DEF RowsSum, Less, sect

(* GSTR-1's sections and GSTR-3B over the same lines. *)

ListedOf(entries) == Taxed({e \in entries : e.b2b})
LargeOf(entries) == Taxed({e \in entries : ~e.b2b /\ e.b2cl})
SmallOf(entries) == Taxed({e \in entries : ~e.b2b /\ ~e.b2cl})
NetOf(sect) == [k \in {k \in DOMAIN sect : sect[k].txval # 0 \/ sect[k].tax # 0} |-> sect[k]]
SumsTo(sect, S, R) == Tabled(sect) /\ RowsSum(sect) = Less(Amounts(S), Amounts(R))

LEMMA RowsAreBy ==
    ASSUME NEW S, NEW R
    PROVE  /\ \E key : Rows(S, R, ByDocument) = RowsBy(S, R, key)
           /\ \E key : Rows(S, R, ByStateAndRate) = RowsBy(S, R, key)
           /\ \E key : Rows(S, R, ByHsn) = RowsBy(S, R, key)
           /\ \E key : Rows(S, R, ByNilKind) = RowsBy(S, R, key)
<1>1. Rows(S, R, ByDocument) = RowsBy(S, R, [e \in S \cup R |-> ByDocument(e)])
  <2> DEFINE key == [e \in S \cup R |-> ByDocument(e)]
  <2>1. \A k : PartOf(S, key, k) = {e \in S : ByDocument(e) = k} /\ PartOf(R, key, k) = {e \in R : ByDocument(e) = k}
    BY DEF PartOf
  <2>2. KeysOf(S, R, key) = {ByDocument(e) : e \in S \cup R}
    BY DEF KeysOf
  <2> HIDE DEF key
  <2>3. RowsBy(S, R, key) = Rows(S, R, ByDocument)
    BY <2>1, <2>2 DEF Rows, RowsBy
  <2>4. QED
    BY <2>3 DEF key
<1>2. Rows(S, R, ByStateAndRate) = RowsBy(S, R, [e \in S \cup R |-> ByStateAndRate(e)])
  <2> DEFINE key == [e \in S \cup R |-> ByStateAndRate(e)]
  <2>1. \A k : PartOf(S, key, k) = {e \in S : ByStateAndRate(e) = k} /\ PartOf(R, key, k) = {e \in R : ByStateAndRate(e) = k}
    BY DEF PartOf
  <2>2. KeysOf(S, R, key) = {ByStateAndRate(e) : e \in S \cup R}
    BY DEF KeysOf
  <2> HIDE DEF key
  <2>3. RowsBy(S, R, key) = Rows(S, R, ByStateAndRate)
    BY <2>1, <2>2 DEF Rows, RowsBy
  <2>4. QED
    BY <2>3 DEF key
<1>3. Rows(S, R, ByHsn) = RowsBy(S, R, [e \in S \cup R |-> ByHsn(e)])
  <2> DEFINE key == [e \in S \cup R |-> ByHsn(e)]
  <2>1. \A k : PartOf(S, key, k) = {e \in S : ByHsn(e) = k} /\ PartOf(R, key, k) = {e \in R : ByHsn(e) = k}
    BY DEF PartOf
  <2>2. KeysOf(S, R, key) = {ByHsn(e) : e \in S \cup R}
    BY DEF KeysOf
  <2> HIDE DEF key
  <2>3. RowsBy(S, R, key) = Rows(S, R, ByHsn)
    BY <2>1, <2>2 DEF Rows, RowsBy
  <2>4. QED
    BY <2>3 DEF key
<1>4. Rows(S, R, ByNilKind) = RowsBy(S, R, [e \in S \cup R |-> ByNilKind(e)])
  <2> DEFINE key == [e \in S \cup R |-> ByNilKind(e)]
  <2>1. \A k : PartOf(S, key, k) = {e \in S : ByNilKind(e) = k} /\ PartOf(R, key, k) = {e \in R : ByNilKind(e) = k}
    BY DEF PartOf
  <2>2. KeysOf(S, R, key) = {ByNilKind(e) : e \in S \cup R}
    BY DEF KeysOf
  <2> HIDE DEF key
  <2>3. RowsBy(S, R, key) = Rows(S, R, ByNilKind)
    BY <2>1, <2>2 DEF Rows, RowsBy
  <2>4. QED
    BY <2>3 DEF key
<1>5. QED
  BY <1>1, <1>2, <1>3, <1>4

LEMMA RowsSumTo ==
    ASSUME NEW S, NEW R, Summable(S), Summable(R)
    PROVE  /\ SumsTo(Rows(S, R, ByDocument), S, R) /\ SumsTo(Rows(S, R, ByStateAndRate), S, R)
           /\ SumsTo(Rows(S, R, ByHsn), S, R) /\ SumsTo(Rows(S, R, ByNilKind), S, R)
<1>1. \A key : SumsTo(RowsBy(S, R, key), S, R)
  BY RowsTabled, RowsTotal DEF SumsTo
<1>2. QED
  BY <1>1, RowsAreBy

\* Rows that came to nothing are left out, and nothing with them.
LEMMA NetSame ==
    ASSUME NEW sect, Tabled(sect)
    PROVE  RowsSum(NetOf(sect)) = RowsSum(sect)
<1>1. PICK Q, T : Q = DOMAIN sect /\ T = {k \in DOMAIN sect : sect[k].txval # 0 \/ sect[k].tax # 0}
  OBVIOUS
<1>2. IsFiniteSet(Q) /\ T \in SUBSET Q /\ \A k \in Q : sect[k].txval \in Int /\ sect[k].tax \in Int
  BY <1>1 DEF Tabled, Figure
<1>3. \A k \in Q : k \notin T => sect[k].txval = 0 /\ sect[k].tax = 0
  BY <1>1
<1>4. Total([k \in T |-> sect[k].txval]) = Total([k \in Q |-> sect[k].txval])
  <2>1. PICK a, b : a = [k \in T |-> sect[k].txval] /\ b = [k \in Q |-> sect[k].txval]
    OBVIOUS
  <2>2. a \in [T -> Int] /\ b \in [Q -> Int] /\ \A k \in Q : b[k] = IF k \in T THEN a[k] ELSE 0
    BY <1>2, <1>3, <2>1
  <2>3. QED
    BY <1>2, <2>1, <2>2, TotalRestricted
<1>5. Total([k \in T |-> sect[k].tax]) = Total([k \in Q |-> sect[k].tax])
  <2>1. PICK a, b : a = [k \in T |-> sect[k].tax] /\ b = [k \in Q |-> sect[k].tax]
    OBVIOUS
  <2>2. a \in [T -> Int] /\ b \in [Q -> Int] /\ \A k \in Q : b[k] = IF k \in T THEN a[k] ELSE 0
    BY <1>2, <1>3, <2>1
  <2>3. QED
    BY <1>2, <2>1, <2>2, TotalRestricted
<1>6. NetOf(sect) = [k \in T |-> sect[k]]
  BY <1>1 DEF NetOf
<1>7. RowsSum([k \in T |-> sect[k]]) = [txval |-> Total([k \in T |-> sect[k].txval]), tax |-> Total([k \in T |-> sect[k].tax])]
  <2>1. PICK net : net = [k \in T |-> sect[k]]
    OBVIOUS
  <2>2. DOMAIN net = T /\ \A k \in T : net[k] = sect[k]
    BY <2>1
  <2>3. [k \in T |-> net[k].txval] = [k \in T |-> sect[k].txval] /\ [k \in T |-> net[k].tax] = [k \in T |-> sect[k].tax]
    BY <2>2
  <2>4. QED
    BY <2>1, <2>2, <2>3 DEF RowsSum
<1>8. RowsSum(sect) = [txval |-> Total([k \in Q |-> sect[k].txval]), tax |-> Total([k \in Q |-> sect[k].tax])]
  BY <1>1 DEF RowsSum
<1>9. QED
  BY <1>4, <1>5, <1>6, <1>7, <1>8

\* Listed, large and small supplies are the taxable ones, and the untaxed are the rest.
LEMMA KindsAddUp ==
    ASSUME NEW S, Summable(S)
    PROVE  /\ Summable(ListedOf(S)) /\ Summable(LargeOf(S)) /\ Summable(SmallOf(S)) /\ Summable(Taxed(S)) /\ Summable(Untaxed(S))
           /\ Amounts(Taxed(S)) = Plus(Amounts(ListedOf(S)), Plus(Amounts(LargeOf(S)), Amounts(SmallOf(S))))
           /\ Amounts(S) = Plus(Amounts(Taxed(S)), Amounts(Untaxed(S)))
<1> DEFINE rest == LargeOf(S) \cup SmallOf(S)
<1>1. ListedOf(S) \subseteq S /\ LargeOf(S) \subseteq S /\ SmallOf(S) \subseteq S /\ Taxed(S) \subseteq S /\ Untaxed(S) \subseteq S
  BY DEF ListedOf, LargeOf, SmallOf, Taxed, Untaxed
<1>2. Untaxed(S) = S \ Taxed(S)
  BY DEF Taxed, Untaxed
<1>3. ListedOf(S) \subseteq Taxed(S) /\ rest = Taxed(S) \ ListedOf(S)
  BY DEF ListedOf, LargeOf, SmallOf, Taxed
<1>4. LargeOf(S) \subseteq rest /\ SmallOf(S) = rest \ LargeOf(S) /\ rest \subseteq S
  BY <1>1 DEF LargeOf, SmallOf, Taxed
<1> HIDE DEF rest
<1>5. Summable(ListedOf(S)) /\ Summable(LargeOf(S)) /\ Summable(SmallOf(S)) /\ Summable(Taxed(S)) /\ Summable(Untaxed(S)) /\ Summable(rest)
  BY <1>1, <1>4, SummablePart
<1>6. Amounts(S) = Plus(Amounts(Taxed(S)), Amounts(Untaxed(S)))
  BY <1>1, <1>2, AmountsOfParts
<1>7. Amounts(Taxed(S)) = Plus(Amounts(ListedOf(S)), Amounts(rest))
  BY <1>3, <1>5, AmountsOfParts
<1>8. Amounts(rest) = Plus(Amounts(LargeOf(S)), Amounts(SmallOf(S)))
  BY <1>4, <1>5, AmountsOfParts
<1>9. QED
  BY <1>5, <1>6, <1>7, <1>8

\* GSTR-3B's taxable supplies are the taxable lines sold less those that came back.
LEMMA TaxableAgrees ==
    ASSUME NEW sold, NEW back, NEW counts, NEW g, g = Sections(sold, back, counts), Summable(sold), Summable(back)
    PROVE  Gstr3b(g).taxable = Less(Amounts(Taxed(sold)), Amounts(Taxed(back)))
<1>1. PICK la, lb, lc, ra, rb, rc : /\ la = Amounts(ListedOf(sold)) /\ lb = Amounts(LargeOf(sold)) /\ lc = Amounts(SmallOf(sold))
                                    /\ ra = Amounts(ListedOf(back)) /\ rb = Amounts(LargeOf(back)) /\ rc = Amounts(SmallOf(back))
  OBVIOUS
<1>2. la \in Figure /\ lb \in Figure /\ lc \in Figure /\ ra \in Figure /\ rb \in Figure /\ rc \in Figure
  BY <1>1, KindsAddUp, AmountsTyped
<1>3. /\ g.b2b = Rows(ListedOf(sold), {}, ByDocument) /\ g.cdnr = Rows(ListedOf(back), {}, ByDocument)
      /\ g.b2cl = Rows(LargeOf(sold), {}, ByDocument) /\ g.cdnur = Rows(LargeOf(back), {}, ByDocument)
      /\ g.b2cs = NetOf(Rows(SmallOf(sold), SmallOf(back), ByStateAndRate))
  BY DEF Sections, ListedOf, LargeOf, SmallOf, NetOf, NilSection
<1>4. \A S : Summable(S) => RowsSum(Rows(S, {}, ByDocument)) = Less(Amounts(S), [txval |-> 0, tax |-> 0])
  BY RowsSumTo, AmountsOfNone DEF SumsTo
<1>5. /\ Summable(ListedOf(sold)) /\ Summable(LargeOf(sold)) /\ Summable(SmallOf(sold))
      /\ Summable(ListedOf(back)) /\ Summable(LargeOf(back)) /\ Summable(SmallOf(back))
  BY KindsAddUp
<1>6. RowsSum(g.b2b) = Less(la, [txval |-> 0, tax |-> 0]) /\ RowsSum(g.cdnr) = Less(ra, [txval |-> 0, tax |-> 0])
  BY ONLY <1>1, <1>3, <1>4, <1>5
<1>7. RowsSum(g.b2cl) = Less(lb, [txval |-> 0, tax |-> 0]) /\ RowsSum(g.cdnur) = Less(rb, [txval |-> 0, tax |-> 0])
  BY ONLY <1>1, <1>3, <1>4, <1>5
<1>8. RowsSum(g.b2cs) = Less(lc, rc)
  <2>1. SumsTo(Rows(SmallOf(sold), SmallOf(back), ByStateAndRate), SmallOf(sold), SmallOf(back))
    BY <1>5, RowsSumTo
  <2>2. PICK sect : sect = Rows(SmallOf(sold), SmallOf(back), ByStateAndRate)
    OBVIOUS
  <2>3. Tabled(sect) /\ RowsSum(sect) = Less(lc, rc) /\ g.b2cs = NetOf(sect)
    BY ONLY <1>1, <1>3, <2>1, <2>2 DEF SumsTo
  <2>4. QED
    BY ONLY <2>3, NetSame
<1>9. Gstr3b(g).taxable = Less(Plus(Plus(RowsSum(g.b2b), RowsSum(g.b2cs)), RowsSum(g.b2cl)), Plus(RowsSum(g.cdnr), RowsSum(g.cdnur)))
  BY DEF Gstr3b
<1>10. Amounts(Taxed(sold)) = Plus(la, Plus(lb, lc)) /\ Amounts(Taxed(back)) = Plus(ra, Plus(rb, rc))
  BY <1>1, KindsAddUp
<1>11. /\ Less(Plus(Plus(Less(la, [txval |-> 0, tax |-> 0]), Less(lc, rc)), Less(lb, [txval |-> 0, tax |-> 0])),
               Plus(Less(ra, [txval |-> 0, tax |-> 0]), Less(rb, [txval |-> 0, tax |-> 0])))
          = Less(Plus(la, Plus(lb, lc)), Plus(ra, Plus(rb, rc)))
  BY ONLY <1>2 DEF Less, Plus, Figure
<1>12. QED
  BY <1>6, <1>7, <1>8, <1>9, <1>10, <1>11

\* Nil rated, exempt and non-GST supplies are the untaxed lines, whatever the bill.
LEMMA UntaxedAgrees ==
    ASSUME NEW sold, NEW back, NEW counts, NEW g, g = Sections(sold, back, counts), Summable(sold), Summable(back)
    PROVE  /\ RowsSum(g.nil) = Less(Amounts(Untaxed(sold)), Amounts(Untaxed(back)))
           /\ Gstr3b(g).nilExempt + Gstr3b(g).nonGst = RowsSum(g.nil).txval
           /\ Gstr3b(g).nilExempt \in Int /\ Gstr3b(g).nonGst \in Int
<1>1. SumsTo(g.nil, Untaxed(sold), Untaxed(back))
  <2>1. g.nil = Rows(Untaxed(sold), Untaxed(back), ByNilKind)
    BY DEF Sections, ListedOf, LargeOf, SmallOf, NetOf, NilSection
  <2>2. Summable(Untaxed(sold)) /\ Summable(Untaxed(back))
    BY KindsAddUp
  <2>3. SumsTo(Rows(Untaxed(sold), Untaxed(back), ByNilKind), Untaxed(sold), Untaxed(back))
    BY ONLY <2>2, RowsSumTo
  <2>4. QED
    BY ONLY <2>1, <2>3
<1>2. PICK sect, N, T, R : sect = g.nil /\ N = DOMAIN g.nil /\ T = {k \in DOMAIN g.nil : k[3] # "NON_GST"} /\ R = {k \in DOMAIN g.nil : k[3] = "NON_GST"}
  OBVIOUS
<1>3. IsFiniteSet(N) /\ sect \in [N -> Figure]
  BY <1>1, <1>2 DEF SumsTo, Tabled
<1>4. T \subseteq N /\ R = N \ T
  BY <1>2
<1>5. PICK v, a, b : v = [k \in N |-> sect[k].txval] /\ a = [k \in T |-> sect[k].txval] /\ b = [k \in R |-> sect[k].txval]
  OBVIOUS
<1>6. v \in [N -> Int] /\ a \in [T -> Int] /\ b \in [R -> Int] /\ (\A k \in T : a[k] = v[k]) /\ \A k \in R : b[k] = v[k]
  BY <1>3, <1>4, <1>5 DEF Figure
<1>7. Total(v) = Total(a) + Total(b)
  BY ONLY <1>3, <1>4, <1>6, TotalInParts
<1>8. Total(a) \in Int /\ Total(b) \in Int
  <2>1. IsFiniteSet(T) /\ IsFiniteSet(R)
    BY <1>3, <1>4, FS_Subset
  <2>2. QED
    BY <1>6, <2>1, TotalType
<1>9. Gstr3b(g).nilExempt = Total(a) /\ Gstr3b(g).nonGst = Total(b)
  BY <1>2, <1>5 DEF Gstr3b
<1>10. RowsSum(g.nil).txval = Total(v)
  BY <1>2, <1>5 DEF RowsSum
<1>11. QED
  BY <1>1, <1>7, <1>8, <1>9, <1>10 DEF SumsTo

\* The HSN summary has every line, when every item has a code.
LEMMA HsnAgrees ==
    ASSUME NEW sold, NEW back, NEW counts, NEW g, g = Sections(sold, back, counts), Summable(sold), Summable(back), ~g.uncoded
    PROVE  RowsSum(g.hsn) = Less(Amounts(sold), Amounts(back))
<1>1. /\ g.uncoded = (\E e \in sold \cup back : ~e.line.coded)
      /\ g.hsn = Rows({e \in sold : e.line.coded}, {e \in back : e.line.coded}, ByHsn)
  BY DEF Sections, ListedOf, LargeOf, SmallOf, NetOf, NilSection
<1>2. \A e \in sold \cup back : e.line.coded
  BY <1>1, Zenon
<1>3. {e \in sold : e.line.coded} = sold /\ {e \in back : e.line.coded} = back
  BY <1>2
<1>4. g.hsn = Rows(sold, back, ByHsn)
  BY ONLY <1>3, <1>1
<1>5. QED
  <2>1. SumsTo(Rows(sold, back, ByHsn), sold, back)
    BY RowsSumTo
  <2>2. QED
    BY ONLY <1>4, <2>1 DEF SumsTo

UntaxedFree(S) == \A e \in S : e.line.supply # "TAXABLE" => e.tax = 0

\* The returns of a period come to the same whichever of their tables is asked.
LEMMA ReturnsAgree ==
    ASSUME NEW sold, NEW back, NEW counts, NEW g, g = Sections(sold, back, counts),
           Summable(sold), Summable(back), UntaxedFree(sold), UntaxedFree(back)
    PROVE  /\ Gstr3b(g).nilExempt + Gstr3b(g).nonGst + Gstr3b(g).taxable.txval = Gstr3b(g).taxable.txval + RowsSum(g.nil).txval
           /\ ~g.uncoded => RowsSum(g.hsn) = [txval |-> Gstr3b(g).taxable.txval + RowsSum(g.nil).txval, tax |-> Gstr3b(g).taxable.tax]
           /\ Gstr3b(g).taxable.txval + RowsSum(g.nil).txval = Amounts(sold).txval - Amounts(back).txval
           /\ Gstr3b(g).taxable.tax = Amounts(sold).tax - Amounts(back).tax
<1>1. PICK st, su, rt, ru : /\ st = Amounts(Taxed(sold)) /\ su = Amounts(Untaxed(sold))
                            /\ rt = Amounts(Taxed(back)) /\ ru = Amounts(Untaxed(back))
  OBVIOUS
<1>2. st \in Figure /\ su \in Figure /\ rt \in Figure /\ ru \in Figure
  BY <1>1, KindsAddUp, AmountsTyped
<1>3. su.tax = 0 /\ ru.tax = 0
  <2>1. (\A e \in Untaxed(sold) : e.tax = 0) /\ \A e \in Untaxed(back) : e.tax = 0
    BY DEF UntaxedFree, Untaxed
  <2>2. QED
    BY <1>1, <2>1, KindsAddUp, AmountsUntaxed
<1>4. Amounts(sold) = Plus(st, su) /\ Amounts(back) = Plus(rt, ru)
  BY <1>1, KindsAddUp
<1>5. Gstr3b(g).taxable = Less(st, rt)
  BY <1>1, TaxableAgrees
<1>6. PICK n, m : n = Gstr3b(g).nilExempt /\ m = Gstr3b(g).nonGst
  OBVIOUS
<1>7. RowsSum(g.nil) = Less(su, ru) /\ n + m = RowsSum(g.nil).txval /\ n \in Int /\ m \in Int
  BY <1>1, <1>6, UntaxedAgrees
<1>8. ~g.uncoded => RowsSum(g.hsn) = Less(Plus(st, su), Plus(rt, ru))
  BY <1>4, HsnAgrees
<1>9. /\ n + m + Less(st, rt).txval = Less(st, rt).txval + Less(su, ru).txval
      /\ Less(Plus(st, su), Plus(rt, ru)) = [txval |-> Less(st, rt).txval + Less(su, ru).txval, tax |-> Less(st, rt).tax]
      /\ Less(st, rt).txval + Less(su, ru).txval = Plus(st, su).txval - Plus(rt, ru).txval
      /\ Less(st, rt).tax = Plus(st, su).tax - Plus(rt, ru).tax
  <2>1. n + m = Less(su, ru).txval /\ n \in Int /\ m \in Int
    BY <1>7
  <2>2. QED
    BY ONLY <1>2, <1>3, <2>1 DEF Less, Plus, Figure
<1>10. QED
  BY <1>4, <1>5, <1>6, <1>7, <1>8, <1>9

(* The sales by item, and a bill's lines against its total. *)

LEMMA ItemsAgree ==
    ASSUME NEW sold, NEW back, Summable(sold), Summable(back)
    PROVE  RowsSum(Items(sold, back)) = Less(Amounts(sold), Amounts(back))
<1> DEFINE key == [e \in sold \cup back |-> e.line.item]
           items == {e.line.item : e \in sold}
           only == {e \in back : e.line.item \notin items}
<1>1. KeysOf(sold, back, key) = items \cup {e.line.item : e \in only}
  BY DEF KeysOf
<1>2. \A i : PartOf(sold, key, i) = {e \in sold : e.line.item = i} /\ PartOf(back, key, i) = {e \in back : e.line.item = i}
  BY DEF PartOf
<1>3. \A i : i \notin items => {e \in sold : e.line.item = i} = {} /\ {e \in only : e.line.item = i} = {e \in back : e.line.item = i}
  OBVIOUS
<1>4. Items(sold, back) =
        [i \in items \cup {e.line.item : e \in only} |->
            IF i \in items THEN Less(Amounts({e \in sold : e.line.item = i}), Amounts({e \in back : e.line.item = i}))
            ELSE Less(Amounts({}), Amounts({e \in only : e.line.item = i}))]
  BY DEF Items
<1> HIDE DEF key, items, only
<1>5. ASSUME NEW i
      PROVE  (IF i \in items THEN Less(Amounts({e \in sold : e.line.item = i}), Amounts({e \in back : e.line.item = i}))
              ELSE Less(Amounts({}), Amounts({e \in only : e.line.item = i})))
             = Less(Amounts(PartOf(sold, key, i)), Amounts(PartOf(back, key, i)))
  BY <1>2, <1>3
<1>6. Items(sold, back) = RowsBy(sold, back, key)
  <2>1. Items(sold, back) =
          [i \in KeysOf(sold, back, key) |-> Less(Amounts(PartOf(sold, key, i)), Amounts(PartOf(back, key, i)))]
    BY <1>1, <1>4, <1>5
  <2>2. QED
    BY <2>1 DEF RowsBy
<1>7. QED
  BY <1>6, RowsTotal

\* A bill's entries come to its lines' total.
LEMMA EntriesTotal ==
    ASSUME NEW b, NEW lines, NEW E, lines \in Seq(LineForms), lines = sales[b].lines, E = EntriesOf(b)
    PROVE  IsFiniteSet(E) /\ Total([e \in E |-> e.value + e.tax]) = LineTotal(lines)
<1> DEFINE Nth(i) == Entry(b, b, i, lines[i].value, lines[i].tax)
<1>1. PICK key : key = [e \in E |-> e.no]
  OBVIOUS
<1>2. PICK Q : Q = DOMAIN lines /\ IsFiniteSet(Q) /\ \A i \in Q : lines[i].value \in Int /\ lines[i].tax \in Int
  BY LinesTotalled DEF LineForms
<1>3. E = {Nth(i) : i \in Q}
  BY <1>2 DEF EntriesOf
<1>4. \A i : Nth(i).no = i /\ Nth(i).value = lines[i].value /\ Nth(i).tax = lines[i].tax
  BY DEF Entry
<1>5. IsFiniteSet(E)
  <2>1. [i \in Q |-> Nth(i)] \in Surjection(Q, E)
    BY <1>3 DEF Surjection
  <2> HIDE DEF Nth
  <2>2. QED
    BY <1>2, <2>1, FS_Surjection
<1> HIDE DEF Nth
<1>6. PICK w : w = [e \in E |-> e.value + e.tax]
  OBVIOUS
<1>7. w \in [E -> Int] /\ \A e \in E : key[e] \in Q
  BY <1>2, <1>3, <1>4, <1>6, <1>1
<1>8. \A i \in Q : PartOf(E, key, i) = {Nth(i)}
  BY <1>3, <1>4, <1>1 DEF PartOf
<1>9. IsFiniteSet(Q)
  BY <1>2
<1>10. Total(w) = Total([i \in Q |-> Total([e \in PartOf(E, key, i) |-> w[e]])])
  BY ONLY <1>9, <1>5, <1>7, TotalByGroup
<1>11. ASSUME NEW i \in Q PROVE Total([e \in PartOf(E, key, i) |-> w[e]]) = lines[i].value + lines[i].tax
  <2>1. PICK x, d : x = Nth(i) /\ d = [e \in PartOf(E, key, i) |-> w[e]]
    OBVIOUS
  <2>2. d \in [{x} -> Int] /\ d[x] = lines[i].value + lines[i].tax
    BY <1>2, <1>3, <1>4, <1>6, <1>7, <1>8, <2>1
  <2>3. Total(d) = d[x]
    BY ONLY <2>2, TotalOfOne
  <2>4. QED
    BY <2>1, <2>2, <2>3
<1>12. [i \in Q |-> Total([e \in PartOf(E, key, i) |-> w[e]])] = [i \in Q |-> lines[i].value + lines[i].tax]
  BY <1>11
<1>13. QED
  BY <1>2, <1>5, <1>6, <1>10, <1>12 DEF LineTotal

\* What is sold on bills has whole amounts, and no tax on goods that aren't taxable.
LEMMA SoldSummable ==
    ASSUME NEW bills \in SUBSET DOMAIN sales, RowsInv
    PROVE  /\ Summable(SoldLines(bills)) /\ UntaxedFree(SoldLines(bills)) /\ IsFiniteSet(bills)
           /\ (\A b \in bills : sales[b].type # "REGULAR") => \A e \in SoldLines(bills) : e.tax = 0
<1>1. sales \in Seq(BillRow) /\ BillsDated
  BY DEF RowsInv, GstTypes
<1>2. \A b \in DOMAIN sales : sales[b].lines \in Seq(LineForms)
  <2>1. \A b \in DOMAIN sales : sales[b] \in BillRow
    BY <1>1
  <2>2. QED
    BY <2>1 DEF BillRow
<1>3. IsFiniteSet(bills)
  <2>1. Len(sales) \in Nat /\ DOMAIN sales = 1 .. Len(sales)
    BY <1>1
  <2>2. QED
    <3>1. IsFiniteSet(DOMAIN sales)
      BY <2>1, FS_Interval
    <3>2. QED
      BY <3>1, FS_Subset
<1>4. SoldLines(bills) = UNION {EntriesOf(b) : b \in bills}
  BY DEF SoldLines, EntriesOf
<1>5. IsFiniteSet(SoldLines(bills))
  <2>1. \A b \in bills : IsFiniteSet(EntriesOf(b))
    BY <1>2, EntriesTotal
  <2>2. [b \in bills |-> EntriesOf(b)] \in Surjection(bills, {EntriesOf(b) : b \in bills})
    BY DEF Surjection
  <2>3. IsFiniteSet({EntriesOf(b) : b \in bills})
    BY <1>3, <2>2, FS_Surjection
  <2>4. QED
    BY <1>4, <2>1, <2>3, FS_UNION
<1>6. ASSUME NEW e \in SoldLines(bills)
      PROVE  /\ e.value \in Int /\ e.tax \in Int /\ (e.line.supply # "TAXABLE" => e.tax = 0)
             /\ \E b \in bills : sales[b].type # "REGULAR" => e.tax = 0
  <2>1. PICK b \in bills : e \in EntriesOf(b)
    BY <1>4
  <2>2. PICK i \in DOMAIN sales[b].lines : e = Entry(b, b, i, sales[b].lines[i].value, sales[b].lines[i].tax)
    BY <2>1 DEF EntriesOf
  <2>3. e.line = sales[b].lines[i] /\ e.value = e.line.value /\ e.tax = e.line.tax
    BY <2>2 DEF Entry
  <2>4. sales[b].lines[i] \in LineForms
    BY <1>2, <2>2
  <2>5. BillDated(sales[b])
    BY <1>1 DEF BillsDated
  <2>6. QED
    BY <2>2, <2>3, <2>4, <2>5 DEF LineForms, BillDated
<1>7. QED
  BY <1>3, <1>5, <1>6 DEF Summable, UntaxedFree

LEMMA BackSummable ==
    ASSUME NEW notes \in SUBSET DOMAIN credits, RowsInv
    PROVE  /\ Summable(BackLines(notes)) /\ UntaxedFree(BackLines(notes))
           /\ (\A r \in notes : sales[credits[r].bill].type # "REGULAR") => \A e \in BackLines(notes) : e.tax = 0
<1>1. credits \in Seq(CreditRow) /\ sales \in Seq(BillRow) /\ BillsDated /\ ReturnsDated
  BY DEF RowsInv, GstTypes
<1>2. IsFiniteSet(notes)
  <2>1. Len(credits) \in Nat /\ DOMAIN credits = 1 .. Len(credits)
    BY <1>1
  <2>2. IsFiniteSet(DOMAIN credits)
    BY <2>1, FS_Interval
  <2>3. QED
    BY <2>2, FS_Subset
<1>3. BackLines(notes) = {BackEntry(r) : r \in notes}
  BY DEF BackLines, BackEntry
<1>4. IsFiniteSet(BackLines(notes))
  <2>1. [r \in notes |-> BackEntry(r)] \in Surjection(notes, BackLines(notes))
    BY <1>3 DEF Surjection
  <2>2. QED
    BY <1>2, <2>1, FS_Surjection
<1>5. ASSUME NEW r \in notes
      PROVE  /\ BackEntry(r).value \in Int /\ BackEntry(r).tax \in Int
             /\ BackEntry(r).line.supply # "TAXABLE" => BackEntry(r).tax = 0
             /\ sales[credits[r].bill].type # "REGULAR" => BackEntry(r).tax = 0
  <2>1. PICK bill, i : bill = sales[credits[r].bill] /\ i = credits[r].line
    OBVIOUS
  <2>2. BackEntry(r).value = credits[r].value /\ BackEntry(r).tax = credits[r].tax /\ BackEntry(r).line = bill.lines[i]
    BY <2>1 DEF BackEntry, Entry
  <2>3. credits[r] \in CreditRow
    BY <1>1
  <2>4. /\ bill \in BillRow /\ BillDated(bill) /\ i \in DOMAIN bill.lines
        /\ bill.lines[i].tax = 0 => credits[r].tax = 0
    BY <1>1, <2>1 DEF BillsDated, ReturnsDated, ReturnDated
  <2>5. bill.lines[i] \in LineForms
    <3>1. bill.lines \in Seq(LineForms)
      BY <2>4 DEF BillRow
    <3>2. QED
      BY <2>4, <3>1
  <2>6. bill.lines[i].supply # "TAXABLE" => bill.lines[i].tax = 0
    BY <2>5 DEF LineForms
  <2>7. bill.type # "REGULAR" => bill.lines[i].tax = 0
    BY <2>4 DEF BillDated
  <2>8. credits[r].value \in Int /\ credits[r].tax \in Int
    BY <2>3 DEF CreditRow
  <2>9. QED
    BY <2>1, <2>2, <2>4, <2>6, <2>7, <2>8
<1>6. QED
  BY <1>3, <1>4, <1>5 DEF Summable, UntaxedFree

\* Bills come to what is sold on them.
LEMMA GrossAgrees ==
    ASSUME NEW bills \in SUBSET DOMAIN sales, RowsInv
    PROVE  Total([b \in bills |-> sales[b].grandTotal]) = Amounts(SoldLines(bills)).txval + Amounts(SoldLines(bills)).tax
<1>1. PICK E : E = SoldLines(bills)
  OBVIOUS
<1>2. Summable(E) /\ IsFiniteSet(E) /\ IsFiniteSet(bills)
  BY <1>1, SoldSummable DEF Summable
<1>3. PICK v, t, w : v = [e \in E |-> e.value] /\ t = [e \in E |-> e.tax] /\ w = [e \in E |-> e.value + e.tax]
  OBVIOUS
<1>4. v \in [E -> Int] /\ t \in [E -> Int] /\ w \in [E -> Int] /\ \A e \in E : w[e] = v[e] + t[e]
  BY <1>2, <1>3 DEF Summable
<1>5. Total(w) = Total(v) + Total(t)
  BY <1>2, <1>4, TotalPlus
<1>6. Amounts(E).txval = Total(v) /\ Amounts(E).tax = Total(t)
  BY <1>3 DEF Amounts
<1>7. PICK key : key = [e \in E |-> e.doc]
  OBVIOUS
<1>8. ASSUME NEW b \in bills, NEW e \in EntriesOf(b) PROVE e \in E /\ e.doc = b
  <2>1. e \in SoldLines(bills)
    BY <1>8 DEF SoldLines, EntriesOf
  <2>2. e.doc = b
    BY <1>8 DEF EntriesOf, Entry
  <2>3. QED
    BY <1>1, <2>1, <2>2
<1>9. ASSUME NEW e \in E PROVE e.doc \in bills /\ e \in EntriesOf(e.doc)
  <2>1. PICK b \in bills : e \in EntriesOf(b)
    BY <1>1 DEF SoldLines, EntriesOf
  <2>2. QED
    BY <1>8, <2>1
<1>10. \A b \in bills : PartOf(E, key, b) = EntriesOf(b)
  BY <1>7, <1>8, <1>9 DEF PartOf
<1>11. \A e \in E : key[e] \in bills
  BY <1>7, <1>9
<1>12. PICK Q : Q = bills
  OBVIOUS
<1>13. IsFiniteSet(E) /\ IsFiniteSet(Q) /\ w \in [E -> Int] /\ \A e \in E : key[e] \in Q
  BY <1>2, <1>4, <1>11, <1>12
<1>14. Total(w) = Total([b \in Q |-> Total([e \in PartOf(E, key, b) |-> w[e]])])
  BY ONLY <1>13, TotalByGroup
<1>15. ASSUME NEW b \in Q PROVE Total([e \in PartOf(E, key, b) |-> w[e]]) = sales[b].grandTotal
  <2>1. PICK F, lines : F = EntriesOf(b) /\ lines = sales[b].lines
    OBVIOUS
  <2>2. lines \in Seq(LineForms) /\ sales[b].grandTotal = LineTotal(lines)
    <3>1. sales \in Seq(BillRow) /\ BillsDated /\ b \in DOMAIN sales
      BY <1>12 DEF RowsInv, GstTypes
    <3>2. sales[b] \in BillRow /\ BillDated(sales[b])
      BY <3>1 DEF BillsDated
    <3>3. QED
      BY <2>1, <3>2 DEF BillRow, BillDated
  <2>3. Total([e \in F |-> e.value + e.tax]) = LineTotal(lines)
    BY <2>1, <2>2, EntriesTotal
  <2>4. PartOf(E, key, b) = F /\ F \subseteq E
    BY <1>8, <1>10, <1>12, <2>1
  <2>5. [e \in PartOf(E, key, b) |-> w[e]] = [e \in F |-> e.value + e.tax]
    BY <1>3, <2>4
  <2>6. QED
    BY <2>2, <2>3, <2>5
<1>16. [b \in Q |-> Total([e \in PartOf(E, key, b) |-> w[e]])] = [b \in bills |-> sales[b].grandTotal]
  BY <1>12, <1>15
<1>17. QED
  BY <1>1, <1>5, <1>6, <1>14, <1>16

\* With nobody unregistered, the lines are those of regular bills and those of composition bills.
LEMMA SoldByType ==
    ASSUME NEW p, RowsInv, \A b \in DOMAIN sales : sales[b].type # "UNREGISTERED"
    PROVE  /\ SoldLines(Invoices(p, {"REGULAR"})) \subseteq SoldLines(Invoices(p, Types))
           /\ SoldLines(Invoices(p, {"COMPOSITION"})) = SoldLines(Invoices(p, Types)) \ SoldLines(Invoices(p, {"REGULAR"}))
<1>1. \A b \in DOMAIN sales : sales[b].type \in Types /\ sales[b].type \in {"REGULAR", "COMPOSITION"}
  <2>1. sales \in Seq(BillRow)
    BY DEF RowsInv, GstTypes
  <2>2. \A b \in DOMAIN sales : sales[b] \in BillRow
    BY <2>1
  <2>3. \A b \in DOMAIN sales : sales[b].type \in Types
    BY <2>2 DEF BillRow
  <2>4. QED
    BY <2>3, GstAssumption
<1>2. PICK A, B, C : A = Invoices(p, Types) /\ B = Invoices(p, {"REGULAR"}) /\ C = Invoices(p, {"COMPOSITION"})
  OBVIOUS
<1>3. B \subseteq A /\ C = A \ B
  BY <1>1, <1>2 DEF Invoices, Known
<1>4. \A bills : SoldLines(bills) = UNION {EntriesOf(b) : b \in bills}
  BY DEF SoldLines, EntriesOf
<1>5. \A b : \A e \in EntriesOf(b) : e.doc = b
  BY DEF EntriesOf, Entry
<1>6. SoldLines(B) \subseteq SoldLines(A) /\ SoldLines(C) = SoldLines(A) \ SoldLines(B)
  BY <1>3, <1>4, <1>5
<1>7. QED
  BY <1>2, <1>6

LEMMA BackByType ==
    ASSUME NEW p, RowsInv, \A b \in DOMAIN sales : sales[b].type # "UNREGISTERED"
    PROVE  /\ BackLines(Notes(p, {"REGULAR"})) \subseteq BackLines(Notes(p, Types))
           /\ BackLines(Notes(p, {"COMPOSITION"})) = BackLines(Notes(p, Types)) \ BackLines(Notes(p, {"REGULAR"}))
<1>1. \A r \in DOMAIN credits : LET type == sales[credits[r].bill].type IN type \in Types /\ type \in {"REGULAR", "COMPOSITION"}
  <2>1. sales \in Seq(BillRow) /\ ReturnsDated
    BY DEF RowsInv, GstTypes
  <2>2. \A b \in DOMAIN sales : sales[b] \in BillRow
    BY <2>1
  <2>3. \A b \in DOMAIN sales : sales[b].type \in Types
    BY <2>2 DEF BillRow
  <2>4. QED
    BY <2>1, <2>3, GstAssumption DEF ReturnsDated, ReturnDated
<1>2. PICK A, B, C : A = Notes(p, Types) /\ B = Notes(p, {"REGULAR"}) /\ C = Notes(p, {"COMPOSITION"})
  OBVIOUS
<1>3. B \subseteq A /\ C = A \ B
  BY <1>1, <1>2 DEF Notes
<1>4. \A notes : BackLines(notes) = {BackEntry(r) : r \in notes}
  BY DEF BackLines, BackEntry
<1>5. \A r : BackEntry(r).doc = r
  BY DEF BackEntry, Entry
<1>6. BackLines(B) \subseteq BackLines(A) /\ BackLines(C) = BackLines(A) \ BackLines(B)
  BY <1>3, <1>4, <1>5
<1>7. QED
  BY <1>2, <1>6

\* The reports screen and the composition return against the sums of their lines.
LEMMA ReportsAgree ==
    ASSUME NEW p, RowsInv, NEW S, NEW R, S = Amounts(SoldLines(Invoices(p, Types))), R = Amounts(BackLines(Notes(p, Types)))
    PROVE  /\ S \in Figure /\ R \in Figure
           /\ RowsSum(Items(SoldLines(Invoices(p, Types)), BackLines(Notes(p, Types)))) = Less(S, R)
           /\ Summary(p).net = S.txval - R.txval
           /\ Summary(p).gross - Summary(p).returnsGross = (S.txval - R.txval) + (S.tax - R.tax)
<1>1. Invoices(p, Types) \in SUBSET DOMAIN sales /\ Notes(p, Types) \in SUBSET DOMAIN credits
  BY DEF Invoices, Known, Notes
<1>2. Summable(SoldLines(Invoices(p, Types))) /\ Summable(BackLines(Notes(p, Types)))
  BY <1>1, SoldSummable, BackSummable
<1>3. S \in Figure /\ R \in Figure
  BY <1>2, AmountsTyped
<1>4. RowsSum(Items(SoldLines(Invoices(p, Types)), BackLines(Notes(p, Types)))) = Less(S, R)
  BY <1>2, ItemsAgree
<1>5. Total([b \in Invoices(p, Types) |-> sales[b].grandTotal]) = S.txval + S.tax
  BY <1>1, GrossAgrees
<1>6. {r \in Notes(p, Types) : sales[credits[r].bill].status # "CANCELLED"} = Notes(p, Types)
  BY DEF Notes, RowsInv, ReturnsDated, ReturnDated
<1>7. /\ Summary(p).gross = S.txval + S.tax /\ Summary(p).returnsGross = R.txval + R.tax
      /\ Summary(p).net = (S.txval + S.tax) - S.tax - R.txval
  BY <1>5, <1>6 DEF Summary
<1>8. QED
  BY <1>3, <1>4, <1>7 DEF Figure

LEMMA CompositionAgrees ==
    ASSUME NEW p, RowsInv, \A b \in DOMAIN sales : sales[b].type # "UNREGISTERED",
           NEW S, NEW R, S = Amounts(SoldLines(Invoices(p, Types))), R = Amounts(BackLines(Notes(p, Types))),
           NEW s, NEW r, s = Amounts(SoldLines(Invoices(p, {"REGULAR"}))), r = Amounts(BackLines(Notes(p, {"REGULAR"})))
    PROVE  Less(S, R) = [txval |-> s.txval - r.txval + Composition(p).turnover, tax |-> s.tax - r.tax]
<1>1. PICK A, B, C : A = SoldLines(Invoices(p, Types)) /\ B = SoldLines(Invoices(p, {"REGULAR"})) /\ C = SoldLines(Invoices(p, {"COMPOSITION"}))
  OBVIOUS
<1>2. PICK D, E, F : D = BackLines(Notes(p, Types)) /\ E = BackLines(Notes(p, {"REGULAR"})) /\ F = BackLines(Notes(p, {"COMPOSITION"}))
  OBVIOUS
<1>3. /\ \A types : Invoices(p, types) \in SUBSET DOMAIN sales /\ Notes(p, types) \in SUBSET DOMAIN credits
      /\ \A b \in Invoices(p, {"COMPOSITION"}) : sales[b].type # "REGULAR"
      /\ \A n \in Notes(p, {"COMPOSITION"}) : sales[credits[n].bill].type # "REGULAR"
  BY DEF Invoices, Known, Notes
<1>4. Summable(A) /\ Summable(B) /\ Summable(C) /\ \A e \in C : e.tax = 0
  BY <1>1, <1>3, SoldSummable
<1>5. Summable(D) /\ Summable(E) /\ Summable(F) /\ \A e \in F : e.tax = 0
  BY <1>2, <1>3, BackSummable
<1>6. B \subseteq A /\ C = A \ B
  BY <1>1, SoldByType
<1>7. E \subseteq D /\ F = D \ E
  BY <1>2, BackByType
<1>8. PICK c, f : c = Amounts(C) /\ f = Amounts(F)
  OBVIOUS
<1>9. S = Plus(s, c) /\ R = Plus(r, f)
  BY <1>1, <1>2, <1>4, <1>5, <1>6, <1>7, <1>8, AmountsOfParts
<1>10. s \in Figure /\ c \in Figure /\ r \in Figure /\ f \in Figure /\ c.tax = 0 /\ f.tax = 0
  BY <1>1, <1>2, <1>4, <1>5, <1>8, AmountsTyped, AmountsUntaxed
<1>11. Composition(p).turnover = Less(c, f).txval
  BY <1>1, <1>2, <1>8 DEF Composition
<1>12. Less(Plus(s, c), Plus(r, f)) = [txval |-> s.txval - r.txval + Less(c, f).txval, tax |-> s.tax - r.tax]
  BY ONLY <1>10 DEF Less, Plus, Figure
<1>13. QED
  BY <1>9, <1>11, <1>12

LEMMA TablesAgreeAlways ==
    ASSUME RowsInv
    PROVE  TablesAgree
<1> DEFINE Agree(f, g) ==
        \A taxable \in {f.gstr3b.taxable} : \A all \in {taxable.txval + RowsSum(g.nil).txval}, items \in {RowsSum(f.items)} :
            /\ f.gstr3b.nilExempt + f.gstr3b.nonGst + taxable.txval = all
            /\ ~g.uncoded => RowsSum(g.hsn) = [txval |-> all, tax |-> taxable.tax]
            /\ f.summary.net = items.txval
            /\ f.summary.gross - f.summary.returnsGross = items.txval + items.tax
            /\ (\A b \in DOMAIN sales : sales[b].type # "UNREGISTERED") =>
                  items = [txval |-> all + f.composition.turnover, tax |-> taxable.tax]
<1>1. (\A p \in Periods : \A f \in {Figures(p)} : \A g \in {f.gstr1} : Agree(f, g)) => TablesAgree
  BY Zenon DEF TablesAgree
<1>2. SUFFICES ASSUME NEW p \in Periods PROVE Agree(Figures(p), Figures(p).gstr1)
  <2> HIDE DEF Agree
  <2>1. QED
    BY <1>1
<1>3. PICK f, g : f = Figures(p) /\ g = Gstr1(p)
  OBVIOUS
<1>4. /\ f.gstr1 = g /\ f.gstr3b = Gstr3b(g) /\ f.composition = Composition(p) /\ f.summary = Summary(p)
      /\ f.items = Items(SoldLines(Invoices(p, Types)), BackLines(Notes(p, Types)))
  BY <1>3, FiguresAre DEF FiguresOf
<1>5. PICK sold, back, counts : sold = SoldLines(Invoices(p, {"REGULAR"})) /\ back = BackLines(Notes(p, {"REGULAR"})) /\ counts = Counts(p)
  OBVIOUS
<1>6. g = Sections(sold, back, counts)
  BY <1>3, <1>5, Gstr1Is
<1>7. Summable(sold) /\ Summable(back) /\ UntaxedFree(sold) /\ UntaxedFree(back)
  <2>1. Invoices(p, {"REGULAR"}) \in SUBSET DOMAIN sales /\ Notes(p, {"REGULAR"}) \in SUBSET DOMAIN credits
    BY DEF Invoices, Known, Notes
  <2>2. QED
    BY <1>5, <2>1, SoldSummable, BackSummable
<1>8. PICK s, r, S, R : /\ s = Amounts(sold) /\ r = Amounts(back)
                        /\ S = Amounts(SoldLines(Invoices(p, Types))) /\ R = Amounts(BackLines(Notes(p, Types)))
  OBVIOUS
<1>9. PICK taxable, nil, n, m : taxable = Gstr3b(g).taxable /\ nil = RowsSum(g.nil) /\ n = Gstr3b(g).nilExempt /\ m = Gstr3b(g).nonGst
  OBVIOUS
<1>10. /\ n + m + taxable.txval = taxable.txval + nil.txval
       /\ ~g.uncoded => RowsSum(g.hsn) = [txval |-> taxable.txval + nil.txval, tax |-> taxable.tax]
       /\ taxable.txval + nil.txval = s.txval - r.txval /\ taxable.tax = s.tax - r.tax
  BY <1>6, <1>7, <1>8, <1>9, ReturnsAgree
<1>11. /\ RowsSum(f.items) = Less(S, R) /\ Summary(p).net = S.txval - R.txval
       /\ Summary(p).gross - Summary(p).returnsGross = (S.txval - R.txval) + (S.tax - R.tax)
  BY <1>4, <1>8, ReportsAgree
<1>12. (\A b \in DOMAIN sales : sales[b].type # "UNREGISTERED") =>
          Less(S, R) = [txval |-> s.txval - r.txval + Composition(p).turnover, tax |-> s.tax - r.tax]
  BY <1>5, <1>8, CompositionAgrees
<1>13. Less(S, R).txval = S.txval - R.txval /\ Less(S, R).tax = S.tax - R.tax
  BY DEF Less
<1>14. Agree(f, g)
  <2>1. SUFFICES /\ n + m + taxable.txval = taxable.txval + nil.txval
                 /\ ~g.uncoded => RowsSum(g.hsn) = [txval |-> taxable.txval + nil.txval, tax |-> taxable.tax]
                 /\ Summary(p).net = Less(S, R).txval
                 /\ Summary(p).gross - Summary(p).returnsGross = Less(S, R).txval + Less(S, R).tax
                 /\ (\A b \in DOMAIN sales : sales[b].type # "UNREGISTERED") =>
                       Less(S, R) = [txval |-> taxable.txval + nil.txval + Composition(p).turnover, tax |-> taxable.tax]
    BY <1>4, <1>9, <1>11
  <2>2. taxable.txval + nil.txval = s.txval - r.txval /\ taxable.tax = s.tax - r.tax
    BY ONLY <1>10
  <2>3. (\A b \in DOMAIN sales : sales[b].type # "UNREGISTERED") =>
           Less(S, R) = [txval |-> taxable.txval + nil.txval + Composition(p).turnover, tax |-> taxable.tax]
    BY ONLY <1>12, <2>2
  <2>4. QED
    BY ONLY <1>10, <1>11, <1>13, <2>3
<1> HIDE DEF Agree
<1>15. QED
  BY <1>3, <1>4, <1>14

\* Every line of a period's bills and credit notes is in the returns exactly once, whatever the registrations,
\* forms and zones: GSTR-1's sections, its HSN summary, GSTR-3B, the composition return and the reports come to
\* the same (gst.service.ts, reports.service.ts).
THEOREM TablesAgreeHolds == GstSpec => []TablesAgree
<1>1. GstInv => TablesAgree
  BY TablesAgreeAlways DEF GstInv
<1>2. QED
  BY <1>1, GstInvHolds, PTL

(***************************************************************************)
(* What a page's changes refresh (Screens, WebPages).                      *)
(***************************************************************************)
\* A query shows data d under its key for <<d, key>> in T; a change heeds T when each key that shows
\* what it alters is one it refreshes or sets, or is left stale as LeftStale says.
ShownAs(q, T) == \A d \in q.shows : <<d, q.key>> \in T
Heeded(c, T) ==
  \A d \in c.changes : \A k : <<d, k>> \in T => k \in c.refreshes \cup c.sets \/ <<k, c.call>> \in LeftStale
Fits(p, T) == (\A q \in p.queries : ShownAs(q, T)) /\ (\A c \in p.changes : Heeded(c, T))
\* No change of a panel leaves a query of it stale, but for LeftStale.
Renewed(q, c) ==
  c.changes \cap q.shows # {} => q.key \in c.refreshes \cup c.sets \/ <<q.key, c.call>> \in LeftStale
Tidy(p) == \A q \in p.queries : \A c \in p.changes : Renewed(q, c)

LEMMA FitsTidy == ASSUME NEW p, NEW T, Fits(p, T) PROVE Tidy(p)
BY DEF Fits, ShownAs, Heeded, Tidy, Renewed
LEMMA FitsPanel == \A Q, C, T : (\A q \in Q : ShownAs(q, T)) /\ (\A c \in C : Heeded(c, T)) => Fits(Panel(Q, C), T)
BY DEF Fits, Panel
LEMMA FitsOf == \A P, T : (\A p \in P : Fits(p, T)) => Fits(Of(P), T)
BY DEF Fits, Of, Panel
LEMMA FitsWhen == \A b, p, T : Fits(p, T) => Fits(When(b, p), T)
BY DEF Fits, When, Panel
LEMMA FitsReads == \A Q, T : (\A q \in Q : ShownAs(q, T)) => Fits(Reads(Q), T)
BY DEF Fits, Reads, Panel
LEMMA FitsOffers == \A C, T : (\A c \in C : Heeded(c, T)) => Fits(Offers(C), T)
BY DEF Fits, Offers, Panel
\* A query that shows nothing and a change that alters nothing fit any page.
LEMMA NothingShown == \A key, call, T : ShownAs(Query(key, call, {}), T)
BY DEF ShownAs, Query
LEMMA NothingHeeded == \A call, refreshes, T : Heeded(Change(call, {}, refreshes), T)
BY DEF Heeded, Change
LEMMA KeptShown == \A key, call, shows, T : ShownAs(Query(key, call, shows), T) => ShownAs(Kept(Query(key, call, shows)), T)
BY DEF ShownAs, Kept, Query
LEMMA SetsHeeded ==
  \A call, alters, refreshes, keys, T :
    Heeded(Change(call, alters, refreshes \cup keys), T) => Heeded(Sets(Change(call, alters, refreshes), keys), T)
<1> SUFFICES ASSUME NEW call, NEW alters, NEW refreshes, NEW keys, NEW T,
                    Heeded(Change(call, alters, refreshes \cup keys), T)
             PROVE  Heeded(Sets(Change(call, alters, refreshes), keys), T)
  OBVIOUS
<1>1. PICK c, s : c = Change(call, alters, refreshes) /\ s = Sets(Change(call, alters, refreshes), keys)
  OBVIOUS
<1>2. s.call = call /\ s.changes = alters /\ s.refreshes = refreshes /\ s.sets = keys
  BY <1>1 DEF Sets, Change
<1>q. QED  BY <1>1, <1>2 DEF Heeded, Change

\* The layout shows four things on every page; a page may show them too.
AroundShows ==
  {<<"business", "business-settings">>, <<"branch gstin", "business-settings">>,
   <<"recovery code", "recovery-code-status">>, <<"crash reports", "crash-reports">>}
LEMMA LayoutFits ==
  ASSUME NEW w, NEW T, AroundShows \subseteq T, \A k : <<"crash reports", k>> \in T => k = "crash-reports"
  PROVE  Fits(AppLayout(w), T)
<1>1. Fits(useMeta(w), T)
  BY NothingShown, KeptShown, FitsReads DEF useMeta
<1>2. Fits(useBillingStatus(w), T)
  <2>1. Fits(Reads({Query("billing-status", Get("/billing/status"), {})}), T)
    BY NothingShown, FitsReads
  <2>q. QED  BY <2>1, FitsWhen DEF useBillingStatus
<1>3. Fits(GstinNeededBanner(w), T)
  <2>1. ShownAs(BusinessSettings, T)
    BY DEF ShownAs, BusinessSettings, Query, AroundShows
  <2>q. QED  BY <2>1, FitsReads, FitsWhen DEF GstinNeededBanner
<1>4. Fits(RecoveryCodeNotice(w), T)
  <2>1. ShownAs(Query("recovery-code-status", Get("/auth/recovery-code"), {"recovery code"}), T)
    BY DEF ShownAs, Query, AroundShows
  <2>q. QED  BY <2>1, FitsReads, FitsWhen DEF RecoveryCodeNotice, useRecoveryStatus
<1>5. Fits(CrashReportsChoice(w), T)
  <2>1. ShownAs(Query("crash-reports", Ipc("crash-reports"), {"crash reports"}), T)
    BY DEF ShownAs, Query, AroundShows
  <2>2. Heeded(Change(Ipc("crash-reports:set"), {"crash reports"}, {} \cup {"crash-reports"}), T)
    BY DEF Heeded, Change
  <2>3. Heeded(Sets(Change(Ipc("crash-reports:set"), {"crash reports"}, {}), {"crash-reports"}), T)
    BY <2>2, SetsHeeded
  <2>q. QED  BY <2>1, <2>3, FitsPanel, FitsWhen DEF CrashReportsChoice
<1>6. Fits(Reads({Query("me", Get("/auth/me"), {})}), T)
  BY NothingShown, FitsReads
<1>q. QED
  <2>1. Fits(When(w.session, Of({Reads({Query("me", Get("/auth/me"), {})}), When(w.admin, CrashReportsChoice(w))})), T)
    BY <1>5, <1>6, FitsOf, FitsWhen
  <2>q. QED  BY <1>1, <1>2, <1>3, <1>4, <2>1, FitsOf DEF AppLayout
\* A page within the layout.
LEMMA WithinLayout ==
  ASSUME NEW w, NEW p, NEW T, Fits(p, T), AroundShows \subseteq T, \A k : <<"crash reports", k>> \in T => k = "crash-reports"
  PROVE  Tidy(Of({p, AppLayout(w)}))
BY LayoutFits, FitsOf, FitsTidy

-----------------------------------------------------------------------------
(* Selling.                                                                *)

StoreShows == {<<"branch", "branch-settings">>, <<"branch gstin", "branch-settings">>}
LEMMA StoreFits ==
  ASSUME NEW T, AroundShows \subseteq T, StoreShows \subseteq T
  PROVE  ShownAs(BranchSettings, T) /\ ShownAs(BusinessSettings, T) /\ Fits(Reads({BranchSettings, BusinessSettings}), T)
<1>1. ShownAs(BranchSettings, T) /\ ShownAs(BusinessSettings, T)
  BY DEF ShownAs, BranchSettings, BusinessSettings, Query, AroundShows, StoreShows
<1>q. QED  BY <1>1, FitsReads
LEMMA EmailFits == ASSUME NEW w, NEW T PROVE Fits(EmailReceipt(w), T)
BY NothingHeeded, FitsOffers, FitsWhen DEF EmailReceipt

PosShows ==
  AroundShows \cup StoreShows \cup
  {<<"item", "items-pos">>, <<"stock", "stock-module">>, <<"customer", "customers-pos">>,
   <<"wallet", "customer-wallet">>, <<"debt", "customer-account">>}
LEMMA PosTidy == ASSUME NEW w PROVE Tidy(Of({PosPage(w), AppLayout(w)}))
<1>1. Fits(useCatalog(w), PosShows)
  <2>1. ShownAs(ItemList("items-pos"), PosShows) /\ ShownAs(OnHand, PosShows)
    BY DEF ShownAs, ItemList, OnHand, Query, PosShows
  <2>q. QED  BY <2>1, FitsReads DEF useCatalog
<1>2. Fits(useStoreSettings(w), PosShows)
  BY StoreFits DEF useStoreSettings, PosShows
<1>3. Fits(usePosCustomer(w), PosShows)
  <2>1. /\ ShownAs(Query("customers-pos", Get("/customers"), {"customer"}), PosShows)
        /\ ShownAs(Query("customer-wallet", Get("/customers/:id/wallet"), {"wallet"}), PosShows)
        /\ ShownAs(Query("customer-account", Get("/customers/:id/account"), {"debt"}), PosShows)
    BY DEF ShownAs, Query, PosShows
  <2>q. QED  BY <2>1, NothingShown, FitsReads DEF usePosCustomer
<1>4. Fits(CustomerPickerModal(w), PosShows)
  <2>1. Heeded(Change(Post("/customers"), {"customer"}, {"customers-pos"}), PosShows)
    BY DEF Heeded, Change, PosShows, AroundShows, StoreShows
  <2>q. QED  BY <2>1, FitsOffers DEF CustomerPickerModal
<1>5. Fits(checkout(w), PosShows)
  <2>1. Heeded(Change(Post("/sales/checkout"), {"bill", "stock", "debt", "wallet", "drawer"},
                      {"sales-module", "stock-module", "customer-account"}), PosShows)
    BY DEF Heeded, Change, PosShows, AroundShows, StoreShows, LeftStale
  <2>q. QED  BY <2>1, FitsOffers DEF checkout
<1>6. Fits(PosPage(w), PosShows)
  BY <1>1, <1>2, <1>3, <1>4, <1>5, EmailFits, FitsOf DEF PosPage
<1>q. QED  BY <1>6, WithinLayout DEF PosShows, AroundShows, StoreShows

SalesShows ==
  AroundShows \cup StoreShows \cup
  {<<"item", "items-sales">>, <<"customer", "customers-sales">>, <<"bill", "sales-module">>, <<"bill", "sales-by-id">>,
   <<"receipt", "receipt-list-by-invoice-sales">>, <<"wallet", "customer-wallet-sales">>}
LEMMA SalesTidy == ASSUME NEW w PROVE Tidy(Of({SalesPage(w), AppLayout(w)}))
<1>1. Fits(Reads({ItemList("items-sales"), Query("customers-sales", Get("/customers"), {"customer"})}), SalesShows)
  <2>1. /\ ShownAs(ItemList("items-sales"), SalesShows)
        /\ ShownAs(Query("customers-sales", Get("/customers"), {"customer"}), SalesShows)
    BY DEF ShownAs, ItemList, Query, SalesShows
  <2>q. QED  BY <2>1, FitsReads
<1>2. Fits(useSalesList(w), SalesShows)
  <2>1. ShownAs(Query("sales-module", Get("/sales"), {"bill"}), SalesShows)
    BY DEF ShownAs, Query, SalesShows
  <2>q. QED  BY <2>1, FitsReads DEF useSalesList
<1>3. Fits(useInvoiceDetails(w), SalesShows)
  <2>1. /\ ShownAs(Query("sales-by-id", Get("/sales/:id"), {"bill"}), SalesShows)
        /\ ShownAs(Query("receipt-list-by-invoice-sales", Get("/receipts/by-invoice/:invoiceId"), {"receipt"}), SalesShows)
    BY DEF ShownAs, Query, SalesShows
  <2>q. QED  BY <2>1, FitsReads DEF useInvoiceDetails
<1>4. Fits(useReceiptSettings(w), SalesShows)
  BY StoreFits DEF useReceiptSettings, SalesShows
<1>5. Fits(useSettlePayment(w), SalesShows)
  <2>1. ShownAs(Query("customer-wallet-sales", Get("/customers/:id/wallet"), {"wallet"}), SalesShows)
    BY DEF ShownAs, Query, SalesShows
  <2>q. QED  BY <2>1, FitsReads DEF useSettlePayment
<1>6. Fits(cancelInvoice(w), SalesShows)
  <2>1. Heeded(Change(Post("/sales/:id/cancel"), {"bill", "stock", "debt", "wallet"},
                      {"sales-module", "sales-by-id", "stock-module"}), SalesShows)
    BY DEF Heeded, Change, SalesShows, AroundShows, StoreShows, LeftStale
  <2>q. QED  BY <2>1, FitsOffers, FitsWhen DEF cancelInvoice
<1>7. Fits(settleInvoice(w), SalesShows)
  <2>1. Heeded(Change(Post("/sales/:id/settle"), {"bill", "receipt", "debt", "wallet", "drawer"},
                      {"sales-module", "sales-by-id", "receipt-list-by-invoice-sales"}), SalesShows)
    BY DEF Heeded, Change, SalesShows, AroundShows, StoreShows, LeftStale
  <2>q. QED  BY <2>1, FitsOffers, FitsWhen DEF settleInvoice
<1>8. Fits(SalesPage(w), SalesShows)
  BY <1>1, <1>2, <1>3, <1>4, <1>5, <1>6, <1>7, EmailFits, FitsOf DEF SalesPage
<1>q. QED  BY <1>8, WithinLayout DEF SalesShows, AroundShows, StoreShows

ReturnsShows ==
  AroundShows \cup StoreShows \cup
  {<<"return", "returns-list">>, <<"bill", "sales-module">>, <<"bill", "sales-by-id">>, <<"item", "items-returns">>,
   <<"customer", "customers-returns">>}
LEMMA ReturnsTidy == ASSUME NEW w PROVE Tidy(Of({ReturnsPage(w), AppLayout(w)}))
<1>1. Fits(useReturns(w), ReturnsShows)
  <2>1. ShownAs(Query("returns-list", Get("/returns"), {"return"}), ReturnsShows)
    BY DEF ShownAs, Query, ReturnsShows
  <2>q. QED  BY <2>1, NothingShown, FitsReads DEF useReturns
<1>2. Fits(useBillSearch(w), ReturnsShows)
  <2>1. ShownAs(Query("sales-module", Get("/sales"), {"bill"}), ReturnsShows)
    BY DEF ShownAs, Query, ReturnsShows
  <2>q. QED  BY <2>1, FitsReads, FitsWhen DEF useBillSearch
<1>3. Fits(createReturn(w), ReturnsShows)
  <2>1. /\ ShownAs(ItemList("items-returns"), ReturnsShows)
        /\ ShownAs(Query("customers-returns", Get("/customers"), {"customer"}), ReturnsShows)
        /\ ShownAs(Query("sales-by-id", Get("/sales/:id"), {"bill"}), ReturnsShows)
    BY DEF ShownAs, ItemList, Query, ReturnsShows
  <2>2. Heeded(Change(Post("/sales/:id/return"), {"return", "bill", "stock", "debt", "wallet", "drawer"},
                      {"returns-list", "return-detail", "sales-module", "sales-by-id", "stock-module"}), ReturnsShows)
    BY DEF Heeded, Change, ReturnsShows, AroundShows, StoreShows
  <2>q. QED  BY <2>1, <2>2, FitsPanel, FitsWhen DEF createReturn
<1>4. Fits(Reads({BranchSettings, BusinessSettings}), ReturnsShows)
  BY StoreFits DEF ReturnsShows
<1>5. Fits(ReturnsPage(w), ReturnsShows)
  BY <1>1, <1>2, <1>3, <1>4, FitsOf DEF ReturnsPage
<1>q. QED  BY <1>5, WithinLayout DEF ReturnsShows, AroundShows, StoreShows

-----------------------------------------------------------------------------
(* Customers, cash and suppliers.                                          *)

CustomersShows ==
  AroundShows \cup
  {<<"customer name", "customers-ageing">>, <<"debt", "customers-ageing">>, <<"debt", "customer-statement">>,
   <<"customer", "customers-module">>, <<"limit", "customer-account">>, <<"debt", "customer-account">>,
   <<"wallet", "customers-module-wallet">>, <<"bill", "customers-module-sales">>}
LEMMA CustomersTidy == ASSUME NEW w PROVE Tidy(Of({CustomersPage(w), AppLayout(w)}))
<1>1. Fits(Reads({Query("customers-module", Get("/customers"), {"customer"}),
                  Query("customer-account", Get("/customers/:id/account"), {"limit", "debt"}),
                  Query("customers-module-wallet", Get("/customers/:id/wallet"), {"wallet"}),
                  Query("customers-module-sales", Get("/sales"), {"bill"}), BusinessSettings}), CustomersShows)
  <2>1. /\ ShownAs(Query("customers-module", Get("/customers"), {"customer"}), CustomersShows)
        /\ ShownAs(Query("customer-account", Get("/customers/:id/account"), {"limit", "debt"}), CustomersShows)
        /\ ShownAs(Query("customers-module-wallet", Get("/customers/:id/wallet"), {"wallet"}), CustomersShows)
        /\ ShownAs(Query("customers-module-sales", Get("/sales"), {"bill"}), CustomersShows)
        /\ ShownAs(BusinessSettings, CustomersShows)
    BY DEF ShownAs, BusinessSettings, Query, CustomersShows, AroundShows
  <2>q. QED  BY <2>1, FitsReads
<1>2. Fits(AgeingPanel(w), CustomersShows)
  <2>1. ShownAs(Query("customers-ageing", Get("/customers/ageing"), {"customer name", "debt"}), CustomersShows)
    BY DEF ShownAs, Query, CustomersShows
  <2>q. QED  BY <2>1, FitsReads DEF AgeingPanel
<1>3. Fits(StatementPanel(w), CustomersShows)
  <2>1. Fits(Reads({Query("customer-statement", Get("/customers/:id/statement"), {"debt"})}), CustomersShows)
    <3>1. ShownAs(Query("customer-statement", Get("/customers/:id/statement"), {"debt"}), CustomersShows)
      BY DEF ShownAs, Query, CustomersShows
    <3>q. QED  BY <3>1, FitsReads
  <2>2. Fits(When(~useIsOffline(w), Offers({Change(Post("/customers/:id/statement/email"), {}, {})})), CustomersShows)
    BY NothingHeeded, FitsOffers, FitsWhen
  <2>q. QED  BY <2>1, <2>2, FitsOf DEF StatementPanel
<1>4. Fits(WalletTopupForm(w), CustomersShows)
  <2>1. Heeded(Change(Post("/customers/:id/wallet/topup"), {"wallet", "drawer"}, {"customers-module-wallet"}), CustomersShows)
    BY DEF Heeded, Change, CustomersShows, AroundShows
  <2>2. Fits(Offers({Change(Post("/customers/:id/wallet/topup"), {"wallet", "drawer"}, {"customers-module-wallet"})}),
             CustomersShows)
    BY <2>1, FitsOffers
  <2>q. QED  BY <2>2, FitsWhen DEF WalletTopupForm
<1>5. Fits(WalletAdjustForm(w), CustomersShows)
  <2>1. Heeded(Change(Post("/customers/:id/wallet/adjust"), {"wallet"}, {"customers-module-wallet"}), CustomersShows)
    BY DEF Heeded, Change, CustomersShows, AroundShows
  <2>q. QED  BY <2>1, FitsOffers, FitsWhen DEF WalletAdjustForm
<1>6. Fits(createCustomer(w), CustomersShows)
  <2>1. Heeded(Change(Post("/customers"), {"customer"}, {"customers-module"}), CustomersShows)
    BY DEF Heeded, Change, CustomersShows, AroundShows
  <2>q. QED  BY <2>1, FitsOffers DEF createCustomer
<1>7. Fits(updateCustomer(w), CustomersShows)
  <2>1. Heeded(Change(Patch("/customers/:id"), {"customer", "customer name", "limit"},
                      {"customers-module", "customer-account", "customers-ageing"}), CustomersShows)
    BY DEF Heeded, Change, CustomersShows, AroundShows
  <2>q. QED  BY <2>1, FitsOffers DEF updateCustomer
<1>8. Fits(CustomersPage(w), CustomersShows)
  BY <1>1, <1>2, <1>3, <1>4, <1>5, <1>6, <1>7, FitsOf DEF CustomersPage
<1>q. QED  BY <1>8, WithinLayout DEF CustomersShows, AroundShows

ExpensesShows == AroundShows \cup {<<"expense", "expenses">>}
LEMMA ExpensesTidy == ASSUME NEW w PROVE Tidy(Of({ExpensesPage(w), AppLayout(w)}))
<1>1. Fits(Reads({Query("expenses", Get("/expenses"), {"expense"})}), ExpensesShows)
  <2>1. ShownAs(Query("expenses", Get("/expenses"), {"expense"}), ExpensesShows)
    BY DEF ShownAs, Query, ExpensesShows
  <2>q. QED  BY <2>1, FitsReads
<1>2. Fits(ExpenseForm(w), ExpensesShows)
  <2>1. Heeded(Change(Post("/expenses"), {"expense", "drawer"}, {"expenses", "register-current-cash"}), ExpensesShows)
    BY DEF Heeded, Change, ExpensesShows, AroundShows
  <2>q. QED  BY <2>1, FitsOffers DEF ExpenseForm
<1>3. Fits(When(w.admin, Offers({Change(Delete("/expenses/:id"), {"expense", "drawer"}, {"expenses"})})), ExpensesShows)
  <2>1. Heeded(Change(Delete("/expenses/:id"), {"expense", "drawer"}, {"expenses"}), ExpensesShows)
    BY DEF Heeded, Change, ExpensesShows, AroundShows
  <2>q. QED  BY <2>1, FitsOffers, FitsWhen
<1>4. Fits(ExpensesPage(w), ExpensesShows)
  BY <1>1, <1>2, <1>3, FitsOf DEF ExpensesPage
<1>q. QED  BY <1>4, WithinLayout DEF ExpensesShows, AroundShows

SuppliersShows == AroundShows \cup {<<"supplier", "suppliers">>, <<"supplier", "supplier-account">>}
LEMMA SuppliersTidy == ASSUME NEW w PROVE Tidy(Of({SuppliersPage(w), AppLayout(w)}))
<1>1. Fits(useSuppliers(w), SuppliersShows)
  <2>1. ShownAs(Query("suppliers", Get("/suppliers"), {"supplier"}), SuppliersShows)
    BY DEF ShownAs, Query, SuppliersShows
  <2>q. QED  BY <2>1, FitsReads DEF useSuppliers
<1>2. Fits(SupplierAccount(w), SuppliersShows)
  <2>1. ShownAs(Query("supplier-account", Get("/suppliers/:id/account"), {"supplier"}), SuppliersShows)
    BY DEF ShownAs, Query, SuppliersShows
  <2>q. QED  BY <2>1, FitsReads DEF SupplierAccount
<1>3. Fits(SupplierForm(w), SuppliersShows)
  <2>1. \A call : Heeded(Change(call, {"supplier"}, {"suppliers", "supplier-account"}), SuppliersShows)
    BY DEF Heeded, Change, SuppliersShows, AroundShows
  <2>q. QED  BY <2>1, FitsOffers, FitsWhen DEF SupplierForm
<1>4. Fits(SupplierPaymentForm(w), SuppliersShows)
  <2>1. Heeded(Change(Post("/suppliers/:id/payments"), {"supplier", "drawer"},
                      {"suppliers", "supplier-account", "register-current-cash"}), SuppliersShows)
    BY DEF Heeded, Change, SuppliersShows, AroundShows
  <2>q. QED  BY <2>1, FitsOffers, FitsWhen DEF SupplierPaymentForm
<1>5. Fits(SuppliersPage(w), SuppliersShows)
  BY <1>1, <1>2, <1>3, <1>4, FitsOf DEF SuppliersPage
<1>q. QED  BY <1>5, WithinLayout DEF SuppliersShows, AroundShows

PurchasesShows ==
  AroundShows \cup
  {<<"item", "items-stock-list">>, <<"purchase", "purchases">>, <<"supplier", "suppliers">>, <<"sent back", "purchase">>}
LEMMA PurchasesTidy == ASSUME NEW w PROVE Tidy(Of({PurchasesPage(w), AppLayout(w)}))
<1>1. Fits(Panel({ItemList("items-stock-list"), Query("purchases", Get("/purchases"), {"purchase"})},
                 {Change(Post("/purchases"), {"purchase", "stock", "supplier", "item"},
                         {"purchases", "stock-module", "stock-ledger", "items-stock-list", "suppliers"})}), PurchasesShows)
  <2>1. /\ ShownAs(ItemList("items-stock-list"), PurchasesShows)
        /\ ShownAs(Query("purchases", Get("/purchases"), {"purchase"}), PurchasesShows)
    BY DEF ShownAs, ItemList, Query, PurchasesShows
  <2>2. Heeded(Change(Post("/purchases"), {"purchase", "stock", "supplier", "item"},
                      {"purchases", "stock-module", "stock-ledger", "items-stock-list", "suppliers"}), PurchasesShows)
    BY DEF Heeded, Change, PurchasesShows, AroundShows
  <2>q. QED  BY <2>1, <2>2, FitsPanel
<1>2. Fits(SupplierPicker(w), PurchasesShows)
  <2>1. ShownAs(Query("suppliers", Get("/suppliers"), {"supplier"}), PurchasesShows)
    BY DEF ShownAs, Query, PurchasesShows
  <2>q. QED  BY <2>1, FitsReads DEF SupplierPicker, useSuppliers
<1>3. Fits(PurchaseDetail(w), PurchasesShows)
  <2>1. ShownAs(Query("purchase", Get("/purchases/:id"), {"sent back"}), PurchasesShows)
    BY DEF ShownAs, Query, PurchasesShows
  <2>2. Heeded(Change(Post("/purchases/:id/returns"), {"sent back", "stock", "supplier"},
                      {"purchase", "suppliers", "stock-module", "stock-ledger"}), PurchasesShows)
    BY DEF Heeded, Change, PurchasesShows, AroundShows
  <2>q. QED  BY <2>1, <2>2, FitsPanel DEF PurchaseDetail
<1>4. Fits(PurchasesPage(w), PurchasesShows)
  BY <1>1, <1>2, <1>3, FitsOf DEF PurchasesPage
<1>q. QED  BY <1>4, WithinLayout DEF PurchasesShows, AroundShows

-----------------------------------------------------------------------------
(* Items, stock and transfers.                                             *)

ItemsShows ==
  AroundShows \cup {<<"item", "items-module">>, <<"variant", "item-groups">>, <<"branch price", "item-branch-prices">>}
LEMMA ItemsTidy == ASSUME NEW w PROVE Tidy(Of({ItemsPage(w), AppLayout(w)}))
<1>1. Fits(Reads({ItemList("items-module"), BusinessSettings}), ItemsShows)
  <2>1. ShownAs(ItemList("items-module"), ItemsShows) /\ ShownAs(BusinessSettings, ItemsShows)
    BY DEF ShownAs, ItemList, BusinessSettings, Query, ItemsShows, AroundShows
  <2>q. QED  BY <2>1, FitsReads
<1>2. Fits(VariantsPanel(w), ItemsShows)
  <2>1. Fits(Reads({Query("item-groups", Get("/item-groups"), {"variant"})}), ItemsShows)
    <3>1. ShownAs(Query("item-groups", Get("/item-groups"), {"variant"}), ItemsShows)
      BY DEF ShownAs, Query, ItemsShows
    <3>q. QED  BY <3>1, FitsReads
  <2>2. \A call : Heeded(Change(call, {"item", "variant"}, {"items-module", "items-pos", "items-stock-list", "item-groups"}),
                         ItemsShows)
    BY DEF Heeded, Change, ItemsShows, AroundShows
  <2>q. QED  BY <2>1, <2>2, FitsOffers, FitsWhen, FitsOf DEF VariantsPanel
<1>3. Fits(BranchPricesSection(w), ItemsShows)
  <2>1. ShownAs(Query("item-branch-prices", Get("/items/:id/branch-prices"), {"branch price"}), ItemsShows)
    BY DEF ShownAs, Query, ItemsShows
  <2>2. Heeded(Change(Put("/items/:id/branch-prices"), {"branch price"}, {"item-branch-prices", "items-pos"}), ItemsShows)
    BY DEF Heeded, Change, ItemsShows, AroundShows
  <2>q. QED  BY <2>1, <2>2, FitsPanel DEF BranchPricesSection
<1>4. Fits(ItemDetails(w), ItemsShows)
  BY <1>2, <1>3, FitsWhen, FitsOf DEF ItemDetails
<1>5. Fits(useItemMutations(w), ItemsShows)
  <2>1. Heeded(Change(Post("/items"), {"item"}, {"items-module"}), ItemsShows)
    BY DEF Heeded, Change, ItemsShows, AroundShows
  <2>2. \A call \in {Patch("/items/:id"), Delete("/items/:id")} :
          Heeded(Change(call, {"item", "variant"}, {"items-module"}), ItemsShows)
    BY DEF Heeded, Change, ItemsShows, AroundShows, LeftStale
  <2>q. QED  BY <2>1, <2>2, NothingHeeded, FitsOffers DEF useItemMutations
<1>6. Fits(CategoryInput(w), ItemsShows)
  <2>1. ShownAs(Query("items-module", Get("/items/categories"), {"item"}), ItemsShows)
    BY DEF ShownAs, Query, ItemsShows
  <2>q. QED  BY <2>1, FitsReads DEF CategoryInput
<1>7. Fits(ProductForm(w), ItemsShows)
  <2>1. Heeded(Change(Post("/item-groups"), {"item", "variant"},
                      {"items-module", "items-pos", "items-stock-list", "item-groups"}), ItemsShows)
    BY DEF Heeded, Change, ItemsShows, AroundShows
  <2>q. QED  BY <2>1, FitsOffers DEF ProductForm
<1>8. Fits(ItemsPage(w), ItemsShows)
  <2>1. Fits(When(can(w, "MANAGE_ITEMS"), Of({useItemMutations(w), CategoryInput(w), ProductForm(w)})), ItemsShows)
    BY <1>5, <1>6, <1>7, FitsOf, FitsWhen
  <2>q. QED  BY <1>1, <1>4, <2>1, FitsOf DEF ItemsPage
<1>q. QED  BY <1>8, WithinLayout DEF ItemsShows, AroundShows

LEMMA ImportItemsTidy == ASSUME NEW w PROVE Tidy(Of({ImportItemsPage(w), AppLayout(w)}))
<1>1. Heeded(Change(Post("/items/import"), {"item", "variant", "stock"},
                    {"items-module", "items-pos", "items-stock-list", "item-groups", "stock-module", "low-stock"}), AroundShows)
  BY DEF Heeded, Change, AroundShows
<1>2. Fits(ImportItemsPage(w), AroundShows)
  BY <1>1, FitsOffers DEF ImportItemsPage
<1>q. QED  BY <1>2, WithinLayout DEF AroundShows

LabelsShows == AroundShows \cup {<<"item", "items-labels">>, <<"stock", "stock-batches">>, <<"purchase", "purchase-for-labels">>}
LEMMA LabelsTidy == ASSUME NEW w PROVE Tidy(Of({LabelsPage(w), AppLayout(w)}))
<1>1. /\ ShownAs(ItemList("items-labels"), LabelsShows)
      /\ ShownAs(Query("stock-batches", Get("/stock/batches"), {"stock"}), LabelsShows)
      /\ ShownAs(Query("purchase-for-labels", Get("/purchases/:id"), {"purchase"}), LabelsShows)
  BY DEF ShownAs, ItemList, Query, LabelsShows
<1>2. /\ Fits(Reads({ItemList("items-labels")}), LabelsShows) /\ Fits(useBatches(w), LabelsShows)
      /\ Fits(Reads({Query("purchase-for-labels", Get("/purchases/:id"), {"purchase"})}), LabelsShows)
  BY <1>1, FitsReads DEF useBatches
<1>3. Fits(LabelsPage(w), LabelsShows)
  BY <1>2, FitsWhen, FitsOf DEF LabelsPage
<1>q. QED  BY <1>3, WithinLayout DEF LabelsShows, AroundShows

StockShows ==
  AroundShows \cup
  {<<"item", "items-stock-list">>, <<"stock", "stock-module">>, <<"stock", "stock-ledger">>, <<"stock", "stock-batches">>,
   <<"stock", "low-stock">>, <<"stock level", "low-stock">>}
LEMMA StockTidy == ASSUME NEW w PROVE Tidy(Of({StockPage(w), AppLayout(w)}))
<1>1. Fits(Reads({ItemList("items-stock-list"), OnHand, Query("stock-ledger", Get("/stock/ledger"), {"stock"})}), StockShows)
  <2>1. /\ ShownAs(ItemList("items-stock-list"), StockShows) /\ ShownAs(OnHand, StockShows)
        /\ ShownAs(Query("stock-ledger", Get("/stock/ledger"), {"stock"}), StockShows)
    BY DEF ShownAs, ItemList, OnHand, Query, StockShows
  <2>q. QED  BY <2>1, FitsReads
<1>2. Fits(useBatches(w), StockShows)
  <2>1. ShownAs(Query("stock-batches", Get("/stock/batches"), {"stock"}), StockShows)
    BY DEF ShownAs, Query, StockShows
  <2>q. QED  BY <2>1, FitsReads DEF useBatches
<1>3. Fits(LowStockCard(w), StockShows)
  <2>1. ShownAs(Query("low-stock", Get("/stock/low"), {"stock", "stock level"}), StockShows)
    BY DEF ShownAs, Query, StockShows
  <2>q. QED  BY <2>1, FitsReads DEF LowStockCard
<1>4. Fits(ReorderLevel(w), StockShows)
  <2>1. Heeded(Change(Put("/stock/reorder-level"), {"stock level"}, {"stock-module", "low-stock"}), StockShows)
    BY DEF Heeded, Change, StockShows, AroundShows
  <2>q. QED  BY <2>1, FitsOffers, FitsWhen DEF ReorderLevel
<1>5. Fits(useStockMutations(w), StockShows)
  <2>1. \A call : Heeded(Change(call, {"stock"}, {"stock-module", "stock-ledger", "stock-batches", "low-stock"}), StockShows)
    BY DEF Heeded, Change, StockShows, AroundShows
  <2>q. QED  BY <2>1, FitsOffers, FitsWhen DEF useStockMutations
<1>6. Fits(StockPage(w), StockShows)
  BY <1>1, <1>2, <1>3, <1>4, <1>5, FitsOf DEF StockPage
<1>q. QED  BY <1>6, WithinLayout DEF StockShows, AroundShows

TransfersShows ==
  AroundShows \cup {<<"item", "items-stock-list">>, <<"stock", "stock-module">>, <<"transfer", "transfers">>}
LEMMA TransfersTidy == ASSUME NEW w PROVE Tidy(Of({TransfersPage(w), AppLayout(w)}))
<1> DEFINE refreshes == {"transfers", "stock-module", "stock-ledger"}
           list == Panel({ItemList("items-stock-list"), OnHand, Query("transfers", Get("/stock-transfers"), {"transfer"})},
                         {Change(Post("/stock-transfers/:id/receive"), {"transfer", "stock"}, refreshes)})
           sending == Panel({Query("transfer-destinations", Get("/stock-transfers/destinations"), {})},
                            {Change(c, {"transfer", "stock"}, refreshes) :
                             c \in {Post("/stock-transfers"), Post("/stock-transfers/:id/cancel")}})
<1>1. \A call : Heeded(Change(call, {"transfer", "stock"}, refreshes), TransfersShows)
  BY DEF Heeded, Change, TransfersShows, AroundShows
<1>2. /\ ShownAs(ItemList("items-stock-list"), TransfersShows) /\ ShownAs(OnHand, TransfersShows)
      /\ ShownAs(Query("transfers", Get("/stock-transfers"), {"transfer"}), TransfersShows)
  BY DEF ShownAs, ItemList, OnHand, Query, TransfersShows
<1>3. Fits(list, TransfersShows)
  BY <1>1, <1>2, FitsPanel
<1>4. Fits(When(can(w, "SEND_TRANSFERS"), sending), TransfersShows)
  <2>1. Fits(sending, TransfersShows)
    BY <1>1, NothingShown, FitsPanel
  <2>q. QED  BY <2>1, FitsWhen
<1>5. Fits(Of({list, When(can(w, "SEND_TRANSFERS"), sending)}), TransfersShows)
  BY <1>3, <1>4, FitsOf
<1>6. Fits(TransfersPage(w), TransfersShows)
  BY <1>5, FitsWhen DEF TransfersPage
<1>q. QED  BY <1>6, WithinLayout DEF TransfersShows, AroundShows

-----------------------------------------------------------------------------
(* Reports and settings.                                                   *)

ReportsShows ==
  AroundShows \cup
  {<<"bill", k>> : k \in {"reports-sales-summary", "reports-detail", "gstr1", "gstr3b", "CMP08", "GSTR4"}}
    \cup {<<"audit", "audit">>, <<"branch gstin", "gst-gstins">>}
LEMMA ReportsTidy ==
  ASSUME NEW w
  PROVE  \A p \in {ReportsPage(w), ActivityPage(w), GstReturnsPage(w)} : Tidy(Of({p, AppLayout(w)}))
<1>1. Fits(ReportsPage(w), ReportsShows)
  <2>1. /\ ShownAs(Query("reports-sales-summary", Get("/reports/sales-summary"), {"bill"}), ReportsShows)
        /\ ShownAs(Query("reports-detail", Get("/reports/detail"), {"bill"}), ReportsShows)
    BY DEF ShownAs, Query, ReportsShows
  <2>q. QED  BY <2>1, FitsReads, FitsOf DEF ReportsPage, DetailReport
<1>2. Fits(ActivityPage(w), ReportsShows)
  <2>1. ShownAs(Query("audit", Get("/audit"), {"audit"}), ReportsShows) /\ ShownAs(BusinessSettings, ReportsShows)
    BY DEF ShownAs, BusinessSettings, Query, ReportsShows, AroundShows
  <2>q. QED  BY <2>1, FitsReads DEF ActivityPage
<1>3. Fits(GstReturnsPage(w), ReportsShows)
  <2>1. /\ ShownAs(Query("gst-gstins", Get("/gst/gstins"), {"branch gstin"}), ReportsShows)
        /\ ShownAs(Query("gstr1", Get("/gst/gstr1"), {"bill"}), ReportsShows)
        /\ ShownAs(Query("gstr3b", Get("/gst/gstr3b"), {"bill"}), ReportsShows)
        /\ ShownAs(Query("CMP08", Get("/gst/cmp08"), {"bill"}), ReportsShows)
        /\ ShownAs(Query("GSTR4", Get("/gst/gstr4"), {"bill"}), ReportsShows)
    BY DEF ShownAs, Query, ReportsShows
  <2>2. /\ Fits(Reads({Query("gst-gstins", Get("/gst/gstins"), {"branch gstin"})}), ReportsShows)
        /\ Fits(Gstr1View(w), ReportsShows) /\ Fits(Gstr3bView(w), ReportsShows) /\ Fits(CompositionView(w), ReportsShows)
    BY <2>1, FitsReads DEF Gstr1View, Gstr3bView, CompositionView
  <2>q. QED  BY <2>2, FitsOf DEF GstReturnsPage
<1>q. QED  BY <1>1, <1>2, <1>3, WithinLayout DEF ReportsShows, AroundShows

SettingsShows ==
  AroundShows \cup StoreShows \cup
  {<<"user", "branch-users">>, <<"branches", "accessible-branches">>, <<"taxpayer type", "taxpayer-type">>,
   <<"counter", "branch-counters">>, <<"counter name", "register-summaries">>, <<"register", "register-summaries">>,
   <<"printing", "desktop-printing">>, <<"backups", "desktop-backups">>}
LEMMA BranchSettingsFits == ASSUME NEW w PROVE Fits(BranchSettingsPage(w), SettingsShows)
<1>1. ShownAs(BranchSettings, SettingsShows) /\ ShownAs(BusinessSettings, SettingsShows)
  BY StoreFits DEF SettingsShows
<1>2. /\ ShownAs(Query("branch-users", Get("/users"), {"user"}), SettingsShows)
      /\ ShownAs(Query("accessible-branches", Get("/branches"), {"branches"}), SettingsShows)
  BY DEF ShownAs, Query, SettingsShows
<1>q. QED  BY <1>1, <1>2, FitsReads DEF BranchSettingsPage
LEMMA BusinessTabFits ==
  ASSUME NEW w
  PROVE  Fits(Of({RecoveryCodeSettings(w), useBusinessSettingsMutations(w), TaxpayerTypeSection(w)}), SettingsShows)
<1>1. Fits(RecoveryCodeSettings(w), SettingsShows)
  <2>1. ShownAs(Query("recovery-code-status", Get("/auth/recovery-code"), {"recovery code"}), SettingsShows)
    BY DEF ShownAs, Query, SettingsShows, AroundShows
  <2>2. Heeded(Change(Post("/auth/recovery-code"), {"recovery code"}, {"recovery-code-status"}), SettingsShows)
    BY DEF Heeded, Change, SettingsShows, AroundShows, StoreShows
  <2>3. Fits(useRecoveryStatus(w), SettingsShows)
    BY <2>1, FitsReads, FitsWhen DEF useRecoveryStatus
  <2>4. Fits(Offers({Change(Post("/auth/recovery-code"), {"recovery code"}, {"recovery-code-status"})}), SettingsShows)
    BY <2>2, FitsOffers
  <2>q. QED  BY <2>3, <2>4, FitsWhen, FitsOf DEF RecoveryCodeSettings
<1>2. Fits(useBusinessSettingsMutations(w), SettingsShows)
  <2>1. /\ Heeded(Change(Patch("/business/settings"), {"business"}, {} \cup {"business-settings"}), SettingsShows)
        /\ Heeded(Change(Post("/business/logo"), {"business"}, {"business-settings"}), SettingsShows)
    BY DEF Heeded, Change, SettingsShows, AroundShows, StoreShows
  <2>2. Heeded(Sets(Change(Patch("/business/settings"), {"business"}, {}), {"business-settings"}), SettingsShows)
    BY <2>1, SetsHeeded
  <2>q. QED  BY <2>1, <2>2, FitsOffers DEF useBusinessSettingsMutations
<1>3. Fits(TaxpayerTypeSection(w), SettingsShows)
  <2>1. ShownAs(Query("taxpayer-type", Get("/business/taxpayer-type"), {"taxpayer type"}), SettingsShows)
    BY DEF ShownAs, Query, SettingsShows
  <2>2. \A call : Heeded(Change(call, {"taxpayer type", "business"}, {"taxpayer-type", "business-settings"}), SettingsShows)
    BY DEF Heeded, Change, SettingsShows, AroundShows, StoreShows
  <2>q. QED  BY <2>1, <2>2, FitsPanel DEF TaxpayerTypeSection
<1>q. QED  BY <1>1, <1>2, <1>3, FitsOf
LEMMA CountersFits == ASSUME NEW w PROVE Fits(CountersSection(w), SettingsShows)
<1> DEFINE seen == Panel({Query("branch-counters", Get("/branches/:branchId/counters"), {"counter"}),
                          Query("register-summaries", Get("/registers/summary"), {"counter name", "register"})},
                         {Change(Patch("/counters/:id"), {"counter", "counter name"}, {"branch-counters", "register-summaries"})})
           added == Offers({Change(Post("/branches/:branchId/counters"), {"counter", "counter name"},
                                   {"branch-counters", "register-summaries"})})
           fallback == Offers({Change(c, {"counter"}, {"branch-counters"}) :
                               c \in {Post("/counters/:id/fallback"), Delete("/counters/:id/fallback")}})
<1>1. \A call : /\ Heeded(Change(call, {"counter", "counter name"}, {"branch-counters", "register-summaries"}), SettingsShows)
                /\ Heeded(Change(call, {"counter"}, {"branch-counters"}), SettingsShows)
  BY DEF Heeded, Change, SettingsShows, AroundShows, StoreShows
<1>2. Fits(seen, SettingsShows)
  <2>1. /\ ShownAs(Query("branch-counters", Get("/branches/:branchId/counters"), {"counter"}), SettingsShows)
        /\ ShownAs(Query("register-summaries", Get("/registers/summary"), {"counter name", "register"}), SettingsShows)
    BY DEF ShownAs, Query, SettingsShows
  <2>q. QED  BY <2>1, <1>1, FitsPanel
<1>3. Fits(added, SettingsShows) /\ Fits(fallback, SettingsShows)
  BY <1>1, FitsOffers
<1>4. /\ Fits(When(~useIsOffline(w), added), SettingsShows)
      /\ Fits(When(~useIsOffline(w) /\ w.desktop, fallback), SettingsShows)
  <2>1. PICK both : both = (~useIsOffline(w) /\ w.desktop)
    OBVIOUS
  <2>2. Fits(When(both, fallback), SettingsShows)
    BY <1>3, FitsWhen
  <2>q. QED  BY <1>3, <2>1, <2>2, FitsWhen
<1>5. CountersSection(w) = Of({seen, When(~useIsOffline(w), added), When(~useIsOffline(w) /\ w.desktop, fallback)})
  BY DEF CountersSection
<1>q. QED  BY <1>2, <1>4, <1>5, FitsOf
LEMMA BranchesTabFits ==
  ASSUME NEW w
  PROVE  Fits(Of({createBranch(w), useBranchSettingsMutations(w), CountersSection(w)}), SettingsShows)
<1>1. Fits(createBranch(w), SettingsShows)
  <2>1. Heeded(Change(Post("/branches"), {"branches"}, {"accessible-branches"}), SettingsShows)
    BY DEF Heeded, Change, SettingsShows, AroundShows, StoreShows
  <2>q. QED  BY <2>1, FitsOffers, FitsWhen DEF createBranch
<1>2. Fits(useBranchSettingsMutations(w), SettingsShows)
  <2>1. /\ Heeded(Change(Patch("/branches/:id"), {"branch", "branch gstin", "branches"},
                         {"accessible-branches", "business-settings"} \cup {"branch-settings"}), SettingsShows)
        /\ Heeded(Change(Post("/branches/:id/logo"), {"branch"}, {"branch-settings", "accessible-branches"}), SettingsShows)
    BY DEF Heeded, Change, SettingsShows, AroundShows, StoreShows
  <2>2. Heeded(Sets(Change(Patch("/branches/:id"), {"branch", "branch gstin", "branches"},
                           {"accessible-branches", "business-settings"}), {"branch-settings"}), SettingsShows)
    BY <2>1, SetsHeeded
  <2>q. QED  BY <2>1, <2>2, FitsOffers DEF useBranchSettingsMutations
<1>q. QED  BY <1>1, <1>2, CountersFits, FitsOf

LEMMA ReceiptsTabFits == ASSUME NEW w PROVE Fits(ReceiptTemplateSection(w), SettingsShows)
<1>1. ShownAs(BranchSettings, SettingsShows)
  BY StoreFits DEF SettingsShows
<1>2. Heeded(Change(Patch("/branches/:id"), {"branch"}, {} \cup {"branch-settings"}), SettingsShows)
  BY DEF Heeded, Change, SettingsShows, AroundShows, StoreShows
<1>3. Heeded(Sets(Change(Patch("/branches/:id"), {"branch"}, {}), {"branch-settings"}), SettingsShows)
  BY <1>2, SetsHeeded
<1>q. QED  BY <1>1, <1>3, FitsPanel DEF ReceiptTemplateSection
LEMMA CashiersTabFits == ASSUME NEW w PROVE Fits(useCashierMutations(w), SettingsShows)
<1>1. \A call : Heeded(Change(call, {"user"}, {"branch-users"}), SettingsShows)
  BY DEF Heeded, Change, SettingsShows, AroundShows, StoreShows
<1>q. QED  BY <1>1, FitsOffers DEF useCashierMutations
LEMMA BillingTabFits == ASSUME NEW w PROVE Fits(BillingSection(w), SettingsShows)
BY NothingShown, NothingHeeded, FitsPanel DEF BillingSection
LEMMA DataTabFits == ASSUME NEW w PROVE Fits(DataExportSection(w), SettingsShows)
BY NothingHeeded, FitsOffers, FitsWhen, FitsOf DEF DataExportSection
LEMMA PrinterTabFits == ASSUME NEW w PROVE Fits(PrinterSection(w), SettingsShows)
<1>1. Fits(useStoreSettings(w), SettingsShows)
  BY StoreFits DEF useStoreSettings, SettingsShows
<1>2. ShownAs(Query("desktop-printing", Ipc("printing:settings"), {"printing"}), SettingsShows)
  BY DEF ShownAs, Query, SettingsShows
<1>3. Heeded(Change(Ipc("printing:save"), {"printing"}, {} \cup {"desktop-printing"}), SettingsShows)
  BY DEF Heeded, Change, SettingsShows, AroundShows, StoreShows
<1>4. Heeded(Sets(Change(Ipc("printing:save"), {"printing"}, {}), {"desktop-printing"}), SettingsShows)
  BY <1>3, SetsHeeded
<1>5. ShownAs(Kept(Query("desktop-printing", Ipc("printing:settings"), {"printing"})), SettingsShows)
  BY <1>2, KeptShown
<1>q. QED  BY <1>1, <1>4, <1>5, NothingShown, NothingHeeded, FitsPanel, FitsOf DEF PrinterSection
LEMMA BackupsTabFits == ASSUME NEW w PROVE Fits(BackupsSection(w), SettingsShows)
<1>1. ShownAs(Query("desktop-backups", Ipc("backups:list"), {"backups"}), SettingsShows)
  BY DEF ShownAs, Query, SettingsShows
<1>2. \A call : Heeded(Change(call, {"backups"}, {"desktop-backups"}), SettingsShows)
  BY DEF Heeded, Change, SettingsShows, AroundShows, StoreShows
<1>q. QED  BY <1>1, <1>2, FitsPanel DEF BackupsSection
LEMMA SettingsTidy ==
  ASSUME NEW w, NEW t, t \in SettingsTabs(w)
  PROVE  Tidy(Of({Of({BranchSettingsPage(w), t[2]}), AppLayout(w)}))
<1>1. Fits(t[2], SettingsShows)
  <2>1. t[2] \in {Of({RecoveryCodeSettings(w), useBusinessSettingsMutations(w), TaxpayerTypeSection(w)}),
                  Of({createBranch(w), useBranchSettingsMutations(w), CountersSection(w)}),
                  ReceiptTemplateSection(w), useCashierMutations(w), DataExportSection(w), BillingSection(w),
                  PrinterSection(w), BackupsSection(w)}
    BY DEF SettingsTabs
  <2>q. QED  BY <2>1, BusinessTabFits, BranchesTabFits, ReceiptsTabFits, CashiersTabFits, DataTabFits, BillingTabFits,
                PrinterTabFits, BackupsTabFits
<1>2. Fits(Of({BranchSettingsPage(w), t[2]}), SettingsShows)
  BY <1>1, BranchSettingsFits, FitsOf
<1>3. AroundShows \subseteq SettingsShows /\ \A k : <<"crash reports", k>> \in SettingsShows => k = "crash-reports"
  BY DEF SettingsShows, AroundShows, StoreShows
<1>q. QED  BY <1>2, <1>3, WithinLayout

-----------------------------------------------------------------------------
(* Signing in, the owner's pages, registers, and all pages together.       *)

LEMMA SignInTidy ==
  ASSUME NEW w
  PROVE  \A p \in {LoginPage(w), RecoverPage(w), OwnerPasswordPage(w), SetupPage(w), ChangePasswordPage(w)} :
           Tidy(Of({p, AppLayout(w)}))
<1>1. Fits(LoginPage(w), AroundShows) /\ Fits(ChangePasswordPage(w), AroundShows)
  BY NothingHeeded, FitsOffers DEF LoginPage, ChangePasswordPage
<1>2. Fits(OwnerPasswordPage(w), AroundShows)
  BY NothingHeeded, FitsOffers DEF OwnerPasswordPage
<1>3. Fits(SetupPage(w), AroundShows)
  BY NothingHeeded, FitsOffers DEF SetupPage
<1>4. Fits(OfflineRecover(w), AroundShows)
  BY NothingHeeded, FitsOffers DEF OfflineRecover
<1>5. Fits(OwnerResetsStaffPassword(w), AroundShows)
  BY NothingHeeded, FitsOffers DEF OwnerResetsStaffPassword
<1>6. \A p : Fits(p, AroundShows) => Tidy(Of({p, AppLayout(w)}))
  BY WithinLayout DEF AroundShows
<1>q. QED  BY <1>1, <1>2, <1>3, <1>4, <1>5, <1>6 DEF RecoverPage

OwnerShows == AroundShows \cup {<<"businesses", "owner-businesses">>, <<"staff", "owner-staff">>}
LEMMA OwnerTidy == ASSUME NEW w PROVE Tidy(Of({OwnerPage(w), AppLayout(w)}))
<1>1. \A call : /\ Heeded(Change(call, {"staff"}, {"owner-staff"}), OwnerShows)
                /\ Heeded(Change(call, {"businesses"}, {"owner-businesses"}), OwnerShows)
  BY DEF Heeded, Change, OwnerShows, AroundShows
<1>2. Fits(OwnerSignIn(w), OwnerShows)
  BY NothingHeeded, FitsOffers DEF OwnerSignIn
<1>3. Fits(OwnerStaff(w), OwnerShows)
  <2>1. /\ ShownAs(Query("owner-businesses", Get("/accounts/businesses"), {"businesses"}), OwnerShows)
        /\ ShownAs(Query("owner-staff", Get("/accounts/businesses/:businessId/staff"), {"staff"}), OwnerShows)
    BY DEF ShownAs, Query, OwnerShows
  <2>2. ShownAs(Kept(Query("owner-businesses", Get("/accounts/businesses"), {"businesses"})), OwnerShows)
    BY <2>1, KeptShown
  <2>q. QED  BY <1>1, <2>1, <2>2, FitsPanel DEF OwnerStaff
<1>4. Fits(NewPasswordForm(w), OwnerShows)
  BY <1>1, FitsOffers DEF NewPasswordForm
<1>5. Fits(BusinessDeletion(w), OwnerShows)
  BY <1>1, NothingHeeded, FitsOffers DEF BusinessDeletion
<1>6. Fits(OwnerPage(w), OwnerShows)
  BY <1>2, <1>3, <1>4, <1>5, FitsOf, FitsWhen DEF OwnerPage
<1>q. QED  BY <1>6, WithinLayout DEF OwnerShows, AroundShows

OpenRegisterShows == AroundShows \cup {<<"branches", "session-branches">>, <<"register", "register-summaries">>}
LEMMA OpenRegisterTidy == ASSUME NEW w PROVE Tidy(Of({OpenRegisterPage(w), AppLayout(w)}))
<1>1. \A call : Heeded(Change(call, {"register"}, {"register-summaries"}), OpenRegisterShows)
  BY DEF Heeded, Change, OpenRegisterShows, AroundShows
<1>2. /\ ShownAs(Query("session-branches", Get("/branches"), {"branches"}), OpenRegisterShows)
      /\ ShownAs(Query("register-summaries", Get("/registers/summary"), {"register"}), OpenRegisterShows)
  BY DEF ShownAs, Query, OpenRegisterShows
<1>3. /\ Fits(Panel({Query("session-branches", Get("/branches"), {"branches"}),
                     Query("register-summaries", Get("/registers/summary"), {"register"})},
                    {Change(Post("/registers/open"), {"register"}, {"register-summaries"})}), OpenRegisterShows)
      /\ Fits(Offers({Change(Post("/registers/:id/close"), {"register"}, {"register-summaries"})}), OpenRegisterShows)
  BY <1>1, <1>2, FitsPanel, FitsOffers
<1>4. Fits(OpenRegisterPage(w), OpenRegisterShows)
  BY <1>3, FitsWhen, FitsOf DEF OpenRegisterPage
<1>q. QED  BY <1>4, WithinLayout DEF OpenRegisterShows, AroundShows

DialogShows ==
  {<<"drawer", "register-current-cash">>, <<"drawer", "register-cash-entries">>, <<"expense", "register-cash-entries">>}
LEMMA DialogsTidy == ASSUME NEW w PROVE Tidy(CashDrawerDialog(w)) /\ Tidy(CloseRegisterDialog(w))
<1> DEFINE refreshes == {"register-current-cash", "register-cash-entries", "expenses"}
<1>1. /\ Heeded(Change(Post("/expenses"), {"drawer", "expense"}, refreshes), DialogShows)
      /\ Heeded(Change(Post("/registers/cash-movements"), {"drawer"}, refreshes), DialogShows)
  BY DEF Heeded, Change, DialogShows
<1>2. /\ ShownAs(Query("register-current-cash", Get("/registers/current"), {"drawer"}), DialogShows)
      /\ ShownAs(Query("register-cash-entries", Get("/registers/cash-movements"), {"drawer", "expense"}), DialogShows)
  BY DEF ShownAs, Query, DialogShows
<1>3. Fits(CashDrawerDialog(w), DialogShows)
  BY <1>1, <1>2, FitsPanel DEF CashDrawerDialog
<1>4. Fits(CloseRegisterDialog(w), DialogShows)
  BY <1>2, NothingHeeded, FitsPanel DEF CloseRegisterDialog
<1>q. QED  BY <1>3, <1>4, FitsTidy

LEMMA RoutesTidy ==
  ASSUME NEW w, NEW r, r \in routeTree(w)
  PROVE  Tidy(Of({r.panel, AppLayout(w)}))
<1>1. CASE r \in SignedOutRoutes(w)
  <2>1. r.panel \in {LoginPage(w), RecoverPage(w), OwnerPasswordPage(w), SetupPage(w), ChangePasswordPage(w), OwnerPage(w)}
    BY <1>1 DEF SignedOutRoutes, Route
  <2>q. QED  BY <2>1, SignInTidy, OwnerTidy
<1>2. CASE \E t \in SettingsTabs(w) : r = Route(t[1], requireAdmin(w), Of({BranchSettingsPage(w), t[2]}))
  <2>1. PICK t : t \in SettingsTabs(w) /\ r = Route(t[1], requireAdmin(w), Of({BranchSettingsPage(w), t[2]}))
    BY <1>2
  <2>2. r.panel = Of({BranchSettingsPage(w), t[2]})
    BY <2>1 DEF Route
  <2>q. QED  BY <2>1, <2>2, SettingsTidy
<1>3. CASE r.panel \in {OpenRegisterPage(w), PosPage(w), SalesPage(w), ReturnsPage(w), ItemsPage(w), CustomersPage(w),
                        StockPage(w), PurchasesPage(w), SuppliersPage(w), ExpensesPage(w), ImportItemsPage(w),
                        LabelsPage(w), TransfersPage(w), ReportsPage(w), ActivityPage(w), GstReturnsPage(w)}
  BY <1>3, OpenRegisterTidy, PosTidy, SalesTidy, ReturnsTidy, ItemsTidy, CustomersTidy, StockTidy, PurchasesTidy,
     SuppliersTidy, ExpensesTidy, ImportItemsTidy, LabelsTidy, TransfersTidy, ReportsTidy
<1>q. QED  BY <1>1, <1>2, <1>3 DEF routeTree, Route

\* Every page anybody may open, with the layout around it, and every dialog.
LEMMA PagesTidy ==
  ASSUME NEW i, i \in DOMAIN Pages, NEW p, p \in DOMAIN Pages[i]
  PROVE  Tidy(Pages[i][p])
<1>1. PICK routes : routes = Opens(Whos[i])
  OBVIOUS
<1>2. DOMAIN Pages = DOMAIN Whos /\ Pages[i] = [q \in {r.path : r \in routes} |-> (CHOOSE r \in routes : r.path = q).panel]
  BY <1>1 DEF Pages
<1>3. PICK r : r \in routes /\ Pages[i][p] = r.panel
  BY <1>2
<1>4. CASE r \in Dialogs(Whos[i])
  <2>1. \E path, opens : \/ r = Route(path, opens, CashDrawerDialog(Whos[i]))
                         \/ r = Route(path, opens, CloseRegisterDialog(Whos[i]))
    BY <1>4, Zenon DEF Dialogs
  <2>2. r.panel \in {CashDrawerDialog(Whos[i]), CloseRegisterDialog(Whos[i])}
    BY <2>1 DEF Route
  <2>q. QED  BY <1>3, <2>2, DialogsTidy
<1>5. CASE \E s \in routeTree(Whos[i]) : r = [s EXCEPT !.panel = Of({@, AppLayout(Whos[i])})]
  <2>1. PICK s : s \in routeTree(Whos[i]) /\ r = [s EXCEPT !.panel = Of({@, AppLayout(Whos[i])})]
    BY <1>5
  <2>2. \E path, opens, panel : s = Route(path, opens, panel)
    BY <2>1 DEF routeTree, SignedOutRoutes
  <2>3. r.panel = Of({s.panel, AppLayout(Whos[i])})
    BY <2>1, <2>2 DEF Route
  <2>q. QED  BY <1>3, <2>1, <2>3, RoutesTidy
<1>q. QED  BY <1>1, <1>3, <1>4, <1>5 DEF Opens

(***************************************************************************)
(* A page shows the changes made on it (Screens).                          *)
(***************************************************************************)
FormsSent == [what : Pages[who][page].changes, is : {"sent", "done", "answered"}, saw : SUBSET Nat]
\* On a page, whose query's first read is on its way or has come; what was sent there is the page's own.
AtPage ==
  /\ who \in DOMAIN Whos
  /\ fetch \in [is : {"idle", "sent", "read"}, got : SUBSET Nat] /\ (fetch.is # "read" => fetch.got = {})
  /\ data \in [shows : SUBSET Nat, loaded : BOOLEAN]
  /\ page = "nowhere" => made = <<>>
  /\ page # "nowhere" =>
       /\ page \in DOMAIN Pages[who] /\ watched \in Pages[who][page].queries
       /\ made \in Seq(FormsSent)
       /\ fetch = Idle => data.loaded
\* What the server left of a change shows the change.
SawItself == \A n \in DOMAIN made : made[n].is \in {"done", "answered"} => n \in made[n].saw
\* What the page shows, and what it is about to, has every answered change.
AnsweredShown ==
  \A n \in Answered \ raced :
    (/\ made[n].what.changes \cap watched.shows # {}
     /\ <<watched.key, made[n].what.call>> \notin LeftStale) =>
       /\ fetch.is = "idle" => n \in data.shows
       /\ fetch.is = "read" => n \in fetch.got
ScreensInv == AtPage /\ SawItself /\ AnsweredShown

LEMMA ScreensInvInit == ScreensInit => ScreensInv
BY DEF ScreensInit, ScreensInv, AtPage, SawItself, AnsweredShown, Answered, Idle, NoData

LEMMA VisitInv == ScreensInv /\ Visit => ScreensInv'
<1> SUFFICES ASSUME ScreensInv, Visit PROVE ScreensInv'
  OBVIOUS
<1>1. PICK path \in DOMAIN Pages[who] : page' = path /\ watched' \in Pages[who][path].queries
  BY DEF Visit
<1>2. fetch' = [is |-> "sent", got |-> {}] /\ data' = [shows |-> {}, loaded |-> FALSE] /\ made' = <<>> /\ who' = who
  BY DEF Visit, Sent, NoData
<1>3. Pages' = Pages
  BY DEF Pages, Opens
<1>4. AtPage'
  <2>1. page' \in DOMAIN Pages[who] /\ watched' \in Pages[who][page'].queries
    BY <1>1
  <2>2. made' \in Seq(FormsSent')
    BY <1>2
  <2>3. fetch' # Idle /\ fetch' \in [is : {"idle", "sent", "read"}, got : SUBSET Nat] /\ fetch'.is # "read"
    BY <1>2 DEF Idle
  <2>4. data' \in [shows : SUBSET Nat, loaded : BOOLEAN]
    BY <1>2
  <2>q. QED  BY <1>2, <1>3, <2>1, <2>2, <2>3, <2>4 DEF ScreensInv, AtPage, FormsSent, Idle
<1>q. QED  BY <1>2, <1>4 DEF ScreensInv, SawItself, AnsweredShown, Answered

LEMMA MutateInv == ScreensInv /\ Mutate => ScreensInv'
<1> SUFFICES ASSUME ScreensInv, Mutate PROVE ScreensInv'
  OBVIOUS
<1>1. PICK c \in Pages[who][page].changes : made' = Append(made, [what |-> c, is |-> "sent", saw |-> {}])
  BY DEF Mutate
<1>2. page # "nowhere" /\ UNCHANGED <<who, page, watched, data, fetch, raced>>
  BY DEF Mutate
<1>3. Pages' = Pages /\ FormsSent' = FormsSent /\ made \in Seq(FormsSent) /\ [what |-> c, is |-> "sent", saw |-> {}] \in FormsSent
  BY <1>1, <1>2 DEF Pages, Opens, FormsSent, ScreensInv, AtPage
<1>4. made' \in Seq(FormsSent)
  BY <1>1, <1>3
<1>5. AtPage'
  BY <1>2, <1>3, <1>4 DEF ScreensInv, AtPage, Idle
<1>6. \A n \in DOMAIN made' : made'[n].is # "sent" => n \in DOMAIN made /\ made'[n] = made[n]
  <2>1. \A n \in DOMAIN made' : (n \in DOMAIN made /\ made'[n] = made[n]) \/ made'[n] = [what |-> c, is |-> "sent", saw |-> {}]
    BY <1>1, <1>3
  <2>q. QED  BY <2>1
<1>q. QED  BY <1>2, <1>5, <1>6 DEF ScreensInv, SawItself, AnsweredShown, Answered

LEMMA CommitInv == ScreensInv /\ Commit => ScreensInv'
<1> SUFFICES ASSUME ScreensInv, Commit PROVE ScreensInv'
  OBVIOUS
<1>1. PICK i \in DOMAIN made : /\ made[i].is = "sent"
                              /\ made' = [made EXCEPT ![i].is = "done", ![i].saw = Done \cup {i}]
  BY DEF Commit
<1>2. UNCHANGED <<who, page, watched, data, fetch, raced>>
  BY DEF Commit
<1>3. page # "nowhere" /\ made \in Seq(FormsSent) /\ Pages' = Pages /\ FormsSent' = FormsSent
  BY <1>1, <1>2 DEF ScreensInv, AtPage, Pages, Opens, FormsSent
<1>4. Done \cup {i} \in SUBSET Nat
  BY <1>3 DEF Done
<1>5. /\ DOMAIN made' = DOMAIN made /\ made' \in Seq(FormsSent)
      /\ made'[i].is = "done" /\ i \in made'[i].saw
      /\ \A n \in DOMAIN made : n # i => made'[n] = made[n]
  <2>1. PICK f : f = [made[i] EXCEPT !.is = "done", !.saw = Done \cup {i}]
    OBVIOUS
  <2>2. made[i] \in FormsSent
    BY <1>1, <1>3
  <2>3. f \in FormsSent /\ f.is = "done" /\ f.saw = Done \cup {i}
    BY <1>4, <2>1, <2>2 DEF FormsSent
  <2>4. made' = [made EXCEPT ![i] = f]
    BY <1>1, <2>1
  <2>5. /\ DOMAIN made' = DOMAIN made /\ made' \in Seq(FormsSent) /\ made'[i] = f
        /\ \A n \in DOMAIN made : n # i => made'[n] = made[n]
    BY <1>3, <2>3, <2>4
  <2>q. QED  BY <2>3, <2>5
<1>6. AtPage'
  BY <1>2, <1>3, <1>5 DEF ScreensInv, AtPage, Idle
<1>q. QED  BY <1>1, <1>2, <1>5, <1>6 DEF ScreensInv, SawItself, AnsweredShown, Answered

LEMMA ServesInv == ScreensInv /\ Serves => ScreensInv'
<1> SUFFICES ASSUME ScreensInv, Serves PROVE ScreensInv'
  OBVIOUS
<1>1. fetch.is = "sent" /\ fetch' = [is |-> "read", got |-> Done] /\ UNCHANGED <<who, page, watched, data, made, raced>>
  BY DEF Serves
<1>2. Done \in SUBSET Nat /\ Answered \subseteq Done
  BY DEF ScreensInv, AtPage, Done, Answered
<1>3. Pages' = Pages /\ FormsSent' = FormsSent
  BY <1>1 DEF Pages, Opens, FormsSent
<1>4. AtPage'
  BY <1>1, <1>2, <1>3 DEF ScreensInv, AtPage, Idle
<1>q. QED  BY <1>1, <1>2, <1>4 DEF ScreensInv, SawItself, AnsweredShown, Answered

LEMMA ArriveInv == ScreensInv /\ Arrive => ScreensInv'
<1> SUFFICES ASSUME ScreensInv, Arrive PROVE ScreensInv'
  OBVIOUS
<1>1. /\ fetch.is = "read" /\ UNCHANGED <<who, page, watched, made, raced>>
      /\ data' = [shows |-> fetch.got, loaded |-> TRUE] /\ fetch' = [is |-> "idle", got |-> {}]
  BY DEF Arrive, Loaded, Idle
<1>2. Pages' = Pages /\ FormsSent' = FormsSent
  BY <1>1 DEF Pages, Opens, FormsSent
<1>3. AtPage'
  BY <1>1, <1>2 DEF ScreensInv, AtPage, Idle
<1>q. QED  BY <1>1, <1>3 DEF ScreensInv, SawItself, AnsweredShown, Answered

LEMMA FocusInv == ScreensInv /\ Focus => ScreensInv'
<1> SUFFICES ASSUME ScreensInv, Focus PROVE ScreensInv'
  OBVIOUS
<1>1. fetch' = [is |-> "sent", got |-> {}] /\ UNCHANGED <<who, page, watched, data, made, raced>>
  BY DEF Focus, Sent
<1>2. Pages' = Pages /\ FormsSent' = FormsSent
  BY <1>1 DEF Pages, Opens, FormsSent
<1>3. AtPage'
  BY <1>1, <1>2 DEF ScreensInv, AtPage, Idle
<1>q. QED  BY <1>1, <1>3 DEF ScreensInv, SawItself, AnsweredShown, Answered

LEMMA AnswerInv == ScreensInv /\ Answer => ScreensInv'
<1> SUFFICES ASSUME ScreensInv, Answer PROVE ScreensInv'
  OBVIOUS
<1>1. PICK i \in DOMAIN made :
        LET c == made[i].what
            sets == watched.key \in c.sets
            refreshes == watched.key \in c.refreshes
            had == data.loaded \/ sets IN
        /\ made[i].is = "done"
        /\ made' = [made EXCEPT ![i].is = "answered"]
        /\ data' = IF sets THEN Loaded(made[i].saw) ELSE data
        /\ fetch' = IF refreshes /\ (had \/ fetch = Idle) THEN Sent ELSE fetch
        /\ raced' = raced
             \cup (IF fetch # Idle /\ ((sets /\ ~refreshes) \/ (refreshes /\ ~had)) THEN {i} ELSE {})
             \cup (IF sets THEN data.shows \ made[i].saw ELSE {})
  BY DEF Answer
<1>2. UNCHANGED <<who, page, watched>>
  BY DEF Answer
<1> DEFINE sets == watched.key \in made[i].what.sets
           refreshes == watched.key \in made[i].what.refreshes
           had == data.loaded \/ sets
<1>3. /\ page \in DOMAIN Pages[who] /\ watched \in Pages[who][page].queries
      /\ made \in Seq(FormsSent) /\ Pages' = Pages /\ FormsSent' = FormsSent
  <2>1. page # "nowhere"
    BY <1>1 DEF ScreensInv, AtPage
  <2>2. Pages' = Pages /\ FormsSent' = FormsSent
    BY <1>2 DEF Pages, Opens, FormsSent
  <2>q. QED  BY <2>1, <2>2 DEF ScreensInv, AtPage
<1>4. made[i] \in FormsSent /\ i \in made[i].saw
  BY <1>1, <1>3 DEF ScreensInv, SawItself
<1>5. /\ DOMAIN made' = DOMAIN made /\ made' \in Seq(FormsSent)
      /\ made'[i].what = made[i].what /\ made'[i].saw = made[i].saw /\ made'[i].is = "answered"
      /\ \A n \in DOMAIN made : n # i => made'[n] = made[n]
  <2>1. PICK f : f = [made[i] EXCEPT !.is = "answered"]
    OBVIOUS
  <2>2. f \in FormsSent /\ f.what = made[i].what /\ f.saw = made[i].saw /\ f.is = "answered"
    BY <1>4, <2>1 DEF FormsSent
  <2>3. made' = [made EXCEPT ![i] = f]
    BY <1>1, <2>1
  <2>q. QED  BY <1>3, <2>2, <2>3
<1>6. /\ data' = IF sets THEN [shows |-> made[i].saw, loaded |-> TRUE] ELSE data
      /\ fetch' = IF refreshes /\ (had \/ fetch.is = "idle") THEN [is |-> "sent", got |-> {}] ELSE fetch
      /\ \A n \in Nat : n \notin raced' =>
           /\ n \notin raced
           /\ n = i /\ fetch.is # "idle" => ~((sets /\ ~refreshes) \/ (refreshes /\ ~had))
           /\ sets => n \notin data.shows \/ n \in made[i].saw
  <2>1. fetch = Idle <=> fetch.is = "idle"
    BY DEF ScreensInv, AtPage, Idle
  <2>2. data' = IF sets THEN [shows |-> made[i].saw, loaded |-> TRUE] ELSE data
    BY <1>1 DEF Loaded
  <2>3. fetch' = IF refreshes /\ (had \/ fetch.is = "idle") THEN [is |-> "sent", got |-> {}] ELSE fetch
    BY <1>1, <2>1 DEF Sent
  <2>4. raced' = raced \cup (IF fetch.is # "idle" /\ ((sets /\ ~refreshes) \/ (refreshes /\ ~had)) THEN {i} ELSE {})
                       \cup (IF sets THEN data.shows \ made[i].saw ELSE {})
    BY <1>1, <2>1
  <2> HIDE DEF sets, refreshes, had
  <2>q. QED  BY <2>2, <2>3, <2>4
<1> HIDE DEF sets, refreshes, had
<1>7. AtPage'
  BY <1>2, <1>3, <1>4, <1>5, <1>6 DEF ScreensInv, AtPage, Idle, FormsSent, had
<1>8. SawItself'
  BY <1>1, <1>4, <1>5 DEF ScreensInv, SawItself
\* A change of the page that bears on the query refreshes its key or sets it.
<1>9. /\ made[i].what.changes \cap watched.shows # {} /\ <<watched.key, made[i].what.call>> \notin LeftStale
        => sets \/ refreshes
  <2>1. Tidy(Pages[who][page]) /\ made[i].what \in Pages[who][page].changes
    BY <1>3, <1>4, PagesTidy DEF ScreensInv, AtPage, FormsSent, Pages
  <2>q. QED  BY <1>3, <2>1 DEF Tidy, Renewed, sets, refreshes
<1>10. AnsweredShown'
  <2> SUFFICES ASSUME NEW n, n \in Answered', n \notin raced', made'[n].what.changes \cap watched.shows # {},
                      <<watched.key, made'[n].what.call>> \notin LeftStale
               PROVE  (fetch'.is = "idle" => n \in data'.shows) /\ (fetch'.is = "read" => n \in fetch'.got)
    BY <1>2 DEF AnsweredShown
  <2>1. n \in DOMAIN made /\ n \in Nat /\ made'[n].what = made[n].what
    BY <1>3, <1>5 DEF Answered
  <2>2. n \notin raced
    BY <1>6, <2>1
  <2>3. CASE refreshes /\ (had \/ fetch.is = "idle")
    BY <1>6, <2>3
  <2>4. CASE ~(refreshes /\ (had \/ fetch.is = "idle")) /\ n = i
    <3>1. sets \/ refreshes
      BY <1>9, <2>1, <2>4
    <3>2. fetch.is = "idle" /\ sets
      BY <1>6, <2>1, <2>4, <3>1
    <3>q. QED  BY <1>4, <1>6, <2>4, <3>2
  <2>5. CASE ~(refreshes /\ (had \/ fetch.is = "idle")) /\ n # i
    <3>1. n \in Answered /\ (fetch.is = "idle" => n \in data.shows) /\ (fetch.is = "read" => n \in fetch.got)
      BY <1>5, <2>1, <2>2, <2>5 DEF Answered, ScreensInv, AnsweredShown
    <3>q. QED  BY <1>6, <2>1, <2>5, <3>1
  <2>q. QED  BY <2>3, <2>4, <2>5
<1>q. QED  BY <1>7, <1>8, <1>10 DEF ScreensInv

LEMMA ScreensInvNext == ScreensInv /\ [ScreensNext]_screensVars => ScreensInv'
<1>1. ScreensInv /\ UNCHANGED screensVars => ScreensInv'
  BY DEF ScreensInv, AtPage, SawItself, AnsweredShown, Answered, FormsSent, Pages, Opens, Idle, screensVars
<1>q. QED  BY <1>1, VisitInv, MutateInv, CommitInv, ServesInv, ArriveInv, AnswerInv, FocusInv DEF ScreensNext

\* Whoever is at whichever page, however the reads and the answers of the changes come.
THEOREM ScreensInvHolds == ScreensSpec => []ScreensInv
BY ScreensInvInit, ScreensInvNext, PTL DEF ScreensSpec

\* When nothing is in flight, a page shows every change made on it that was answered, but for the keys left
\* stale and for the three races of answers (the pages' onSuccess handlers, setQueryData, invalidateQueries).
THEOREM OwnChangeShownHolds == ScreensSpec => []OwnChangeShown
<1>1. ScreensInv => OwnChangeShown
  BY DEF ScreensInv, AnsweredShown, OwnChangeShown, Idle
<1>q. QED  BY <1>1, ScreensInvHolds, PTL

(***************************************************************************)
(* What each is served (Screens against Api).                              *)
(***************************************************************************)
LEMMA ControllersServe ==
  \A C \in {AccountsController, AuditController, AuthController, BillingController, BranchesController,
            CountersController, CustomersController, ExpensesController, ExportsController,
            FallbackController, GstController, ItemGroupsController, ItemsController, MetaController,
            PurchasesController, RegistersController, ReportsController, ReturnsController,
            SalesController, SettingsController, SetupController, StockController, SuppliersController,
            TransfersController, UsersController} : C \subseteq Routes
BY DEF Routes
\* What a check asks of who is at the computer.
LEMMA ChecksLet ==
  ASSUME NEW w, w.session
  PROVE  /\ Lets(w, Access) /\ Lets(w, Check("user", {}))
         /\ Lets(w, Check("token branch", {})) /\ Lets(w, Check("token register", {}))
         /\ Lets(w, Check("status", {})) /\ Lets(w, Check("mode", {}))
         /\ w.admin => Lets(w, Admin)
         /\ w.admin \/ w.register # "none" => Lets(w, Branch)
         /\ w.register # "none" => Lets(w, Register) /\ Lets(w, Open)
         /\ \A p \in Permissions : can(w, p) => Lets(w, May(p))
         /\ can(w, "MANAGE_STOCK") \/ can(w, "RECORD_PURCHASES") => Lets(w, AnyOf(COST_PERMISSIONS))
         /\ can(w, "RECORD_PURCHASES") \/ can(w, "PAY_SUPPLIERS") => Lets(w, AnyOf({"RECORD_PURCHASES", "PAY_SUPPLIERS"}))
<1>1. /\ Lets(w, Access) /\ Lets(w, Check("user", {}))
      /\ Lets(w, Check("token branch", {})) /\ Lets(w, Check("token register", {}))
      /\ Lets(w, Check("status", {})) /\ Lets(w, Check("mode", {}))
  BY DEF Lets, Access, Check
<1>2. /\ w.admin => Lets(w, Admin)
      /\ w.admin \/ w.register # "none" => Lets(w, Branch)
      /\ w.register # "none" => Lets(w, Register) /\ Lets(w, Open)
  BY DEF Lets, Admin, Branch, Register, Open, Check
<1>3. \A S, p : p \in S /\ can(w, p) => Lets(w, AnyOf(S))
  BY DEF Lets, AnyOf, Check, can
<1>q. QED  BY <1>1, <1>2, <1>3 DEF May, COST_PERMISSIONS
LEMMA StatusLet == \A w : Lets(w, Check("status", {})) /\ Lets(w, Check("mode", {}))
BY DEF Lets, Check
LEMMA LetsBoth ==
  ASSUME NEW w, NEW S, NEW a, NEW b, a \in Seq(S), b \in Seq(S),
         \A n \in DOMAIN a : Lets(w, a[n]), \A n \in DOMAIN b : Lets(w, b[n])
  PROVE  a \o b \in Seq(S) /\ \A n \in DOMAIN (a \o b) : Lets(w, (a \o b)[n])
<1>1. PICK c : c = a \o b
  OBVIOUS
<1>2. c \in Seq(S) /\ Len(c) = Len(a) + Len(b) /\ \A n \in 1..Len(c) : c[n] = IF n <= Len(a) THEN a[n] ELSE b[n - Len(a)]
  BY <1>1, ConcatProperties
<1>3. \A n \in 1..Len(c) : (n <= Len(a) => n \in 1..Len(a)) /\ (~(n <= Len(a)) => n - Len(a) \in 1..Len(b))
  BY <1>2
<1>4. DOMAIN a = 1..Len(a) /\ DOMAIN b = 1..Len(b) /\ DOMAIN c = 1..Len(c)
  BY <1>2
<1>5. \A n \in 1..Len(c) : Lets(w, c[n])
  BY <1>2, <1>3, <1>4
<1>q. QED  BY <1>1, <1>2, <1>4, <1>5
\* A route is served to who its marks and its checks let.
LEMMA GuardsLet ==
  ASSUME NEW w, NEW marks, "public" \in marks \/ w.session, NEW S, NEW checks, checks \in Seq(S),
         \A n \in DOMAIN checks : Lets(w, checks[n])
  PROVE  \A n \in DOMAIN (Guards(marks) \o checks) : Lets(w, (Guards(marks) \o checks)[n])
<1>1. PICK user, branch, register, status, mode :
        /\ user = Check("user", {}) /\ branch = Check("token branch", {}) /\ register = Check("token register", {})
        /\ status = Check("status", {}) /\ mode = Check("mode", {})
  OBVIOUS
<1>2. PICK T : T = S \cup {user, branch, register, status, mode}
  OBVIOUS
<1>3. PICK a, b : a = (IF "public" \in marks THEN <<>> ELSE <<user, branch, register>>) /\ b = <<status, mode>>
  OBVIOUS
<1>4. a \in Seq(T) /\ b \in Seq(T) /\ checks \in Seq(T)
  <2>1. a \in Seq(T)
    <3>1. CASE "public" \in marks
      BY <1>3, <3>1
    <3>2. CASE "public" \notin marks
      BY <1>2, <1>3, <3>2
    <3>q. QED  BY <3>1, <3>2
  <2>2. b \in Seq(T)
    BY <1>2, <1>3
  <2>3. checks \in Seq(T)
    <3>1. \A n \in 1..Len(checks) : checks[n] \in T
      BY <1>2
    <3>q. QED  BY <3>1
  <2>q. QED  BY <2>1, <2>2, <2>3
<1>5. (\A n \in DOMAIN a : Lets(w, a[n])) /\ (\A n \in DOMAIN b : Lets(w, b[n]))
  <2>1. Lets(w, status) /\ Lets(w, mode) /\ ("public" \notin marks => Lets(w, user) /\ Lets(w, branch) /\ Lets(w, register))
    BY <1>1, ChecksLet, StatusLet
  <2>2. \A n \in DOMAIN b : Lets(w, b[n])
    BY <1>3, <2>1
  <2>3. CASE "public" \in marks
    BY <1>3, <2>2, <2>3
  <2>4. CASE "public" \notin marks
    <3>1. a = <<user, branch, register>>
      BY <1>3, <2>4
    <3>2. \A n \in DOMAIN a : Lets(w, a[n])
      BY <2>1, <2>4, <3>1
    <3>q. QED  BY <2>2, <3>2
  <2>q. QED  BY <2>3, <2>4
<1>6. PICK g : g = a \o b
  OBVIOUS
<1>7. g \in Seq(T) /\ \A n \in DOMAIN g : Lets(w, g[n])
  BY <1>4, <1>5, <1>6, LetsBoth
<1>8. \A n \in DOMAIN (g \o checks) : Lets(w, (g \o checks)[n])
  BY <1>4, <1>7, LetsBoth
<1>9. g = Guards(marks)
  BY <1>1, <1>3, <1>6 DEF Guards
<1>q. QED  BY <1>8, <1>9
LEMMA RouteServed ==
  ASSUME NEW i \in DOMAIN Whos, NEW marks, NEW S, NEW checks, checks \in Seq(S), NEW calls,
         Serve(marks, checks, calls) \subseteq Routes, InMode(Whos[i], marks), "public" \in marks \/ Whos[i].session,
         \A n \in DOMAIN checks : Lets(Whos[i], checks[n])
  PROVE  \A call \in calls : IsServed(i, call)
<1> SUFFICES ASSUME NEW call, call \in calls PROVE call \in Served[i]
  BY DEF IsServed
<1>1. PICK s : s = Guards(marks) \o checks
  OBVIOUS
<1>2. \A n \in DOMAIN s : Lets(Whos[i], s[n])
  BY <1>1, GuardsLet
<1>3. PICK r : r = [call |-> call, marks |-> marks, checks |-> s]
  OBVIOUS
<1>4. r \in Routes
  BY <1>1, <1>3 DEF Serve
<1>q. QED  BY <1>2, <1>3, <1>4 DEF Served

\* Calls served under these marks and checks are served to the i-th.
To(i, marks, checks) ==
  \A calls : Serve(marks, checks, calls) \subseteq Routes => \A call \in calls : IsServed(i, call)
LEMMA ServedTo ==
  ASSUME NEW i \in DOMAIN Whos, NEW w, w = Whos[i], NEW marks, InMode(w, marks), "public" \in marks \/ w.session
  PROVE  /\ To(i, marks, <<>>)
         /\ \A a : Lets(w, a) => To(i, marks, <<a>>)
         /\ \A a, b : Lets(w, a) /\ Lets(w, b) => To(i, marks, <<a, b>>)
         /\ \A a, b, c : Lets(w, a) /\ Lets(w, b) /\ Lets(w, c) => To(i, marks, <<a, b, c>>)
         /\ \A a, b, c, d : Lets(w, a) /\ Lets(w, b) /\ Lets(w, c) /\ Lets(w, d) => To(i, marks, <<a, b, c, d>>)
<1>1. \A checks : (\E S : checks \in Seq(S)) /\ (\A n \in DOMAIN checks : Lets(w, checks[n])) => To(i, marks, checks)
  <2> SUFFICES ASSUME NEW checks, NEW S, checks \in Seq(S), \A n \in DOMAIN checks : Lets(w, checks[n]), NEW calls,
                      Serve(marks, checks, calls) \subseteq Routes
               PROVE  \A call \in calls : IsServed(i, call)
    BY DEF To
  <2>q. QED  BY RouteServed
<1>2. To(i, marks, <<>>)
  <2>1. <<>> \in Seq({}) /\ \A n \in DOMAIN <<>> : Lets(w, <<>>[n])
    OBVIOUS
  <2>q. QED  BY <1>1, <2>1
<1>3. ASSUME NEW a, Lets(w, a) PROVE To(i, marks, <<a>>)
  <2>1. <<a>> \in Seq({a}) /\ \A n \in DOMAIN <<a>> : Lets(w, <<a>>[n])
    BY <1>3
  <2>q. QED  BY <1>1, <2>1
<1>4. ASSUME NEW a, NEW b, Lets(w, a), Lets(w, b) PROVE To(i, marks, <<a, b>>)
  <2>1. <<a, b>> \in Seq({a, b}) /\ \A n \in DOMAIN <<a, b>> : Lets(w, <<a, b>>[n])
    BY <1>4
  <2>q. QED  BY <1>1, <2>1
<1>5. ASSUME NEW a, NEW b, NEW c, Lets(w, a), Lets(w, b), Lets(w, c) PROVE To(i, marks, <<a, b, c>>)
  <2>1. <<a, b, c>> \in Seq({a, b, c}) /\ \A n \in DOMAIN <<a, b, c>> : Lets(w, <<a, b, c>>[n])
    BY <1>5
  <2>q. QED  BY <1>1, <2>1
<1>6. ASSUME NEW a, NEW b, NEW c, NEW d, Lets(w, a), Lets(w, b), Lets(w, c), Lets(w, d) PROVE To(i, marks, <<a, b, c, d>>)
  <2>1. <<a, b, c, d>> \in Seq({a, b, c, d}) /\ \A n \in DOMAIN <<a, b, c, d>> : Lets(w, <<a, b, c, d>>[n])
    BY <1>6
  <2>q. QED  BY <1>1, <2>1
<1>q. QED  BY <1>2, <1>3, <1>4, <1>5, <1>6

LEMMA AnyMode == \A w : /\ InMode(w, {}) /\ InMode(w, {"public"}) /\ InMode(w, {"whenUnpaid"}) /\ InMode(w, {"beforeChange"})
                        /\ InMode(w, {"public", "whenLocked"}) /\ InMode(w, {"beforeChange", "whenLocked"})
BY DEF InMode
LEMMA OnlineMode ==
  ASSUME NEW w
  PROVE  /\ ~useIsOffline(w) => InMode(w, {"online"}) /\ InMode(w, {"public", "online"})
         /\ useIsOffline(w) => /\ InMode(w, {"offline"}) /\ InMode(w, {"public", "offline"})
                               /\ InMode(w, {"public", "whenLocked", "offline"})
         /\ useIsManagedHosting(w) => InMode(w, {"managed", "whenUnpaid"})
BY DEF InMode, useIsOffline, useIsManagedHosting

-----------------------------------------------------------------------------
(* Whom each controller serves what the pages ask of it.                   *)

LEMMA AccountsServed ==
  ASSUME NEW i \in DOMAIN Whos, NEW w, w = Whos[i]
  PROVE  ~useIsOffline(w) =>
           \A call \in {Get("/accounts/businesses"), Get("/accounts/businesses/:businessId/staff"),
                        Post("/businesses"), Post("/accounts/businesses/:businessId/deletion/code"),
                        Post("/accounts/businesses/:businessId/deletion"),
                        Post("/accounts/businesses/:businessId/deletion/cancel"), Post("/accounts/login"),
                        Post("/accounts/staff-active"), Post("/accounts/staff-password"),
                        Post("/accounts/password-reset"),
                        Post("/accounts/password-reset/confirm")} : IsServed(i, call)
<1>1. ~useIsOffline(w) => To(i, {"public", "online"}, <<>>)
  BY AnyMode, OnlineMode, ChecksLet, ServedTo DEF Permissions
<1>q. QED  BY <1>1, ControllersServe DEF To, AccountsController

LEMMA PublicServed ==
  ASSUME NEW i \in DOMAIN Whos, NEW w, w = Whos[i]
  PROVE  /\ \A call \in {Get("/meta"), Post("/auth/login")} : IsServed(i, call)
         /\ useIsOffline(w) =>
              \A call \in {Post("/auth/recover"), Post("/setup")} : IsServed(i, call)
<1>1. /\ To(i, {"public", "whenLocked"}, <<>>) /\ To(i, {"public"}, <<>>)
      /\ useIsOffline(w) =>
           /\ To(i, {"public", "whenLocked", "offline"}, <<>>)
           /\ To(i, {"public", "offline"}, <<>>)
  BY AnyMode, OnlineMode, ChecksLet, ServedTo DEF Permissions
<1>q. QED  BY <1>1, ControllersServe DEF To, AuthController, MetaController, SetupController

LEMMA AuthServed ==
  ASSUME NEW i \in DOMAIN Whos, NEW w, w = Whos[i], w.session
  PROVE  /\ \A call \in {Post("/auth/change-password"), Get("/auth/me")} : IsServed(i, call)
         /\ useIsOffline(w) /\ w.admin =>
              \A call \in {Get("/auth/recovery-code"), Post("/auth/recovery-code")} : IsServed(i, call)
<1>1. /\ To(i, {"beforeChange", "whenLocked"}, <<>>) /\ To(i, {"beforeChange"}, <<>>)
      /\ useIsOffline(w) /\ w.admin => To(i, {"offline"}, <<Admin>>)
  BY AnyMode, OnlineMode, ChecksLet, ServedTo DEF Permissions
<1>q. QED  BY <1>1, ControllersServe DEF To, AuthController

LEMMA BillingServed ==
  ASSUME NEW i \in DOMAIN Whos, NEW w, w = Whos[i], w.session
  PROVE  /\ useIsManagedHosting(w) => IsServed(i, Get("/billing/status"))
         /\ useIsManagedHosting(w) /\ w.admin =>
              \A call \in {Get("/billing"), Post("/billing/checkout"),
                           Get("/billing/invoices/:id")} : IsServed(i, call)
<1>1. /\ useIsManagedHosting(w) => To(i, {"managed", "whenUnpaid"}, <<>>)
      /\ useIsManagedHosting(w) /\ w.admin => To(i, {"managed", "whenUnpaid"}, <<Admin>>)
  BY AnyMode, OnlineMode, ChecksLet, ServedTo DEF Permissions
<1>q. QED  BY <1>1, ControllersServe DEF To, BillingController

LEMMA BranchesServed ==
  ASSUME NEW i \in DOMAIN Whos, NEW w, w = Whos[i], w.session
  PROVE  /\ \A call \in {Get("/branches"), Get("/branches/:branchId/counters")} : IsServed(i, call)
         /\ w.admin => \A call \in {Post("/branches"), Post("/branches/:branchId/counters"),
                                    Patch("/counters/:id")} : IsServed(i, call)
<1>1. /\ To(i, {}, <<>>) /\ To(i, {}, <<Access>>)
      /\ w.admin => To(i, {}, <<Admin>>) /\ To(i, {}, <<Admin, Access>>)
  BY AnyMode, OnlineMode, ChecksLet, ServedTo DEF Permissions
<1>q. QED  BY <1>1, ControllersServe DEF To, BranchesController, CountersController

LEMMA CustomersServed ==
  ASSUME NEW i \in DOMAIN Whos, NEW w, w = Whos[i], w.session
  PROVE  /\ w.admin \/ w.register # "none" =>
              \A call \in {Get("/customers"), Post("/customers"), Patch("/customers/:id"),
                           Get("/customers/walk-in/:branchId"), Get("/customers/ageing"),
                           Get("/customers/:id/account"), Get("/customers/:id/statement"),
                           Get("/customers/:id/wallet")} : IsServed(i, call)
         /\ (w.admin \/ w.register # "none") /\ ~useIsOffline(w) => IsServed(i, Post("/customers/:id/statement/email"))
         /\ can(w, "TOP_UP_WALLETS") /\ w.register # "none" => IsServed(i, Post("/customers/:id/wallet/topup"))
         /\ w.admin => IsServed(i, Post("/customers/:id/wallet/adjust"))
<1>1. /\ w.admin \/ w.register # "none" => To(i, {}, <<Branch>>)
      /\ (w.admin \/ w.register # "none") /\ ~useIsOffline(w) => To(i, {"online"}, <<Branch>>)
      /\ can(w, "TOP_UP_WALLETS") /\ w.register # "none" =>
           /\ To(i, {}, <<Register, Branch, May("TOP_UP_WALLETS"), Open>>)
      /\ w.admin => To(i, {}, <<Admin, Branch>>)
  BY AnyMode, OnlineMode, ChecksLet, ServedTo DEF Permissions
<1>q. QED  BY <1>1, ControllersServe DEF To, CustomersController

LEMMA ExpensesServed ==
  ASSUME NEW i \in DOMAIN Whos, NEW w, w = Whos[i], w.session
  PROVE  /\ can(w, "CASH_AND_EXPENSES") /\ w.register # "none" =>
              \A call \in {Post("/registers/cash-movements"), Get("/registers/cash-movements")} : IsServed(i, call)
         /\ can(w, "CASH_AND_EXPENSES") /\ (w.admin \/ w.register # "none") =>
              \A call \in {Post("/expenses"), Get("/expenses")} : IsServed(i, call)
         /\ w.admin => IsServed(i, Delete("/expenses/:id"))
<1>1. /\ can(w, "CASH_AND_EXPENSES") /\ w.register # "none" =>
           /\ To(i, {}, <<May("CASH_AND_EXPENSES"), Register, Open>>)
           /\ To(i, {}, <<May("CASH_AND_EXPENSES"), Register>>)
      /\ can(w, "CASH_AND_EXPENSES") /\ (w.admin \/ w.register # "none") =>
           /\ To(i, {}, <<Branch, May("CASH_AND_EXPENSES")>>)
      /\ w.admin => To(i, {}, <<Admin, Branch>>)
  BY AnyMode, OnlineMode, ChecksLet, ServedTo DEF Permissions
<1>q. QED  BY <1>1, ControllersServe DEF To, ExpensesController

LEMMA ExportsServed ==
  ASSUME NEW i \in DOMAIN Whos, NEW w, w = Whos[i], w.session
  PROVE  /\ w.admin /\ ~useIsOffline(w) =>
              \A call \in {Get("/exports/business"), Post("/counters/:id/fallback"),
                           Delete("/counters/:id/fallback")} : IsServed(i, call)
         /\ w.admin => IsServed(i, Get("/exports/sales.csv"))
<1>1. /\ w.admin /\ ~useIsOffline(w) => To(i, {"online"}, <<Admin>>) /\ To(i, {"online"}, <<Admin, Access>>)
      /\ w.admin => To(i, {}, <<Admin, Branch>>)
  BY AnyMode, OnlineMode, ChecksLet, ServedTo DEF Permissions
<1>q. QED  BY <1>1, ControllersServe DEF To, ExportsController, FallbackController

LEMMA ReportsServed ==
  ASSUME NEW i \in DOMAIN Whos, NEW w, w = Whos[i], w.session
  PROVE  w.admin => \A call \in {Get("/audit"), Get("/gst/gstins"), Get("/gst/gstr1"), Get("/gst/gstr3b"),
                                 Get("/gst/cmp08"), Get("/gst/gstr4"), Get("/reports/sales-summary"),
                                 Get("/reports/detail")} : IsServed(i, call)
<1>1. w.admin => To(i, {}, <<Admin>>) /\ To(i, {}, <<Admin, Access>>)
  BY AnyMode, OnlineMode, ChecksLet, ServedTo DEF Permissions
<1>q. QED  BY <1>1, ControllersServe DEF To, AuditController, GstController, ReportsController

LEMMA ItemsServed ==
  ASSUME NEW i \in DOMAIN Whos, NEW w, w = Whos[i], w.session
  PROVE  /\ \A call \in {Get("/item-groups"), Get("/items"), Get("/items/categories")} : IsServed(i, call)
         /\ can(w, "MANAGE_ITEMS") =>
              \A call \in {Post("/item-groups"), Post("/item-groups/:id/values"), Patch("/item-groups/:id/prices"),
                           Post("/items/upload-image"), Post("/items"), Patch("/items/:id"),
                           Delete("/items/:id")} : IsServed(i, call)
         /\ can(w, "MANAGE_ITEMS") /\ (w.admin \/ w.register # "none") => IsServed(i, Post("/items/import"))
         /\ w.admin => \A call \in {Get("/items/:id/branch-prices"),
                                    Put("/items/:id/branch-prices")} : IsServed(i, call)
<1>1. /\ To(i, {}, <<>>) /\ To(i, {}, <<Access>>)
      /\ can(w, "MANAGE_ITEMS") => To(i, {}, <<May("MANAGE_ITEMS")>>)
      /\ can(w, "MANAGE_ITEMS") /\ (w.admin \/ w.register # "none") =>
           /\ To(i, {}, <<May("MANAGE_ITEMS"), Branch>>)
      /\ w.admin => To(i, {}, <<Admin>>) /\ To(i, {}, <<Admin, Access>>)
  BY AnyMode, OnlineMode, ChecksLet, ServedTo DEF Permissions
<1>q. QED  BY <1>1, ControllersServe DEF To, ItemGroupsController, ItemsController

LEMMA PurchasesServed ==
  ASSUME NEW i \in DOMAIN Whos, NEW w, w = Whos[i], w.session
  PROVE  /\ can(w, "RECORD_PURCHASES") /\ (w.admin \/ w.register # "none") =>
              \A call \in {Post("/purchases"), Post("/purchases/:id/returns"),
                           Get("/purchases/:id")} : IsServed(i, call)
         /\ can(w, "RECORD_PURCHASES") => IsServed(i, Get("/purchases"))
<1>1. /\ can(w, "RECORD_PURCHASES") /\ (w.admin \/ w.register # "none") =>
           /\ To(i, {}, <<Branch, May("RECORD_PURCHASES")>>)
           /\ To(i, {}, <<Branch, AnyOf(COST_PERMISSIONS)>>)
      /\ can(w, "RECORD_PURCHASES") => To(i, {}, <<AnyOf(COST_PERMISSIONS), Access>>)
  BY AnyMode, OnlineMode, ChecksLet, ServedTo DEF Permissions
<1>q. QED  BY <1>1, ControllersServe DEF To, PurchasesController

LEMMA RegistersServed ==
  ASSUME NEW i \in DOMAIN Whos, NEW w, w = Whos[i], w.session
  PROVE  /\ \A call \in {Post("/registers/open"), Get("/registers/current"),
                         Get("/registers/summary")} : IsServed(i, call)
         /\ w.register # "none" => IsServed(i, Post("/registers/close"))
         /\ w.admin => IsServed(i, Post("/registers/:id/close"))
<1>1. /\ To(i, {}, <<Access>>) /\ To(i, {}, <<>>)
      /\ w.register # "none" => To(i, {"whenUnpaid"}, <<Register, Open>>)
      /\ w.admin => To(i, {"whenUnpaid"}, <<Admin, Access>>)
  BY AnyMode, OnlineMode, ChecksLet, ServedTo DEF Permissions
<1>q. QED  BY <1>1, ControllersServe DEF To, RegistersController

LEMMA SalesServed ==
  ASSUME NEW i \in DOMAIN Whos, NEW w, w = Whos[i], w.session
  PROVE  /\ w.register # "none" =>
              \A call \in {Post("/sales/checkout"), Post("/sales/:id/settle")} : IsServed(i, call)
         /\ can(w, "CANCEL_SALES") /\ (w.admin \/ w.register # "none") => IsServed(i, Post("/sales/:id/cancel"))
         /\ (w.admin \/ w.register # "none") /\ ~useIsOffline(w) => IsServed(i, Post("/sales/:id/email-receipt"))
         /\ w.admin \/ w.register # "none" =>
              \A call \in {Get("/sales"), Get("/sales/:id"), Get("/receipts/by-invoice/:invoiceId"), Get("/returns"),
                           Get("/returns/:id")} : IsServed(i, call)
         /\ can(w, "MAKE_RETURNS") /\ w.register # "none" => IsServed(i, Post("/sales/:id/return"))
<1>1. /\ w.register # "none" => To(i, {}, <<Register, Open>>)
      /\ can(w, "CANCEL_SALES") /\ (w.admin \/ w.register # "none") =>
           /\ To(i, {}, <<Branch, May("CANCEL_SALES")>>)
      /\ (w.admin \/ w.register # "none") /\ ~useIsOffline(w) => To(i, {"online"}, <<Branch>>)
      /\ w.admin \/ w.register # "none" => To(i, {}, <<Branch>>)
      /\ can(w, "MAKE_RETURNS") /\ w.register # "none" => To(i, {}, <<Register, May("MAKE_RETURNS"), Open>>)
  BY AnyMode, OnlineMode, ChecksLet, ServedTo DEF Permissions
<1>q. QED  BY <1>1, ControllersServe DEF To, SalesController, ReturnsController

LEMMA SettingsServed ==
  ASSUME NEW i \in DOMAIN Whos, NEW w, w = Whos[i], w.session
  PROVE  /\ \A call \in {Get("/business/settings"), Get("/business/taxpayer-type"),
                         Get("/branches/:id")} : IsServed(i, call)
         /\ w.admin => \A call \in {Patch("/business/settings"), Post("/business/taxpayer-type"),
                                    Delete("/business/taxpayer-type/:id"), Post("/business/logo"),
                                    Patch("/branches/:id"), Post("/branches/:id/logo")} : IsServed(i, call)
<1>1. /\ To(i, {}, <<>>) /\ To(i, {}, <<Access>>)
      /\ w.admin => To(i, {}, <<Admin>>) /\ To(i, {}, <<Admin, Branch>>)
  BY AnyMode, OnlineMode, ChecksLet, ServedTo DEF Permissions
<1>q. QED  BY <1>1, ControllersServe DEF To, SettingsController

LEMMA StockServed ==
  ASSUME NEW i \in DOMAIN Whos, NEW w, w = Whos[i], w.session
  PROVE  /\ can(w, "MANAGE_STOCK") /\ (w.admin \/ w.register # "none") =>
              \A call \in {Post("/stock/opening"), Patch("/stock/opening"), Post("/stock/adjustment"),
                           Put("/stock/reorder-level")} : IsServed(i, call)
         /\ w.admin \/ w.register # "none" =>
              \A call \in {Get("/stock/on-hand"), Get("/stock/low"), Get("/stock/ledger"),
                           Get("/stock/batches")} : IsServed(i, call)
<1>1. /\ can(w, "MANAGE_STOCK") /\ (w.admin \/ w.register # "none") => To(i, {}, <<Branch, May("MANAGE_STOCK")>>)
      /\ w.admin \/ w.register # "none" => To(i, {}, <<Branch>>)
  BY AnyMode, OnlineMode, ChecksLet, ServedTo DEF Permissions
<1>q. QED  BY <1>1, ControllersServe DEF To, StockController

LEMMA SuppliersServed ==
  ASSUME NEW i \in DOMAIN Whos, NEW w, w = Whos[i], w.session
  PROVE  /\ can(w, "RECORD_PURCHASES") \/ can(w, "PAY_SUPPLIERS") =>
              \A call \in {Get("/suppliers"), Get("/suppliers/:id/account")} : IsServed(i, call)
         /\ can(w, "RECORD_PURCHASES") =>
              \A call \in {Post("/suppliers"), Patch("/suppliers/:id")} : IsServed(i, call)
         /\ can(w, "PAY_SUPPLIERS") /\ (w.admin \/ w.register # "none") => IsServed(i, Post("/suppliers/:id/payments"))
<1>1. /\ can(w, "RECORD_PURCHASES") \/ can(w, "PAY_SUPPLIERS") =>
           /\ To(i, {}, <<AnyOf({"RECORD_PURCHASES", "PAY_SUPPLIERS"})>>)
      /\ can(w, "RECORD_PURCHASES") => To(i, {}, <<May("RECORD_PURCHASES")>>)
      /\ can(w, "PAY_SUPPLIERS") /\ (w.admin \/ w.register # "none") =>
           /\ To(i, {}, <<Branch, May("PAY_SUPPLIERS")>>)
  BY AnyMode, OnlineMode, ChecksLet, ServedTo DEF Permissions
<1>q. QED  BY <1>1, ControllersServe DEF To, SuppliersController

LEMMA TransfersServed ==
  ASSUME NEW i \in DOMAIN Whos, NEW w, w = Whos[i], w.session
  PROVE  /\ \A call \in {Get("/stock-transfers"), Post("/stock-transfers/:id/receive")} : IsServed(i, call)
         /\ can(w, "SEND_TRANSFERS") => IsServed(i, Get("/stock-transfers/destinations"))
         /\ can(w, "SEND_TRANSFERS") /\ (w.admin \/ w.register # "none") =>
              \A call \in {Post("/stock-transfers"), Post("/stock-transfers/:id/cancel")} : IsServed(i, call)
<1>1. /\ To(i, {}, <<Access>>)
      /\ can(w, "SEND_TRANSFERS") => To(i, {}, <<May("SEND_TRANSFERS")>>)
      /\ can(w, "SEND_TRANSFERS") /\ (w.admin \/ w.register # "none") =>
           /\ To(i, {}, <<Branch, May("SEND_TRANSFERS")>>)
  BY AnyMode, OnlineMode, ChecksLet, ServedTo DEF Permissions
<1>q. QED  BY <1>1, ControllersServe DEF To, TransfersController

LEMMA UsersServed ==
  ASSUME NEW i \in DOMAIN Whos, NEW w, w = Whos[i], w.session
  PROVE  w.admin => \A call \in {Get("/users"), Post("/users"), Patch("/users/:id"),
                                 Post("/users/:id/branches/:branchId"),
                                 Delete("/users/:id/branches/:branchId")} : IsServed(i, call)
<1>1. w.admin => To(i, {}, <<Admin, Branch>>) /\ To(i, {}, <<Admin, Access>>)
  BY AnyMode, OnlineMode, ChecksLet, ServedTo DEF Permissions
<1>q. QED  BY <1>1, ControllersServe DEF To, UsersController

-----------------------------------------------------------------------------
(* What a page reads and offers.                                           *)

Granted(i, p) == (\A q \in p.queries : IsServed(i, q.call)) /\ (\A c \in p.changes : IsServed(i, c.call))
LEMMA GrantedOf == \A i, P : (\A p \in P : Granted(i, p)) => Granted(i, Of(P))
BY DEF Granted, Of, Panel
LEMMA GrantedWhen == \A i, b, p : (b => Granted(i, p)) => Granted(i, When(b, p))
BY DEF Granted, When, Panel
LEMMA GrantedPanel ==
  \A i, Q, C : (\A q \in Q : IsServed(i, q.call)) /\ (\A c \in C : IsServed(i, c.call)) => Granted(i, Panel(Q, C))
BY DEF Granted, Panel
LEMMA GrantedReads == \A i, Q : (\A q \in Q : IsServed(i, q.call)) => Granted(i, Reads(Q))
BY DEF Granted, Reads, Panel
LEMMA GrantedOffers == \A i, C : (\A c \in C : IsServed(i, c.call)) => Granted(i, Offers(C))
BY DEF Granted, Offers, Panel
LEMMA CallOf ==
  /\ \A call, key, shows : Query(key, call, shows).call = call
  /\ \A call, key, shows : Kept(Query(key, call, shows)).call = call
  /\ \A call, alters, refreshes : Change(call, alters, refreshes).call = call
  /\ \A call, alters, refreshes, keys : Sets(Change(call, alters, refreshes), keys).call = call
BY DEF Query, Kept, Change, Sets
LEMMA OneGranted ==
  /\ \A i, key, call, shows : IsServed(i, call) => Granted(i, Reads({Query(key, call, shows)}))
  /\ \A i, call, alters, refreshes : IsServed(i, call) => Granted(i, Offers({Change(call, alters, refreshes)}))
  /\ \A i, key, call, shows, change, alters, refreshes :
       IsServed(i, call) /\ IsServed(i, change)
         => Granted(i, Panel({Query(key, call, shows)}, {Change(change, alters, refreshes)}))
  /\ \A i, key, call, shows, change, alters, refreshes, keys :
       IsServed(i, call) /\ IsServed(i, change)
         => Granted(i, Panel({Query(key, call, shows)}, {Sets(Change(change, alters, refreshes), keys)}))
BY CallOf, GrantedPanel, GrantedReads, GrantedOffers
LEMMA SettingsCalls ==
  BusinessSettings.call = Get("/business/settings") /\ BranchSettings.call = Get("/branches/:id")
BY CallOf DEF BusinessSettings, BranchSettings
LEMMA IpcServed == \A i, name : Whos[i].desktop => IsServed(i, Ipc(name))
BY DEF IsServed, Ipc

LEMMA LayoutGranted ==
  ASSUME NEW i \in DOMAIN Whos, NEW w, w = Whos[i]
  PROVE  Granted(i, AppLayout(w))
<1>1. Granted(i, useMeta(w))
  BY PublicServed, CallOf, GrantedReads DEF useMeta
<1>2. Granted(i, useBillingStatus(w))
  <2>1. useIsManagedHosting(w) /\ w.session => Granted(i, Reads({Query("billing-status", Get("/billing/status"), {})}))
    BY BillingServed, CallOf, GrantedReads
  <2>q. QED  BY <2>1, GrantedWhen DEF useBillingStatus
<1>3. Granted(i, GstinNeededBanner(w))
  <2>1. w.session => IsServed(i, BusinessSettings.call)
    BY SettingsServed, SettingsCalls
  <2>2. w.session => Granted(i, Reads({BusinessSettings}))
    BY <2>1, GrantedReads
  <2>q. QED  BY <2>2, GrantedWhen DEF GstinNeededBanner
<1>4. Granted(i, RecoveryCodeNotice(w))
  <2>1. ASSUME useIsOffline(w), w.session, w.admin
        PROVE  Granted(i, Reads({Query("recovery-code-status", Get("/auth/recovery-code"), {"recovery code"})}))
    <3>1. IsServed(i, Get("/auth/recovery-code"))
      BY <2>1, AuthServed
    <3>q. QED  BY <3>1, OneGranted
  <2>q. QED  BY <2>1, GrantedWhen DEF RecoveryCodeNotice, useRecoveryStatus
<1>5. Granted(i, CrashReportsChoice(w))
  <2>1. ASSUME w.desktop
        PROVE  Granted(i, Panel({Query("crash-reports", Ipc("crash-reports"), {"crash reports"})},
                                {Sets(Change(Ipc("crash-reports:set"), {"crash reports"}, {}), {"crash-reports"})}))
    <3>1. IsServed(i, Ipc("crash-reports")) /\ IsServed(i, Ipc("crash-reports:set"))
      BY <2>1, IpcServed
    <3>q. QED  BY <3>1, OneGranted
  <2>q. QED  BY <2>1, GrantedWhen DEF CrashReportsChoice
<1>6. Granted(i, When(w.session, Of({Reads({Query("me", Get("/auth/me"), {})}), When(w.admin, CrashReportsChoice(w))})))
  <2>1. w.session => Granted(i, Reads({Query("me", Get("/auth/me"), {})}))
    BY AuthServed, CallOf, GrantedReads
  <2>q. QED  BY <1>5, <2>1, GrantedOf, GrantedWhen
<1>q. QED  BY <1>1, <1>2, <1>3, <1>4, <1>6, GrantedOf DEF AppLayout

LEMMA EmailGranted ==
  ASSUME NEW i \in DOMAIN Whos, NEW w, w = Whos[i], w.session, w.admin \/ w.register # "none"
  PROVE  Granted(i, EmailReceipt(w))
<1>1. ~useIsOffline(w) => Granted(i, Offers({Change(Post("/sales/:id/email-receipt"), {}, {})}))
  BY SalesServed, CallOf, GrantedOffers
<1>q. QED  BY <1>1, GrantedWhen DEF EmailReceipt
LEMMA StoreGranted ==
  ASSUME NEW i \in DOMAIN Whos, NEW w, w = Whos[i], w.session
  PROVE  Granted(i, Reads({BranchSettings, BusinessSettings}))
<1>1. IsServed(i, BranchSettings.call) /\ IsServed(i, BusinessSettings.call)
  BY SettingsServed, SettingsCalls
<1>q. QED  BY <1>1, GrantedReads
LEMMA PosGranted ==
  ASSUME NEW i \in DOMAIN Whos, NEW w, w = Whos[i], w.session, w.register # "none"
  PROVE  Granted(i, PosPage(w))
<1>1. Granted(i, useCatalog(w))
  BY ItemsServed, StockServed, CallOf, GrantedReads DEF useCatalog, ItemList, OnHand
<1>2. Granted(i, useStoreSettings(w))
  BY StoreGranted DEF useStoreSettings
<1>3. Granted(i, usePosCustomer(w)) /\ Granted(i, CustomerPickerModal(w))
  BY CustomersServed, CallOf, GrantedReads, GrantedOffers DEF usePosCustomer, CustomerPickerModal
<1>4. Granted(i, checkout(w))
  BY SalesServed, CallOf, GrantedOffers DEF checkout
<1>q. QED  BY <1>1, <1>2, <1>3, <1>4, EmailGranted, GrantedOf DEF PosPage
LEMMA SalesGranted ==
  ASSUME NEW i \in DOMAIN Whos, NEW w, w = Whos[i], w.session, w.admin \/ w.register # "none"
  PROVE  Granted(i, SalesPage(w))
<1>1. Granted(i, Reads({ItemList("items-sales"), Query("customers-sales", Get("/customers"), {"customer"})}))
  BY ItemsServed, CustomersServed, CallOf, GrantedReads DEF ItemList
<1>2. Granted(i, useSalesList(w)) /\ Granted(i, useInvoiceDetails(w))
  BY SalesServed, CallOf, GrantedReads DEF useSalesList, useInvoiceDetails
<1>3. Granted(i, useReceiptSettings(w))
  BY StoreGranted DEF useReceiptSettings
<1>4. Granted(i, useSettlePayment(w))
  BY CustomersServed, CallOf, GrantedReads DEF useSettlePayment
<1>5. Granted(i, cancelInvoice(w))
  <2>1. can(w, "CANCEL_SALES")
          => Granted(i, Offers({Change(Post("/sales/:id/cancel"), {"bill", "stock", "debt", "wallet"},
                                       {"sales-module", "sales-by-id", "stock-module"})}))
    BY SalesServed, CallOf, GrantedOffers
  <2>q. QED  BY <2>1, GrantedWhen DEF cancelInvoice
<1>6. Granted(i, settleInvoice(w))
  <2>1. AtRegister(w)
          => Granted(i, Offers({Change(Post("/sales/:id/settle"), {"bill", "receipt", "debt", "wallet", "drawer"},
                                       {"sales-module", "sales-by-id", "receipt-list-by-invoice-sales"})}))
    BY SalesServed, CallOf, GrantedOffers DEF AtRegister
  <2>q. QED  BY <2>1, GrantedWhen DEF settleInvoice
<1>q. QED  BY <1>1, <1>2, <1>3, <1>4, <1>5, <1>6, EmailGranted, GrantedOf DEF SalesPage
LEMMA ReturnsGranted ==
  ASSUME NEW i \in DOMAIN Whos, NEW w, w = Whos[i], w.session, w.register # "none"
  PROVE  Granted(i, ReturnsPage(w))
<1>1. Granted(i, useReturns(w))
  BY SalesServed, CallOf, GrantedReads DEF useReturns
<1>2. Granted(i, useBillSearch(w))
  <2>1. Granted(i, Reads({Query("sales-module", Get("/sales"), {"bill"})}))
    BY SalesServed, CallOf, GrantedReads
  <2>q. QED  BY <2>1, GrantedWhen DEF useBillSearch
<1>3. Granted(i, createReturn(w))
  <2>1. can(w, "MAKE_RETURNS") =>
          Granted(i, Panel({ItemList("items-returns"), Query("customers-returns", Get("/customers"), {"customer"}),
                            Query("sales-by-id", Get("/sales/:id"), {"bill"})},
                           {Change(Post("/sales/:id/return"), {"return", "bill", "stock", "debt", "wallet", "drawer"},
                                   {"returns-list", "return-detail", "sales-module", "sales-by-id", "stock-module"})}))
    BY ItemsServed, CustomersServed, SalesServed, CallOf, GrantedPanel DEF ItemList
  <2>q. QED  BY <2>1, GrantedWhen DEF createReturn
<1>q. QED  BY <1>1, <1>2, <1>3, StoreGranted, GrantedOf DEF ReturnsPage

LEMMA CustomersGranted ==
  ASSUME NEW i \in DOMAIN Whos, NEW w, w = Whos[i], w.session, w.admin \/ w.register # "none"
  PROVE  Granted(i, CustomersPage(w))
<1>1. Granted(i, Reads({Query("customers-module", Get("/customers"), {"customer"}),
                        Query("customer-account", Get("/customers/:id/account"), {"limit", "debt"}),
                        Query("customers-module-wallet", Get("/customers/:id/wallet"), {"wallet"}),
                        Query("customers-module-sales", Get("/sales"), {"bill"}), BusinessSettings}))
  <2>1. IsServed(i, BusinessSettings.call)
    BY SettingsServed, SettingsCalls
  <2>q. QED  BY <2>1, CustomersServed, SalesServed, CallOf, GrantedReads
<1>2. Granted(i, AgeingPanel(w)) /\ Granted(i, createCustomer(w)) /\ Granted(i, updateCustomer(w))
  <2>1. \A call \in {Get("/customers/ageing"), Post("/customers"), Patch("/customers/:id")} : IsServed(i, call)
    BY CustomersServed
  <2>q. QED  BY <2>1, OneGranted DEF AgeingPanel, createCustomer, updateCustomer
<1>3. Granted(i, StatementPanel(w))
  <2>1. Granted(i, Reads({Query("customer-statement", Get("/customers/:id/statement"), {"debt"})}))
    BY CustomersServed, CallOf, GrantedReads
  <2>2. ~useIsOffline(w) => Granted(i, Offers({Change(Post("/customers/:id/statement/email"), {}, {})}))
    BY CustomersServed, CallOf, GrantedOffers
  <2>q. QED  BY <2>1, <2>2, GrantedWhen, GrantedOf DEF StatementPanel
<1>4. Granted(i, WalletTopupForm(w))
  <2>1. ASSUME can(w, "TOP_UP_WALLETS"), AtRegister(w)
        PROVE  Granted(i, Offers({Change(Post("/customers/:id/wallet/topup"), {"wallet", "drawer"},
                                         {"customers-module-wallet"})}))
    BY <2>1, CustomersServed, CallOf, GrantedOffers DEF AtRegister
  <2>q. QED  BY <2>1, GrantedWhen DEF WalletTopupForm
<1>5. Granted(i, WalletAdjustForm(w))
  <2>1. w.admin => Granted(i, Offers({Change(Post("/customers/:id/wallet/adjust"), {"wallet"}, {"customers-module-wallet"})}))
    BY CustomersServed, CallOf, GrantedOffers
  <2>q. QED  BY <2>1, GrantedWhen DEF WalletAdjustForm
<1>q. QED  BY <1>1, <1>2, <1>3, <1>4, <1>5, GrantedOf DEF CustomersPage
LEMMA ExpensesGranted ==
  ASSUME NEW i \in DOMAIN Whos, NEW w, w = Whos[i], w.session, w.admin \/ w.register # "none", can(w, "CASH_AND_EXPENSES")
  PROVE  Granted(i, ExpensesPage(w))
<1>1. Granted(i, Reads({Query("expenses", Get("/expenses"), {"expense"})})) /\ Granted(i, ExpenseForm(w))
  BY ExpensesServed, CallOf, GrantedReads, GrantedOffers DEF ExpenseForm
<1>2. w.admin => Granted(i, Offers({Change(Delete("/expenses/:id"), {"expense", "drawer"}, {"expenses"})}))
  BY ExpensesServed, CallOf, GrantedOffers
<1>q. QED  BY <1>1, <1>2, GrantedWhen, GrantedOf DEF ExpensesPage
LEMMA SuppliersGranted ==
  ASSUME NEW i \in DOMAIN Whos, NEW w, w = Whos[i], w.session, w.admin \/ w.register # "none",
         can(w, "RECORD_PURCHASES") \/ can(w, "PAY_SUPPLIERS")
  PROVE  Granted(i, SuppliersPage(w))
<1>1. Granted(i, useSuppliers(w)) /\ Granted(i, SupplierAccount(w))
  BY SuppliersServed, CallOf, GrantedReads DEF useSuppliers, SupplierAccount
<1>2. Granted(i, SupplierForm(w))
  <2>1. can(w, "RECORD_PURCHASES") => Granted(i, Offers({Change(c, {"supplier"}, {"suppliers", "supplier-account"}) :
                                                         c \in {Post("/suppliers"), Patch("/suppliers/:id")}}))
    BY SuppliersServed, CallOf, GrantedOffers
  <2>q. QED  BY <2>1, GrantedWhen DEF SupplierForm
<1>3. Granted(i, SupplierPaymentForm(w))
  <2>1. can(w, "PAY_SUPPLIERS") =>
          Granted(i, Offers({Change(Post("/suppliers/:id/payments"), {"supplier", "drawer"},
                                    {"suppliers", "supplier-account", "register-current-cash"})}))
    BY SuppliersServed, CallOf, GrantedOffers
  <2>q. QED  BY <2>1, GrantedWhen DEF SupplierPaymentForm
<1>q. QED  BY <1>1, <1>2, <1>3, GrantedOf DEF SuppliersPage
LEMMA PurchasesGranted ==
  ASSUME NEW i \in DOMAIN Whos, NEW w, w = Whos[i], w.session, w.admin \/ w.register # "none", can(w, "RECORD_PURCHASES")
  PROVE  Granted(i, PurchasesPage(w))
<1>1. Granted(i, Panel({ItemList("items-stock-list"), Query("purchases", Get("/purchases"), {"purchase"})},
                       {Change(Post("/purchases"), {"purchase", "stock", "supplier", "item"},
                               {"purchases", "stock-module", "stock-ledger", "items-stock-list", "suppliers"})}))
  BY ItemsServed, PurchasesServed, CallOf, GrantedPanel DEF ItemList
<1>2. Granted(i, SupplierPicker(w))
  BY SuppliersServed, CallOf, GrantedReads DEF SupplierPicker, useSuppliers
<1>3. Granted(i, PurchaseDetail(w))
  <2>1. IsServed(i, Get("/purchases/:id")) /\ IsServed(i, Post("/purchases/:id/returns"))
    BY PurchasesServed
  <2>q. QED  BY <2>1, OneGranted DEF PurchaseDetail
<1>q. QED  BY <1>1, <1>2, <1>3, GrantedOf DEF PurchasesPage

LEMMA ItemsGranted ==
  ASSUME NEW i \in DOMAIN Whos, NEW w, w = Whos[i], w.session
  PROVE  Granted(i, ItemsPage(w))
<1>1. Granted(i, Reads({ItemList("items-module"), BusinessSettings}))
  BY ItemsServed, SettingsServed, SettingsCalls, CallOf, GrantedReads DEF ItemList
<1>2. Granted(i, VariantsPanel(w))
  <2>1. Granted(i, Reads({Query("item-groups", Get("/item-groups"), {"variant"})}))
    BY ItemsServed, CallOf, GrantedReads
  <2>2. can(w, "MANAGE_ITEMS") =>
          Granted(i, Offers({Change(c, {"item", "variant"}, {"items-module", "items-pos", "items-stock-list", "item-groups"}) :
                             c \in {Post("/item-groups/:id/values"), Patch("/item-groups/:id/prices")}}))
    BY ItemsServed, CallOf, GrantedOffers
  <2>q. QED  BY <2>1, <2>2, GrantedWhen, GrantedOf DEF VariantsPanel
<1>3. w.admin => Granted(i, BranchPricesSection(w))
  <2>1. w.admin => IsServed(i, Get("/items/:id/branch-prices")) /\ IsServed(i, Put("/items/:id/branch-prices"))
    BY ItemsServed
  <2>q. QED  BY <2>1, OneGranted DEF BranchPricesSection
<1>4. Granted(i, ItemDetails(w))
  BY <1>2, <1>3, GrantedWhen, GrantedOf DEF ItemDetails
<1>5. can(w, "MANAGE_ITEMS") => Granted(i, useItemMutations(w))
  BY ItemsServed, CallOf, GrantedOffers DEF useItemMutations
<1>6. Granted(i, CategoryInput(w)) /\ (can(w, "MANAGE_ITEMS") => Granted(i, ProductForm(w)))
  BY ItemsServed, CallOf, GrantedReads, GrantedOffers DEF CategoryInput, ProductForm
<1>7. can(w, "MANAGE_ITEMS") => Granted(i, Of({useItemMutations(w), CategoryInput(w), ProductForm(w)}))
  BY <1>5, <1>6, GrantedOf
<1>q. QED  BY <1>1, <1>4, <1>7, GrantedWhen, GrantedOf DEF ItemsPage
LEMMA ImportItemsGranted ==
  ASSUME NEW i \in DOMAIN Whos, NEW w, w = Whos[i], w.session, w.admin \/ w.register # "none", can(w, "MANAGE_ITEMS")
  PROVE  Granted(i, ImportItemsPage(w))
BY ItemsServed, CallOf, GrantedOffers DEF ImportItemsPage
LEMMA LabelsGranted ==
  ASSUME NEW i \in DOMAIN Whos, NEW w, w = Whos[i], w.session, w.admin \/ w.register # "none"
  PROVE  Granted(i, LabelsPage(w))
<1>1. Granted(i, Reads({ItemList("items-labels")})) /\ Granted(i, useBatches(w))
  BY ItemsServed, StockServed, CallOf, GrantedReads DEF ItemList, useBatches
<1>2. can(w, "RECORD_PURCHASES")
        => Granted(i, Reads({Query("purchase-for-labels", Get("/purchases/:id"), {"purchase"})}))
  BY PurchasesServed, CallOf, GrantedReads
<1>q. QED  BY <1>1, <1>2, GrantedWhen, GrantedOf DEF LabelsPage
LEMMA StockGranted ==
  ASSUME NEW i \in DOMAIN Whos, NEW w, w = Whos[i], w.session, w.admin \/ w.register # "none"
  PROVE  Granted(i, StockPage(w))
<1>1. Granted(i, Reads({ItemList("items-stock-list"), OnHand, Query("stock-ledger", Get("/stock/ledger"), {"stock"})}))
  BY ItemsServed, StockServed, CallOf, GrantedReads DEF ItemList, OnHand
<1>2. Granted(i, useBatches(w)) /\ Granted(i, LowStockCard(w))
  <2>1. IsServed(i, Get("/stock/batches")) /\ IsServed(i, Get("/stock/low"))
    BY StockServed
  <2>q. QED  BY <2>1, OneGranted DEF useBatches, LowStockCard
<1>3. Granted(i, ReorderLevel(w))
  <2>1. can(w, "MANAGE_STOCK")
          => Granted(i, Offers({Change(Put("/stock/reorder-level"), {"stock level"}, {"stock-module", "low-stock"})}))
    <3>1. can(w, "MANAGE_STOCK") => IsServed(i, Put("/stock/reorder-level"))
      BY StockServed
    <3>q. QED  BY <3>1, OneGranted
  <2>q. QED  BY <2>1, GrantedWhen DEF ReorderLevel
<1>4. Granted(i, useStockMutations(w))
  <2>1. can(w, "MANAGE_STOCK") =>
          Granted(i, Offers({Change(c, {"stock"}, {"stock-module", "stock-ledger", "stock-batches", "low-stock"}) :
                             c \in {Post("/stock/opening"), Patch("/stock/opening"), Post("/stock/adjustment")}}))
    BY StockServed, CallOf, GrantedOffers
  <2>q. QED  BY <2>1, GrantedWhen DEF useStockMutations
<1>q. QED  BY <1>1, <1>2, <1>3, <1>4, GrantedOf DEF StockPage
LEMMA TransfersGranted ==
  ASSUME NEW i \in DOMAIN Whos, NEW w, w = Whos[i], w.session, w.admin \/ w.register # "none"
  PROVE  Granted(i, TransfersPage(w))
<1> DEFINE refreshes == {"transfers", "stock-module", "stock-ledger"}
           list == Panel({ItemList("items-stock-list"), OnHand, Query("transfers", Get("/stock-transfers"), {"transfer"})},
                         {Change(Post("/stock-transfers/:id/receive"), {"transfer", "stock"}, refreshes)})
           sending == Panel({Query("transfer-destinations", Get("/stock-transfers/destinations"), {})},
                            {Change(c, {"transfer", "stock"}, refreshes) :
                             c \in {Post("/stock-transfers"), Post("/stock-transfers/:id/cancel")}})
<1>1. Granted(i, list)
  BY ItemsServed, StockServed, TransfersServed, CallOf, GrantedPanel DEF ItemList, OnHand
<1>2. can(w, "SEND_TRANSFERS") => Granted(i, sending)
  BY TransfersServed, CallOf, GrantedPanel
<1>3. Granted(i, Of({list, When(can(w, "SEND_TRANSFERS"), sending)}))
  BY <1>1, <1>2, GrantedWhen, GrantedOf
<1>q. QED  BY <1>3, GrantedWhen DEF TransfersPage

LEMMA FormsGranted ==
  /\ \A i, key, call, shows, other, asks, tells, change, alters, refreshes :
       IsServed(i, call) /\ IsServed(i, asks) /\ IsServed(i, change)
         => Granted(i, Panel({Query(key, call, shows), Query(other, asks, tells)}, {Change(change, alters, refreshes)}))
  /\ \A i, call, alters, refreshes, keys, change, turns, renews :
       IsServed(i, call) /\ IsServed(i, change)
         => Granted(i, Offers({Sets(Change(call, alters, refreshes), keys), Change(change, turns, renews)}))
BY CallOf, GrantedPanel, GrantedOffers
LEMMA ReportsGranted ==
  ASSUME NEW i \in DOMAIN Whos, NEW w, w = Whos[i], w.session, w.admin
  PROVE  Granted(i, ReportsPage(w)) /\ Granted(i, ActivityPage(w)) /\ Granted(i, GstReturnsPage(w))
<1>1. Granted(i, ReportsPage(w))
  BY ReportsServed, OneGranted, GrantedOf DEF ReportsPage, DetailReport
<1>2. Granted(i, ActivityPage(w))
  BY ReportsServed, SettingsServed, SettingsCalls, CallOf, GrantedReads DEF ActivityPage
<1>3. Granted(i, Reads({Query("gst-gstins", Get("/gst/gstins"), {"branch gstin"})}))
  BY ReportsServed, OneGranted
<1>4. Granted(i, Gstr1View(w)) /\ Granted(i, Gstr3bView(w)) /\ Granted(i, CompositionView(w))
  BY ReportsServed, CallOf, GrantedReads DEF Gstr1View, Gstr3bView, CompositionView
<1>q. QED  BY <1>1, <1>2, <1>3, <1>4, GrantedOf DEF GstReturnsPage

\* The settings page and each of its tabs, for an admin.
LEMMA BranchSettingsGranted ==
  ASSUME NEW i \in DOMAIN Whos, NEW w, w = Whos[i], w.session, w.admin
  PROVE  Granted(i, BranchSettingsPage(w))
BY SettingsServed, SettingsCalls, UsersServed, BranchesServed, CallOf, GrantedReads DEF BranchSettingsPage
LEMMA BusinessTabGranted ==
  ASSUME NEW i \in DOMAIN Whos, NEW w, w = Whos[i], w.session, w.admin
  PROVE  Granted(i, Of({RecoveryCodeSettings(w), useBusinessSettingsMutations(w), TaxpayerTypeSection(w)}))
<1>1. Granted(i, RecoveryCodeSettings(w))
  <2>1. useIsOffline(w) => IsServed(i, Get("/auth/recovery-code")) /\ IsServed(i, Post("/auth/recovery-code"))
    BY AuthServed
  <2>2. Granted(i, useRecoveryStatus(w))
    BY <2>1, OneGranted, GrantedWhen DEF useRecoveryStatus
  <2>3. useIsOffline(w) /\ w.admin
          => Granted(i, Offers({Change(Post("/auth/recovery-code"), {"recovery code"}, {"recovery-code-status"})}))
    BY <2>1, OneGranted
  <2>q. QED  BY <2>2, <2>3, GrantedWhen, GrantedOf DEF RecoveryCodeSettings
<1>2. Granted(i, useBusinessSettingsMutations(w))
  BY SettingsServed, CallOf, GrantedOffers DEF useBusinessSettingsMutations
<1>3. Granted(i, TaxpayerTypeSection(w))
  <2>1. /\ IsServed(i, Get("/business/taxpayer-type"))
        /\ \A c \in {Post("/business/taxpayer-type"), Delete("/business/taxpayer-type/:id")} : IsServed(i, c)
    BY SettingsServed
  <2>2. PICK shows, alters : shows = {"taxpayer type"} /\ alters = {"taxpayer type", "business"}
    OBVIOUS
  <2>3. TaxpayerTypeSection(w)
          = Panel({Query("taxpayer-type", Get("/business/taxpayer-type"), shows)},
                  {Change(c, alters, {"taxpayer-type", "business-settings"}) :
                   c \in {Post("/business/taxpayer-type"), Delete("/business/taxpayer-type/:id")}})
    BY <2>2, Zenon DEF TaxpayerTypeSection
  <2>q. QED  BY <2>1, <2>3, CallOf, GrantedPanel
<1>q. QED  BY <1>1, <1>2, <1>3, GrantedOf
LEMMA CountersGranted ==
  ASSUME NEW i \in DOMAIN Whos, NEW w, w = Whos[i], w.session, w.admin
  PROVE  Granted(i, CountersSection(w))
<1> DEFINE seen == Panel({Query("branch-counters", Get("/branches/:branchId/counters"), {"counter"}),
                          Query("register-summaries", Get("/registers/summary"), {"counter name", "register"})},
                         {Change(Patch("/counters/:id"), {"counter", "counter name"}, {"branch-counters", "register-summaries"})})
           added == Offers({Change(Post("/branches/:branchId/counters"), {"counter", "counter name"},
                                   {"branch-counters", "register-summaries"})})
           fallback == Offers({Change(c, {"counter"}, {"branch-counters"}) :
                               c \in {Post("/counters/:id/fallback"), Delete("/counters/:id/fallback")}})
<1>1. /\ IsServed(i, Get("/branches/:branchId/counters")) /\ IsServed(i, Get("/registers/summary"))
      /\ IsServed(i, Patch("/counters/:id")) /\ IsServed(i, Post("/branches/:branchId/counters"))
  BY BranchesServed, RegistersServed
<1>2. ~useIsOffline(w) => IsServed(i, Post("/counters/:id/fallback")) /\ IsServed(i, Delete("/counters/:id/fallback"))
  BY ExportsServed
<1>3. Granted(i, seen)
  BY <1>1, FormsGranted
<1>4. Granted(i, added) /\ (~useIsOffline(w) => Granted(i, fallback))
  <2>1. Granted(i, added)
    <3>1. PICK alters : alters = {"counter", "counter name"}
      OBVIOUS
    <3>2. added = Offers({Change(Post("/branches/:branchId/counters"), alters, {"branch-counters", "register-summaries"})})
      BY <3>1, Zenon
    <3> HIDE DEF added
    <3>q. QED  BY <1>1, <3>2, OneGranted
  <2>2. ~useIsOffline(w) => \A c \in {Post("/counters/:id/fallback"), Delete("/counters/:id/fallback")} : IsServed(i, c)
    BY <1>2
  <2>3. ~useIsOffline(w) => Granted(i, fallback)
    BY <2>2, CallOf, GrantedOffers
  <2>q. QED  BY <2>1, <2>3
<1>5. Granted(i, When(~useIsOffline(w), added)) /\ Granted(i, When(~useIsOffline(w) /\ w.desktop, fallback))
  BY <1>4, GrantedWhen
<1>6. CountersSection(w) = Of({seen, When(~useIsOffline(w), added), When(~useIsOffline(w) /\ w.desktop, fallback)})
  BY DEF CountersSection
<1>q. QED  BY <1>3, <1>5, <1>6, GrantedOf
LEMMA BranchesTabGranted ==
  ASSUME NEW i \in DOMAIN Whos, NEW w, w = Whos[i], w.session, w.admin
  PROVE  Granted(i, Of({createBranch(w), useBranchSettingsMutations(w), CountersSection(w)}))
<1>1. Granted(i, createBranch(w))
  <2>1. Granted(i, Offers({Change(Post("/branches"), {"branches"}, {"accessible-branches"})}))
    BY BranchesServed, OneGranted
  <2>q. QED  BY <2>1, GrantedWhen DEF createBranch
<1>2. Granted(i, useBranchSettingsMutations(w))
  <2>1. IsServed(i, Patch("/branches/:id")) /\ IsServed(i, Post("/branches/:id/logo"))
    BY SettingsServed
  <2>q. QED  BY <2>1, FormsGranted DEF useBranchSettingsMutations
<1>q. QED  BY <1>1, <1>2, CountersGranted, GrantedOf
LEMMA OtherTabsGranted ==
  ASSUME NEW i \in DOMAIN Whos, NEW w, w = Whos[i], w.session, w.admin
  PROVE  /\ Granted(i, ReceiptTemplateSection(w)) /\ Granted(i, useCashierMutations(w)) /\ Granted(i, DataExportSection(w))
         /\ useIsManagedHosting(w) => Granted(i, BillingSection(w))
         /\ w.desktop => Granted(i, PrinterSection(w)) /\ Granted(i, BackupsSection(w))
<1>1. Granted(i, ReceiptTemplateSection(w))
  BY SettingsServed, SettingsCalls, CallOf, GrantedPanel DEF ReceiptTemplateSection
<1>2. Granted(i, useCashierMutations(w))
  BY UsersServed, CallOf, GrantedOffers DEF useCashierMutations
<1>3. Granted(i, DataExportSection(w))
  <2>1. Granted(i, Offers({Change(Get("/exports/sales.csv"), {}, {})}))
    BY ExportsServed, OneGranted
  <2>2. ~useIsOffline(w) => Granted(i, Offers({Change(Get("/exports/business"), {}, {})}))
    BY ExportsServed, OneGranted
  <2>q. QED  BY <2>1, <2>2, GrantedWhen, GrantedOf DEF DataExportSection
<1>4. useIsManagedHosting(w) => Granted(i, BillingSection(w))
  BY BillingServed, CallOf, GrantedPanel DEF BillingSection
<1>5. w.desktop => Granted(i, PrinterSection(w)) /\ Granted(i, BackupsSection(w))
  <2> SUFFICES ASSUME w.desktop PROVE Granted(i, PrinterSection(w)) /\ Granted(i, BackupsSection(w))
    OBVIOUS
  <2>1. \A name : IsServed(i, Ipc(name))
    BY IpcServed
  <2>2. Granted(i, useStoreSettings(w))
    BY StoreGranted DEF useStoreSettings
  <2>3. Granted(i, Panel({Kept(Query("desktop-printing", Ipc("printing:settings"), {"printing"})),
                          Query("desktop-printers", Ipc("printing:printers"), {})},
                         {Sets(Change(Ipc("printing:save"), {"printing"}, {}), {"desktop-printing"}),
                          Change(Ipc("printing:print"), {}, {}), Change(Ipc("printing:drawer"), {}, {})}))
    BY <2>1, CallOf, GrantedPanel
  <2>4. Granted(i, PrinterSection(w))
    BY <2>2, <2>3, GrantedOf DEF PrinterSection
  <2>5. Granted(i, BackupsSection(w))
    BY <2>1, CallOf, GrantedPanel DEF BackupsSection
  <2>q. QED  BY <2>4, <2>5
<1>q. QED  BY <1>1, <1>2, <1>3, <1>4, <1>5
LEMMA SettingsGranted ==
  ASSUME NEW i \in DOMAIN Whos, NEW w, w = Whos[i], w.session, w.admin, NEW t, t \in SettingsTabs(w)
  PROVE  Granted(i, Of({BranchSettingsPage(w), t[2]}))
<1>1. \/ t[2] \in {Of({RecoveryCodeSettings(w), useBusinessSettingsMutations(w), TaxpayerTypeSection(w)}),
                   Of({createBranch(w), useBranchSettingsMutations(w), CountersSection(w)}),
                   ReceiptTemplateSection(w), useCashierMutations(w), DataExportSection(w)}
      \/ useIsManagedHosting(w) /\ t[2] = BillingSection(w)
      \/ w.desktop /\ t[2] \in {PrinterSection(w), BackupsSection(w)}
  BY DEF SettingsTabs
<1>2. Granted(i, t[2])
  BY <1>1, BusinessTabGranted, BranchesTabGranted, OtherTabsGranted
<1>q. QED  BY <1>2, BranchSettingsGranted, GrantedOf

-----------------------------------------------------------------------------
(* Every page and every link.                                              *)

\* A page that opens for the i-th is granted to it, but for Useless.
OpenTo(i, r) == r.opens /\ r.path \notin Useless(Whos[i]) => Granted(i, r.panel)
LEMMA RouteOpens ==
  \A path, opens, panel, r : r = Route(path, opens, panel) => (r.opens <=> opens) /\ r.panel = panel /\ r.path = path
BY DEF Route
LEMMA RouteOpenTo ==
  \A i, path, opens, panel :
    (opens /\ path \notin Useless(Whos[i]) => Granted(i, panel)) => OpenTo(i, Route(path, opens, panel))
<1> SUFFICES ASSUME NEW i, NEW path, NEW opens, NEW panel, opens /\ path \notin Useless(Whos[i]) => Granted(i, panel)
             PROVE  OpenTo(i, Route(path, opens, panel))
  OBVIOUS
<1>1. PICK r : r = Route(path, opens, panel)
  OBVIOUS
<1>2. (r.opens <=> opens) /\ r.panel = panel /\ r.path = path
  BY <1>1, RouteOpens
<1>3. OpenTo(i, r)
  BY <1>2 DEF OpenTo
<1>q. QED  BY <1>1, <1>3
LEMMA SignedOutGranted ==
  ASSUME NEW i \in DOMAIN Whos, NEW w, w = Whos[i]
  PROVE  \A r \in SignedOutRoutes(w) : OpenTo(i, r)
<1>1. Granted(i, LoginPage(w)) /\ (w.session => Granted(i, ChangePasswordPage(w)))
  BY PublicServed, AuthServed, OneGranted DEF LoginPage, ChangePasswordPage
<1>2. Granted(i, RecoverPage(w))
  <2>1. CASE useIsOffline(w)
    BY <2>1, PublicServed, OneGranted DEF RecoverPage, OfflineRecover
  <2>2. CASE ~useIsOffline(w)
    BY <2>2, AccountsServed, CallOf, GrantedOffers DEF RecoverPage, OwnerResetsStaffPassword
  <2>q. QED  BY <2>1, <2>2
<1>3. "/owner-password" \notin Useless(w) => Granted(i, OwnerPasswordPage(w))
  <2>1. CASE w.desktop
    BY <2>1, IpcServed, OneGranted DEF OwnerPasswordPage
  <2>2. ASSUME ~w.desktop, ~useIsOffline(w) PROVE Granted(i, OwnerPasswordPage(w))
    BY <2>2, AccountsServed, CallOf, GrantedOffers DEF OwnerPasswordPage
  <2>q. QED  BY <2>1, <2>2 DEF Useless
<1>4. Granted(i, OwnerPage(w))
  <2> SUFFICES ASSUME ~useIsOffline(w)
               PROVE  Granted(i, Of({OwnerSignIn(w), OwnerStaff(w), NewPasswordForm(w), BusinessDeletion(w)}))
    BY GrantedWhen DEF OwnerPage
  <2>1. Granted(i, OwnerSignIn(w)) /\ Granted(i, NewPasswordForm(w))
    BY AccountsServed, OneGranted DEF OwnerSignIn, NewPasswordForm
  <2>2. Granted(i, OwnerStaff(w))
    BY AccountsServed, CallOf, GrantedPanel DEF OwnerStaff
  <2>3. Granted(i, BusinessDeletion(w))
    BY AccountsServed, CallOf, GrantedOffers DEF BusinessDeletion
  <2>q. QED  BY <2>1, <2>2, <2>3, GrantedOf
<1>5. Granted(i, SetupPage(w))
  <2>1. IsServed(i, Post(IF useIsOffline(w) THEN "/setup" ELSE "/businesses"))
    BY PublicServed, AccountsServed
  <2>q. QED  BY <2>1, OneGranted DEF SetupPage
<1>6. /\ OpenTo(i, Route("/", ~w.session, LoginPage(w))) /\ OpenTo(i, Route("/recover", ~w.session, RecoverPage(w)))
      /\ OpenTo(i, Route("/owner-password", TRUE, OwnerPasswordPage(w)))
      /\ OpenTo(i, Route("/owner", TRUE, OwnerPage(w)))
      /\ OpenTo(i, Route("/create-business", ~w.session /\ ~w.desktop /\ ~useIsOffline(w), SetupPage(w)))
      /\ OpenTo(i, Route("/setup", ~w.session /\ useIsOffline(w), SetupPage(w)))
      /\ OpenTo(i, Route("/change-password", w.session, ChangePasswordPage(w)))
  BY <1>1, <1>2, <1>3, <1>4, <1>5, RouteOpenTo, Zenon
<1>q. QED  BY <1>6, Zenon DEF SignedOutRoutes

LEMMA OpenRegisterGranted ==
  ASSUME NEW i \in DOMAIN Whos, NEW w, w = Whos[i], w.session
  PROVE  Granted(i, OpenRegisterPage(w))
<1>1. Granted(i, Panel({Query("session-branches", Get("/branches"), {"branches"}),
                        Query("register-summaries", Get("/registers/summary"), {"register"})},
                       {Change(Post("/registers/open"), {"register"}, {"register-summaries"})}))
  BY BranchesServed, RegistersServed, CallOf, GrantedPanel
<1>2. w.admin => Granted(i, Offers({Change(Post("/registers/:id/close"), {"register"}, {"register-summaries"})}))
  BY RegistersServed, OneGranted
<1>q. QED  BY <1>1, <1>2, GrantedWhen, GrantedOf DEF OpenRegisterPage

LEMMA DialogsGranted ==
  ASSUME NEW i \in DOMAIN Whos, NEW w, w = Whos[i], w.session, w.register # "none"
  PROVE  /\ can(w, "CASH_AND_EXPENSES") => Granted(i, CashDrawerDialog(w))
         /\ Granted(i, CloseRegisterDialog(w))
<1>1. can(w, "CASH_AND_EXPENSES") =>
        /\ IsServed(i, Get("/registers/cash-movements")) /\ IsServed(i, Post("/registers/cash-movements"))
        /\ IsServed(i, Post("/expenses"))
  BY ExpensesServed
<1>2. IsServed(i, Get("/registers/current")) /\ IsServed(i, Post("/registers/close"))
  BY RegistersServed
<1>q. QED  BY <1>1, <1>2, CallOf, OneGranted, GrantedPanel DEF CashDrawerDialog, CloseRegisterDialog

LEMMA RoutesOpenTo ==
  ASSUME NEW i \in DOMAIN Whos, NEW w, w = Whos[i]
  PROVE  \A r \in routeTree(w) : OpenTo(i, r)
<1>1. /\ requireSession(w) => w.session
      /\ requireOperationalSession(w) => w.session /\ w.register # "none"
      /\ requireManagementSession(w) => w.session /\ (w.admin \/ w.register # "none")
      /\ requireAdmin(w) => w.session /\ w.admin
      /\ \A p : requirePermission(w, p) => can(w, p)
  BY DEF requireSession, requireOperationalSession, requireManagementSession, requireAdmin, requirePermission
<1>2. /\ OpenTo(i, Route("/open-register", requireSession(w) /\ w.register = "none", OpenRegisterPage(w)))
      /\ OpenTo(i, Route("/pos", requireOperationalSession(w), PosPage(w)))
      /\ OpenTo(i, Route("/sales", requireManagementSession(w), SalesPage(w)))
      /\ OpenTo(i, Route("/returns", requireOperationalSession(w), ReturnsPage(w)))
      /\ OpenTo(i, Route("/items", requireSession(w), ItemsPage(w)))
      /\ OpenTo(i, Route("/customers", requireManagementSession(w), CustomersPage(w)))
      /\ OpenTo(i, Route("/stock", requireManagementSession(w), StockPage(w)))
  <2>1. /\ requireSession(w) => Granted(i, OpenRegisterPage(w)) /\ Granted(i, ItemsPage(w))
        /\ requireOperationalSession(w) => Granted(i, PosPage(w)) /\ Granted(i, ReturnsPage(w))
        /\ requireManagementSession(w) => Granted(i, SalesPage(w)) /\ Granted(i, CustomersPage(w)) /\ Granted(i, StockPage(w))
    BY <1>1, OpenRegisterGranted, ItemsGranted, PosGranted, ReturnsGranted, SalesGranted, CustomersGranted, StockGranted
  <2>q. QED  BY <2>1, RouteOpenTo, Zenon
<1>3. /\ OpenTo(i, Route("/purchases", requirePermission(w, "RECORD_PURCHASES") /\ requireManagementSession(w), PurchasesPage(w)))
      /\ OpenTo(i, Route("/suppliers", requireManagementSession(w) /\ (can(w, "RECORD_PURCHASES") \/ can(w, "PAY_SUPPLIERS")),
                        SuppliersPage(w)))
      /\ OpenTo(i, Route("/expenses", requirePermission(w, "CASH_AND_EXPENSES") /\ requireManagementSession(w), ExpensesPage(w)))
      /\ OpenTo(i, Route("/items/import", requirePermission(w, "MANAGE_ITEMS") /\ requireManagementSession(w), ImportItemsPage(w)))
      /\ OpenTo(i, Route("/labels", requireManagementSession(w)
                                     /\ \E p \in {"MANAGE_ITEMS", "MANAGE_STOCK", "RECORD_PURCHASES"} : can(w, p), LabelsPage(w)))
      /\ OpenTo(i, Route("/transfers", requireManagementSession(w), TransfersPage(w)))
  <2>1. requireManagementSession(w) =>
          /\ requirePermission(w, "RECORD_PURCHASES") => Granted(i, PurchasesPage(w))
          /\ can(w, "RECORD_PURCHASES") \/ can(w, "PAY_SUPPLIERS") => Granted(i, SuppliersPage(w))
          /\ requirePermission(w, "CASH_AND_EXPENSES") => Granted(i, ExpensesPage(w))
          /\ requirePermission(w, "MANAGE_ITEMS") => Granted(i, ImportItemsPage(w))
          /\ Granted(i, LabelsPage(w)) /\ Granted(i, TransfersPage(w))
    BY <1>1, PurchasesGranted, SuppliersGranted, ExpensesGranted, ImportItemsGranted, LabelsGranted, TransfersGranted
  <2>q. QED  BY <2>1, RouteOpenTo, Zenon
<1>4. /\ OpenTo(i, Route("/reports", requireAdmin(w), ReportsPage(w))) /\ OpenTo(i, Route("/activity", requireAdmin(w), ActivityPage(w)))
      /\ OpenTo(i, Route("/gst", requireAdmin(w), GstReturnsPage(w)))
      /\ \A t \in SettingsTabs(w) : OpenTo(i, Route(t[1], requireAdmin(w), Of({BranchSettingsPage(w), t[2]})))
  <2>1. requireAdmin(w) => /\ Granted(i, ReportsPage(w)) /\ Granted(i, ActivityPage(w)) /\ Granted(i, GstReturnsPage(w))
                           /\ \A t \in SettingsTabs(w) : Granted(i, Of({BranchSettingsPage(w), t[2]}))
    BY <1>1, ReportsGranted, SettingsGranted
  <2>q. QED  BY <2>1, RouteOpenTo, Zenon
<1>5. ASSUME NEW r, r \in routeTree(w) PROVE OpenTo(i, r)
  <2>1. CASE r \in SignedOutRoutes(w)
    BY <2>1, SignedOutGranted
  <2>2. CASE \E t \in SettingsTabs(w) : r = Route(t[1], requireAdmin(w), Of({BranchSettingsPage(w), t[2]}))
    BY <2>2, <1>4
  <2>3. CASE r \notin SignedOutRoutes(w)
             /\ r \notin {Route(t[1], requireAdmin(w), Of({BranchSettingsPage(w), t[2]})) : t \in SettingsTabs(w)}
    BY <1>2, <1>3, <1>4, <1>5, <2>3, ZenonT(60) DEF routeTree
  <2>q. QED  BY <2>1, <2>2, <2>3
<1>q. QED  BY <1>5

LEMMA RouteForm ==
  ASSUME NEW w, NEW s, s \in routeTree(w)
  PROVE  \E path, opens, panel : s = Route(path, opens, panel)
BY DEF routeTree, SignedOutRoutes
\* Every page that opens, within the layout, and every dialog.
LEMMA OpensGranted ==
  ASSUME NEW i \in DOMAIN Whos, NEW w, w = Whos[i], NEW r, r \in Opens(w)
  PROVE  OpenTo(i, r)
<1>1. CASE \E s \in routeTree(w) : s.opens /\ r = [s EXCEPT !.panel = Of({@, AppLayout(w)})]
  <2>1. PICK s \in routeTree(w) : s.opens /\ r = [s EXCEPT !.panel = Of({@, AppLayout(w)})]
    BY <1>1
  <2>2. s.path \notin Useless(w) => Granted(i, s.panel)
    BY <2>1, RoutesOpenTo DEF OpenTo
  <2>3. s.path \notin Useless(w) => Granted(i, Of({s.panel, AppLayout(w)}))
    BY <2>2, LayoutGranted, GrantedOf
  <2>4. \E path, opens, panel : s = Route(path, opens, panel)
    BY <2>1, RouteForm
  <2>5. PICK path, opens, panel : s = [path |-> path, opens |-> opens, panel |-> panel]
    BY <2>4 DEF Route
  <2>6. r.panel = Of({s.panel, AppLayout(w)}) /\ r.path = s.path
    BY <2>1, <2>5
  <2>q. QED  BY <2>3, <2>6 DEF OpenTo
<1>2. CASE \E d \in Dialogs(w) : d.opens /\ r = d
  <2>1. OpenTo(i, Route("cash drawer", w.session /\ w.register # "none" /\ can(w, "CASH_AND_EXPENSES"), CashDrawerDialog(w)))
    BY DialogsGranted, RouteOpenTo, Zenon
  <2>2. OpenTo(i, Route("close register", w.session /\ w.register # "none", CloseRegisterDialog(w)))
    BY DialogsGranted, RouteOpenTo, Zenon
  <2>3. OpenTo(i, r)
    BY <1>2, <2>1, <2>2, Zenon DEF Dialogs
  <2>q. QED  BY <2>3
<1>q. QED  BY <1>1, <1>2 DEF Opens
LEMMA OpensOpen ==
  ASSUME NEW w, NEW r, r \in Opens(w)
  PROVE  r.opens
<1>1. CASE \E s \in routeTree(w) : s.opens /\ r = [s EXCEPT !.panel = Of({@, AppLayout(w)})]
  <2>1. PICK s : s \in routeTree(w) /\ s.opens /\ r = [s EXCEPT !.panel = Of({@, AppLayout(w)})]
    BY <1>1
  <2>2. \E path, opens, panel : s = Route(path, opens, panel)
    BY <2>1, RouteForm
  <2>3. PICK path, opens, panel : s = [path |-> path, opens |-> opens, panel |-> panel]
    BY <2>2 DEF Route
  <2>q. QED  BY <2>1, <2>3
<1>2. CASE \E d \in Dialogs(w) : d.opens /\ r = d
  BY <1>2
<1>q. QED  BY <1>1, <1>2 DEF Opens
LEMMA PagesGranted ==
  ASSUME NEW i \in DOMAIN Whos, NEW p, p \in DOMAIN Pages[i], p \notin Useless(Whos[i])
  PROVE  Granted(i, Pages[i][p])
<1>1. PICK w, routes : w = Whos[i] /\ routes = Opens(w)
  OBVIOUS
<1>2. Pages[i] = [q \in {r.path : r \in routes} |-> (CHOOSE r \in routes : r.path = q).panel]
  BY <1>1 DEF Pages
<1>3. \E r \in routes : r.path = p
  BY <1>2
<1>4. PICK r : r = CHOOSE s \in routes : s.path = p
  OBVIOUS
<1>5. r \in routes /\ r.path = p /\ Pages[i][p] = r.panel
  BY <1>2, <1>3, <1>4
<1>6. \A s \in routes : s.opens
  BY <1>1, OpensOpen
<1>q. QED  BY <1>1, <1>5, <1>6, OpensGranted DEF OpenTo
-----------------------------------------------------------------------------
\* Every link of the sidebar leads to a page that opens.
LEMMA PathOpens ==
  ASSUME NEW i \in DOMAIN Whos, NEW w, w = Whos[i], NEW path, NEW opens, NEW panel,
         Route(path, opens, panel) \in routeTree(w), opens
  PROVE  path \in DOMAIN Pages[i]
<1>1. PICK s : s = Route(path, opens, panel)
  OBVIOUS
<1>2. s = [path |-> path, opens |-> opens, panel |-> panel]
  BY <1>1 DEF Route
<1>3. s \in routeTree(w) /\ s.opens
  BY <1>1, RouteOpens
<1>4. PICK r : r = [s EXCEPT !.panel = Of({@, AppLayout(w)})]
  OBVIOUS
<1>5. r \in Opens(w) /\ r.path = path
  BY <1>2, <1>3, <1>4 DEF Opens
<1>6. DOMAIN Pages[i] = {q.path : q \in Opens(w)}
  BY DEF Pages
<1>q. QED  BY <1>5, <1>6
LEMMA PathsOpen ==
  ASSUME NEW i \in DOMAIN Whos, NEW w, w = Whos[i]
  PROVE  /\ requireSession(w) => "/items" \in DOMAIN Pages[i]
         /\ requireOperationalSession(w) => "/pos" \in DOMAIN Pages[i] /\ "/returns" \in DOMAIN Pages[i]
         /\ requireManagementSession(w) =>
              /\ {"/sales", "/customers", "/stock", "/transfers"} \subseteq DOMAIN Pages[i]
              /\ requirePermission(w, "RECORD_PURCHASES") => "/purchases" \in DOMAIN Pages[i]
              /\ can(w, "RECORD_PURCHASES") \/ can(w, "PAY_SUPPLIERS") => "/suppliers" \in DOMAIN Pages[i]
              /\ requirePermission(w, "CASH_AND_EXPENSES") => "/expenses" \in DOMAIN Pages[i]
              /\ (\E p \in {"MANAGE_ITEMS", "MANAGE_STOCK", "RECORD_PURCHASES"} : can(w, p)) => "/labels" \in DOMAIN Pages[i]
         /\ requireAdmin(w) => {"/reports", "/gst", "/activity", "/settings#branches"} \subseteq DOMAIN Pages[i]
<1>1. /\ Route("/items", requireSession(w), ItemsPage(w)) \in routeTree(w)
      /\ Route("/pos", requireOperationalSession(w), PosPage(w)) \in routeTree(w)
      /\ Route("/returns", requireOperationalSession(w), ReturnsPage(w)) \in routeTree(w)
      /\ Route("/sales", requireManagementSession(w), SalesPage(w)) \in routeTree(w)
      /\ Route("/customers", requireManagementSession(w), CustomersPage(w)) \in routeTree(w)
      /\ Route("/stock", requireManagementSession(w), StockPage(w)) \in routeTree(w)
      /\ Route("/transfers", requireManagementSession(w), TransfersPage(w)) \in routeTree(w)
  BY ZenonT(60) DEF routeTree
<1>2. /\ Route("/purchases", requirePermission(w, "RECORD_PURCHASES") /\ requireManagementSession(w), PurchasesPage(w))
           \in routeTree(w)
      /\ Route("/suppliers", requireManagementSession(w) /\ (can(w, "RECORD_PURCHASES") \/ can(w, "PAY_SUPPLIERS")),
               SuppliersPage(w)) \in routeTree(w)
      /\ Route("/expenses", requirePermission(w, "CASH_AND_EXPENSES") /\ requireManagementSession(w), ExpensesPage(w))
           \in routeTree(w)
      /\ Route("/labels", requireManagementSession(w)
                            /\ \E p \in {"MANAGE_ITEMS", "MANAGE_STOCK", "RECORD_PURCHASES"} : can(w, p), LabelsPage(w))
           \in routeTree(w)
  BY ZenonT(60) DEF routeTree
<1>3. /\ Route("/reports", requireAdmin(w), ReportsPage(w)) \in routeTree(w)
      /\ Route("/activity", requireAdmin(w), ActivityPage(w)) \in routeTree(w)
      /\ Route("/gst", requireAdmin(w), GstReturnsPage(w)) \in routeTree(w)
  BY ZenonT(60) DEF routeTree
<1>4. \E panel : Route("/settings#branches", requireAdmin(w), panel) \in routeTree(w)
  <2>1. PICK t : t = <<"/settings#branches", Of({createBranch(w), useBranchSettingsMutations(w), CountersSection(w)})>>
    OBVIOUS
  <2>2. t \in SettingsTabs(w) /\ t[1] = "/settings#branches"
    BY <2>1 DEF SettingsTabs
  <2>3. Route(t[1], requireAdmin(w), Of({BranchSettingsPage(w), t[2]})) \in routeTree(w)
    BY <2>2, Zenon DEF routeTree
  <2>q. QED  BY <2>2, <2>3
<1>5. \A path, opens, panel : Route(path, opens, panel) \in routeTree(w) /\ opens => path \in DOMAIN Pages[i]
  BY PathOpens
<1>6. /\ requireSession(w) => "/items" \in DOMAIN Pages[i]
      /\ requireOperationalSession(w) => "/pos" \in DOMAIN Pages[i] /\ "/returns" \in DOMAIN Pages[i]
  BY <1>1, <1>5, Zenon
<1>7. requireManagementSession(w) =>
        /\ "/sales" \in DOMAIN Pages[i] /\ "/customers" \in DOMAIN Pages[i]
        /\ "/stock" \in DOMAIN Pages[i] /\ "/transfers" \in DOMAIN Pages[i]
  BY <1>1, <1>5, Zenon
<1>8. requireManagementSession(w) =>
        /\ requirePermission(w, "RECORD_PURCHASES") => "/purchases" \in DOMAIN Pages[i]
        /\ can(w, "RECORD_PURCHASES") \/ can(w, "PAY_SUPPLIERS") => "/suppliers" \in DOMAIN Pages[i]
        /\ requirePermission(w, "CASH_AND_EXPENSES") => "/expenses" \in DOMAIN Pages[i]
        /\ (\E p \in {"MANAGE_ITEMS", "MANAGE_STOCK", "RECORD_PURCHASES"} : can(w, p)) => "/labels" \in DOMAIN Pages[i]
  BY <1>2, <1>5, Zenon
<1>9. requireAdmin(w) => /\ "/reports" \in DOMAIN Pages[i] /\ "/gst" \in DOMAIN Pages[i]
                         /\ "/activity" \in DOMAIN Pages[i] /\ "/settings#branches" \in DOMAIN Pages[i]
  BY <1>3, <1>4, <1>5, Zenon
<1>q. QED  BY <1>6, <1>7, <1>8, <1>9
LEMMA LinksLead ==
  ASSUME NEW i \in DOMAIN Whos, NEW w, w = Whos[i]
  PROVE  Links(w) \subseteq DOMAIN Pages[i]
<1> SUFFICES ASSUME NEW n, n \in NAV_SECTIONS, w.session,
                    w.admin \/ n.permissions = Permissions \/ \E p \in n.permissions : can(w, p),
                    w.register # "none" \/ n.register = "never" \/ (n.register = "cashiers" /\ w.admin)
             PROVE  n.to \in DOMAIN Pages[i]
  BY DEF Links
<1>1. \/ n.to \in {"/pos", "/returns"} /\ n.register = "always"
      \/ n.to = "/items"
      \/ /\ n.register = "cashiers"
         /\ \/ n.to \in {"/sales", "/customers", "/stock", "/transfers"}
            \/ n.to = "/expenses" /\ n.permissions = {"CASH_AND_EXPENSES"}
            \/ n.to = "/purchases" /\ n.permissions = {"RECORD_PURCHASES"}
            \/ n.to = "/suppliers" /\ n.permissions = {"RECORD_PURCHASES", "PAY_SUPPLIERS"}
            \/ n.to = "/labels" /\ n.permissions = {"MANAGE_ITEMS", "MANAGE_STOCK", "RECORD_PURCHASES"}
      \/ n.to \in {"/reports", "/gst", "/activity", "/settings#branches"} /\ n.permissions = {}
  BY DEF NAV_SECTIONS, NavItem
<1>2. /\ requireSession(w) /\ (w.register # "none" => requireOperationalSession(w))
      /\ w.admin \/ w.register # "none" => requireManagementSession(w)
      /\ w.admin => requireAdmin(w) /\ \A p : requirePermission(w, p) /\ can(w, p)
      /\ \A p : can(w, p) => requirePermission(w, p)
  BY DEF requireSession, requireOperationalSession, requireManagementSession, requireAdmin, requirePermission, can
<1>3. \A S : S \in {{"CASH_AND_EXPENSES"}, {"RECORD_PURCHASES"}, {"RECORD_PURCHASES", "PAY_SUPPLIERS"},
                    {"MANAGE_ITEMS", "MANAGE_STOCK", "RECORD_PURCHASES"}, {}} => S # Permissions
  <2>1. "MAKE_RETURNS" \in Permissions
    BY DEF Permissions
  <2>q. QED  BY <2>1
<1>4. CASE n.to \in {"/pos", "/returns"} /\ n.register = "always"
  BY <1>2, <1>4, PathsOpen
<1>5. CASE n.to = "/items"
  BY <1>2, <1>5, PathsOpen
<1>6. CASE n.register = "cashiers" /\ n.to \in {"/sales", "/customers", "/stock", "/transfers"}
  BY <1>2, <1>6, PathsOpen
<1>7. CASE n.register = "cashiers" /\ n.to = "/expenses" /\ n.permissions = {"CASH_AND_EXPENSES"}
  BY <1>2, <1>3, <1>7, PathsOpen
<1>8. CASE n.register = "cashiers" /\ n.to = "/purchases" /\ n.permissions = {"RECORD_PURCHASES"}
  BY <1>2, <1>3, <1>8, PathsOpen
<1>9. CASE n.register = "cashiers" /\ n.to = "/suppliers" /\ n.permissions = {"RECORD_PURCHASES", "PAY_SUPPLIERS"}
  BY <1>2, <1>3, <1>9, PathsOpen
<1>10. CASE n.register = "cashiers" /\ n.to = "/labels" /\ n.permissions = {"MANAGE_ITEMS", "MANAGE_STOCK", "RECORD_PURCHASES"}
  BY <1>2, <1>3, <1>10, PathsOpen
<1>11. CASE n.to \in {"/reports", "/gst", "/activity", "/settings#branches"} /\ n.permissions = {}
  BY <1>2, <1>3, <1>11, PathsOpen
<1>q. QED  BY <1>1, <1>4, <1>5, <1>6, <1>7, <1>8, <1>9, <1>10, <1>11

\* Whoever the router lets onto a page is served everything the page reads and offers, but for
\* the page Useless to them, and every link of the sidebar leads to its page
\* (screens/route-helpers.ts and AppLayout against the controllers' guards).
THEOREM PagesServedHolds == ScreensSpec => []PagesServed
<1>1. ScreensInv => PagesServed
  <2> SUFFICES ASSUME ScreensInv, page # "nowhere" PROVE PagesServed
    BY DEF PagesServed
  <2>1. who \in DOMAIN Whos /\ page \in DOMAIN Pages[who]
    BY DEF ScreensInv, AtPage
  <2>2. page \notin Useless(Whos[who]) => Granted(who, Pages[who][page])
    BY <2>1, PagesGranted
  <2>3. PageLinks[who] \subseteq DOMAIN Pages[who]
    BY <2>1, LinksLead DEF PageLinks
  <2>q. QED  BY <2>2, <2>3 DEF Granted, PagesServed
<1>q. QED  BY <1>1, ScreensInvHolds, PTL
=============================================================================
