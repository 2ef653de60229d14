------------------------------ MODULE Access ------------------------------
(***************************************************************************)
(* Who gets through to a route: AuthGuard re-checks the session's token    *)
(* against the database on every request, InstanceStatusGuard stops        *)
(* changes while an offline business moves online or a hosted one is       *)
(* unpaid, then the handler and its service check role, branch, permission *)
(* and register, each with a read of its own.  One session's requests are  *)
(* taken check by check; between any two of its checks other sessions have *)
(* whole requests carried out: users, access, permissions, passwords and   *)
(* registers change under it.                                              *)
(***************************************************************************)
EXTENDS Api, Integers, FiniteSets, SequencesExt

CONSTANTS
  Owner,            \* the business's admin
  Cashiers,         \* its cashiers
  Home, Branches,   \* every user's primary branch; all the branches
  Asked,            \* the routes the session followed calls
  Changing,         \* the routes other sessions call
  Grants,           \* the sets of permissions an admin gives
  MaxChanges,       \* bound: password changes of one user
  MaxEdits,         \* bound: changes by others
  MaxRegisters      \* bound: registers opened

None == 0           \* no register, no branch

ASSUME AccessAssumption ==
  /\ Owner \notin Cashiers /\ Home \in Branches /\ None \notin Branches /\ Asked \cup Changing \subseteq Routes
  /\ Grants \subseteq SUBSET Permissions /\ {} \in Grants
  /\ MaxChanges \in Nat /\ MaxEdits \in Nat /\ MaxRegisters \in Nat

Users == Cashiers \cup {Owner}
NoRequest == [at |-> 0]
SignedOut == [signed |-> None]

VARIABLES
  offline,          \* this server is an offline install (else managed hosting)
  shut,             \* MIGRATING or ARCHIVED; or the subscription has ended
  users,            \* the user rows
  registers,        \* the RegisterSession rows, as they were opened: whose, where, still open
  token,            \* the token of the session followed
  request,          \* its request in flight: the route, the branch it names, the checks passed
  edits,            \* how many changes others made (bounded)
  held              \* what its user was entitled to at some moment since that request arrived

rows == <<shut, users, registers>>
accessVars == <<offline, shut, users, registers, token, request, edits, held>>

Role(u) == IF u = Owner THEN "ADMIN" ELSE "CASHIER"

---------------------------------------------------------------------------
(* Signing in.                                                             *)

OpenOf(u) == {i \in DOMAIN registers : registers[i].open /\ registers[i].user = u}

(* signToken: `signed` stands for the time, in password changes of the user so far. *)
SignToken(u, branch, register) == [user |-> u, branch |-> branch, register |-> register, signed |-> users[u].changes]

(* AuthService.login: with the register the user opened last and left open, whatever its branch. *)
LoginToken(u) ==
  IF OpenOf(u) = {} THEN SignToken(u, None, None)
  ELSE LET last == CHOOSE i \in OpenOf(u) : \A j \in OpenOf(u) : j <= i
       IN SignToken(u, registers[last].branch, last)

---------------------------------------------------------------------------
(* The checks, each against the database as it is when it is made.         *)

\* Mutant of UserStands: a password change leaves the user's other sessions alone.
UserStandsSigned(t, marks) == users[t.user].active /\ (users[t.user].mustChange => "beforeChange" \in marks)

(* AuthGuard on the user's row. *)
UserStands(t, marks) ==
  /\ users[t.user].active
  /\ t.signed >= users[t.user].changes
  /\ users[t.user].mustChange => "beforeChange" \in marks

MayPass(permissions, u) == Role(u) = "ADMIN" \/ users[u].permissions \cap permissions # {}

\* Mutant of StatusAllows: an unpaid business may read and sign in, and nothing else.
StatusAllowsReading(route) == route.call[1] = "GET" \/ "whenLocked" \in route.marks \/ ~shut

(* InstanceStatusGuard. *)
StatusAllows(route) ==
  \/ route.call[1] = "GET"
  \/ "whenLocked" \in route.marks
  \/ ~shut
  \/ ~offline /\ ("whenUnpaid" \in route.marks \/ "public" \in route.marks)

(* OfflineOnlyGuard, OnlineOnlyGuard, ManagedOnlyGuard. *)
ModeAllows(route) == IF offline THEN route.marks \cap {"online", "managed"} = {} ELSE "offline" \notin route.marks

(* AccessService.requireBranch. *)
RequireBranch(t, branch) ==
  IF Role(t.user) = "ADMIN" THEN branch \in users[t.user].branches ELSE t.branch = branch

Passes(check, route, t, branch) ==
  CASE check.ask = "user" -> UserStands(t, route.marks)
    [] check.ask = "token branch" -> t.branch # None => t.branch \in users[t.user].branches
    [] check.ask = "token register" -> t.register # None => registers[t.register].open
    [] check.ask = "status" -> StatusAllows(route)
    [] check.ask = "mode" -> ModeAllows(route)
    [] check.ask = "admin" -> Role(t.user) = "ADMIN"
    [] check.ask = "branch" -> RequireBranch(t, branch)
    [] check.ask = "access" -> branch \in users[t.user].branches
    [] check.ask = "permission" -> MayPass(check.of, t.user)
    [] check.ask = "register" -> t.register # None
    [] check.ask = "drawer" -> t.register # None /\ t.branch = branch
    [] check.ask = "open" -> t.register # None /\ registers[t.register].open

---------------------------------------------------------------------------
(* What a caller is entitled to, by the business's records alone.          *)

RightsNow(t, branch) ==
  {"active" : x \in {u \in {t.user} : users[u].active}}
    \cup {"password" : x \in {u \in {t.user} : t.signed >= users[u].changes}}
    \cup {"branch" : x \in {u \in {t.user} :
            /\ branch \in users[u].branches
            /\ u = Owner \/ \E i \in OpenOf(u) : registers[i].branch = branch}}
    \cup {"access" : x \in {u \in {t.user} : branch \in users[u].branches}}
    \cup {"register" : x \in OpenOf(t.user)}
    \cup {"drawer" : x \in {i \in OpenOf(t.user) : registers[i].branch = branch}}
    \cup {"admin" : x \in {t.user} \cap {Owner}}
    \cup {"changeable" : x \in {s \in {shut} : ~s}}
    \cup (IF t.user = Owner THEN Permissions ELSE users[t.user].permissions)

(* What a route asks for (of several permissions, any). *)
Needs(route) ==
  (IF "public" \in route.marks THEN {} ELSE {"active", "password"})
    \cup {route.checks[i].ask : i \in {j \in DOMAIN route.checks : route.checks[j].ask \in {"admin", "branch", "access", "register", "drawer"}}}
    \cup {"changeable" : x \in {r \in {route} : r.call[1] # "GET" /\ r.marks \cap {"whenLocked", "whenUnpaid", "public"} = {}}}

PermissionsAsked(route) == {route.checks[i].of : i \in {j \in DOMAIN route.checks : route.checks[j].ask = "permission"}}

Entitled(route, rights) == Needs(route) \subseteq rights /\ \A ps \in PermissionsAsked(route) : ps \cap rights # {}

---------------------------------------------------------------------------
(* What carrying out a request does to the records above; for every other  *)
(* route, nothing of them.  q: the caller's token and the branch named.    *)

(* openRegister: one open register of a user in a branch. *)
OpenRegister(q) ==
  /\ \A i \in OpenOf(q.token.user) : registers[i].branch # q.branch
  /\ Len(registers) < MaxRegisters
  /\ registers' = Append(registers, [user |-> q.token.user, branch |-> q.branch, open |-> TRUE])
  /\ UNCHANGED <<users, shut>>

CloseRow(i) == registers' = [registers EXCEPT ![i].open = FALSE] /\ UNCHANGED <<users, shut>>

CloseRegister(q) == CloseRow(q.token.register)

(* closeRegisterFor: a register left open at the branch. *)
CloseRegisterFor(q) == \E i \in DOMAIN registers : registers[i].open /\ registers[i].branch = q.branch /\ CloseRow(i)

(* Sets fields of a user's row. *)
SetUser(u, row) == users' = [users EXCEPT ![u] = row] /\ UNCHANGED <<registers, shut>>

NewPassword(u, mustChange) ==
  /\ users[u].changes < MaxChanges
  /\ SetUser(u, [users[u] EXCEPT !.changes = @ + 1, !.mustChange = mustChange])

ChangePassword(q) == NewPassword(q.token.user, FALSE)

(* Turning a cashier off or on (setStaffActive keeps the only admin on). *)
SetStaffActive == \E u \in Cashiers : SetUser(u, [users[u] EXCEPT !.active = ~@])

(* updateUser, of a user whose primary branch is q's: turned off or on, permissions set, or a password reset. *)
UpdateUser(q) ==
  /\ q.branch = Home
  /\ \/ SetStaffActive
     \/ \E u \in Cashiers, ps \in Grants : SetUser(u, [users[u] EXCEPT !.permissions = ps])
     \/ \E u \in Users : NewPassword(u, u # q.token.user)

GrantUserBranchAccess(q) == \E u \in Cashiers : SetUser(u, [users[u] EXCEPT !.branches = @ \cup {q.branch}])

RevokeUserBranchAccess(q) ==
  q.branch # Home /\ \E u \in Cashiers : SetUser(u, [users[u] EXCEPT !.branches = @ \ {q.branch}])

Shut(value) == shut' = value /\ UNCHANGED <<users, registers>>

(* beginMove: refused while a register is open. *)
BeginMove == (\A i \in DOMAIN registers : ~registers[i].open) /\ Shut(TRUE)

Effect(q) ==
  CASE q.route.call = Post("/registers/open") -> OpenRegister(q)
    [] q.route.call = Post("/registers/close") -> CloseRegister(q)
    [] q.route.call = Post("/registers/:id/close") -> CloseRegisterFor(q)
    [] q.route.call = Post("/auth/change-password") -> ChangePassword(q)
    [] q.route.call = Post("/auth/recover") -> NewPassword(Owner, FALSE)
    [] q.route.call = Post("/accounts/staff-password") -> \E u \in Users : NewPassword(u, u # Owner)
    [] q.route.call = Post("/accounts/staff-active") -> SetStaffActive
    [] q.route.call = Patch("/users/:id") -> UpdateUser(q)
    [] q.route.call = Post("/users/:id/branches/:branchId") -> GrantUserBranchAccess(q)
    [] q.route.call = Delete("/users/:id/branches/:branchId") -> RevokeUserBranchAccess(q)
    [] q.route.call = Post("/migration/begin") -> BeginMove
    [] q.route.call = Post("/migration/abort") -> Shut(FALSE)
    [] q.route.call = Post("/billing/checkout") -> Shut(FALSE)   \* and the payment made there
    [] OTHER -> UNCHANGED rows

(* The token the answer brings: openRegister, closeRegister and changePassword sign a new one. *)
TokenAfter(q) ==
  CASE q.route.call = Post("/registers/open") -> SignToken(q.token.user, q.branch, Len(registers) + 1)
    [] q.route.call = Post("/registers/close") -> SignToken(q.token.user, None, None)
    [] q.route.call = Post("/auth/change-password") -> [q.token EXCEPT !.signed = users[q.token.user].changes + 1]
    [] OTHER -> q.token

---------------------------------------------------------------------------
(* The session followed, and the others.                                   *)

(* The branches a call can name. *)
Named(r) == IF \E i \in DOMAIN r.checks : r.checks[i] \in {Branch, Access, Drawer} THEN Branches ELSE {Home}

SignIn ==
  /\ request = NoRequest
  /\ \E u \in Users : users[u].active /\ token' = LoginToken(u)
  /\ UNCHANGED <<offline, rows, request, edits, held>>

Call ==
  /\ request = NoRequest /\ token # SignedOut
  /\ \E r \in Asked : \E b \in Named(r) : request' = [at |-> 0, route |-> r, branch |-> b, token |-> token]
  /\ held' = RightsNow(token, request'.branch)
  /\ UNCHANGED <<offline, rows, token, edits>>

InFlight == request # NoRequest
Checks == request.route.checks
NextCheck == Checks[request.at + 1]
Allowed == InFlight /\ request.at = Len(Checks)

(* The share lock of the open register is kept until the work is done. *)
PassCheck ==
  /\ InFlight /\ ~Allowed
  /\ Passes(NextCheck, request.route, token, request.branch)
  /\ request' = [request EXCEPT !.at = @ + 1]
  /\ UNCHANGED <<offline, rows, token, edits, held>>

TurnAway ==
  /\ InFlight /\ ~Allowed
  /\ ~Passes(NextCheck, request.route, token, request.branch)
  /\ request' = NoRequest /\ held' = {}
  /\ UNCHANGED <<offline, rows, token, edits>>

(* The handler does its work, or refuses for a reason of its own. *)
CarryOut ==
  /\ Allowed
  /\ \/ Effect(request) /\ token' = TokenAfter(request)
     \/ UNCHANGED <<rows, token>>
  /\ request' = NoRequest /\ held' = {}
  /\ UNCHANGED <<offline, edits>>

(* A register is share-locked from the check that it is open until the work is done. *)
Locked == InFlight /\ \E i \in 1..request.at : Checks[i] = Open

(* u, signed in anew, would get through to the call at branch b. *)
LetIn(r, u, b) == LET t == LoginToken(u) IN \A i \in DOMAIN r.checks : Passes(r.checks[i], r, t, b)

(* A whole request of another session. *)
Meanwhile ==
  /\ edits < MaxEdits /\ edits' = edits + 1
  /\ \E r \in Changing, u \in Users : \E b \in Named(r) :
       /\ users[u].active /\ LetIn(r, u, b)
       /\ Effect([route |-> r, branch |-> b, token |-> LoginToken(u)])
  /\ rows' # rows
  /\ Locked => registers'[token.register].open
  /\ UNCHANGED <<offline, token, request>>
  /\ held' = IF InFlight THEN held \cup RightsNow(token, request.branch)' ELSE held

(* Hosted: the paid time and its grace period are over. *)
SubscriptionEnds ==
  /\ ~offline /\ ~shut /\ shut' = TRUE
  /\ edits < MaxEdits /\ edits' = edits + 1
  /\ UNCHANGED <<offline, users, registers, token, request, held>>

AccessInit ==
  /\ offline \in BOOLEAN /\ shut = FALSE
  /\ users = [u \in Users |-> [active |-> TRUE, mustChange |-> FALSE, changes |-> 1, permissions |-> {},
                                branches |-> Branches]]
  /\ registers = <<>> /\ token = SignedOut /\ request = NoRequest /\ edits = 0 /\ held = {}

AccessNext == SignIn \/ Call \/ PassCheck \/ TurnAway \/ CarryOut \/ Meanwhile \/ SubscriptionEnds

AccessSpec == AccessInit /\ [][AccessNext]_accessVars

---------------------------------------------------------------------------
(* Properties.                                                             *)

(***************************************************************************)
(* RightsHeld: a request that gets through every check had, at some moment *)
(* since it arrived, everything its route asks of its caller by the        *)
(* business's records: an active user, a session no password change has    *)
(* ended, the access or the open register at the branch it names, one of   *)
(* the permissions asked, and a business that accepts changes.  The checks *)
(* are reads minutes of work may separate from the sign-in the token       *)
(* vouches for (AuthGuard, InstanceStatusGuard, AccessService).            *)
(***************************************************************************)
RightsHeld == Allowed => Entitled(request.route, held)

(***************************************************************************)
(* WaysOutOpen: whatever state the business is in, the routes that lead    *)
(* out of it are open: every call of the contract is served; a user told   *)
(* to choose a password can; a register left open can be closed, by its    *)
(* user or by an admin, unpaid or not; an unpaid business's admin can pay  *)
(* and one moving online can be brought back.  (A cashier whose branch     *)
(* access was taken away with a register open there can do nothing until   *)
(* an admin closes it: SignInAgainWorks.)                                  *)
(***************************************************************************)
Stranded(u) == \E i \in OpenOf(u) : registers[i].branch \notin users[u].branches

Serving(call) == {r \in Routes : r.call = call}
EveryCallServed == \A call \in appContract : Serving(call) # {}

Mine == Serving(Get("/auth/me"))
ChooseAPassword == Serving(Post("/auth/change-password"))
CloseForOthers == Serving(Post("/registers/:id/close"))
ComeBack == Serving(Post("/migration/abort"))
PayUp == Serving(Post("/billing/checkout"))

Reaches(u, routes, b) == \E r \in routes : LetIn(r, u, b)

WaysOutOpen ==
  /\ EveryCallServed
  /\ \A u \in Users : users[u].active /\ ~Stranded(u) => Reaches(u, ChooseAPassword, Home)
  /\ \A i \in DOMAIN registers : registers[i].open /\ ~offline /\ ~users[Owner].mustChange =>
       Reaches(Owner, CloseForOthers, registers[i].branch)
  /\ shut => Reaches(Owner, IF offline THEN ComeBack ELSE PayUp, Home)

(***************************************************************************)
(* SignInAgainWorks: an active user who has just signed in gets through to *)
(* their own session (GET /auth/me).  The guard's "Branch access was       *)
(* removed, please sign in again" promises it; the code breaks it, for     *)
(* login gives the token the branch of the register left open.             *)
(***************************************************************************)
SignInAgainWorks == \A u \in Users : users[u].active => Reaches(u, Mine, Home)
=============================================================================
