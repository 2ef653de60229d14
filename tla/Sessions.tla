------------------------------ MODULE Sessions ------------------------------
(***************************************************************************)
(* Signing in and changing passwords, for one staff user.  Requests read  *)
(* the user, spend a while hashing, then write or sign a token; the guard  *)
(* checks every later request against the row.  A password is known by     *)
(* its number.  The clock counts what happens; a token's signing time and  *)
(* a password's change time are compared, in milliseconds.                 *)
(***************************************************************************)
EXTENDS Integers, FiniteSets

CONSTANTS
    Calls,    \* requests under way at once
    MaxClock  \* bound: things that happen

VARIABLES
    clock,
    user,     \* role, password, passwordChangedAt, isActive, mustChangePassword
    recovery, \* the recovery code that works now
    access,   \* the user may work at the branch (UserBranchAccess)
    register, \* the user's register is open
    tokens,   \* sessions signed: when, with which password, when their request began, what they hold
    requests  \* each request: what it is, when it began, what it read

sessionVars == <<clock, user, recovery, access, register, tokens, requests>>

NoRequest == [what |-> "none"]
FreeSlot(r) == requests[r] = NoRequest
Now == clock + 1
Passes(n) == clock < MaxClock /\ clock' = n

SessionsInit ==
    /\ clock = 0
    /\ user \in [cashier : BOOLEAN, password : {0}, changedAt : {0}, active : {TRUE}, mustChange : {FALSE}]
    /\ recovery = 0 /\ access = TRUE /\ register = FALSE
    /\ tokens = {}
    /\ requests = [r \in Calls |-> NoRequest]

\* Mutant of SignedBefore: as if no change had a time.
NeverBefore(at) == FALSE

SignedBefore(at) == at < user.changedAt

\* What the guard lets through: the user active, the token not older than the password, and the
\* branch and register it names still the user's.
Valid(t) ==
    /\ user.active /\ ~SignedBefore(t.at)
    /\ "branch" \in t.holds => access
    /\ "register" \in t.holds => register

\* Someone who must choose a new password first may do only that.
GuardAccepts(t) == Valid(t) /\ ~user.mustChange

Start(r, what, token) ==
    /\ FreeSlot(r) /\ Passes(Now)
    /\ requests' = [requests EXCEPT ![r] = [what |-> what, from |-> Now, read |-> user.password, token |-> token]]
    /\ UNCHANGED <<user, recovery, access, register, tokens>>

RequestEnds(r) == requests' = [requests EXCEPT ![r] = NoRequest]

\* login: the password is right and the user active when read; the token names the open register.
AskSignIn(r) == user.active /\ Start(r, "signIn", NoRequest)

Sign(r, with, holds) == tokens' = tokens \cup {[at |-> Now, with |-> with, from |-> requests[r].from, holds |-> holds]}

SignIn(r) ==
    /\ requests[r].what = "signIn" /\ Passes(Now)
    /\ Sign(r, requests[r].read, IF register THEN {"branch", "register"} ELSE {})
    /\ RequestEnds(r)
    /\ UNCHANGED <<user, recovery, access, register>>

\* A new password ends the sessions signed before it; the next number stands for it.
NewPassword(mustChange, isActive) ==
    user' = [user EXCEPT !.password = @ + 1, !.changedAt = Now, !.active = isActive, !.mustChange = mustChange]

\* The user's own: their current password is checked, later the new one written, then a token signed.
AskChange(r) == \E t \in tokens : Valid(t) /\ Start(r, "change", t)

ChangePassword(r) ==
    /\ requests[r].what = "change" /\ Passes(Now)
    /\ NewPassword(FALSE, user.active)
    /\ requests' = [requests EXCEPT ![r].what = "changed", ![r].read = user.password + 1]
    /\ UNCHANGED <<recovery, access, register, tokens>>

Changed(r) ==
    /\ requests[r].what = "changed" /\ Passes(Now)
    /\ Sign(r, requests[r].read, requests[r].token.holds)
    /\ RequestEnds(r)
    /\ UNCHANGED <<user, recovery, access, register>>

\* Reset by an admin (a cashier then chooses their own) or by the business's owner, who also
\* turns an admin back on.
ResetPassword ==
    /\ Passes(Now)
    /\ NewPassword(user.cashier, user.active \/ ~user.cashier)
    /\ UNCHANGED <<recovery, access, register, tokens, requests>>

\* Offline, an admin's forgotten password: the code is checked, later everything written at once.
AskRecover(r) == ~user.cashier /\ Start(r, "recover", NoRequest)

Recover(r) ==
    /\ requests[r].what = "recover" /\ Passes(Now)
    /\ NewPassword(FALSE, TRUE)
    /\ recovery' = recovery + 1
    /\ RequestEnds(r)
    /\ UNCHANGED <<access, register, tokens>>

\* An owner turns staff off and on (never the last admin), as admins do their cashiers.
SetActive ==
    /\ user.cashier /\ Passes(Now)
    /\ user' = [user EXCEPT !.active = ~@]
    /\ UNCHANGED <<recovery, access, register, tokens, requests>>

\* A cashier's access to a branch, other than their own, is given or taken.
SetAccess ==
    /\ user.cashier /\ Passes(Now)
    /\ access' = ~access
    /\ UNCHANGED <<user, recovery, register, tokens, requests>>

\* Opening a register answers a token for it; closing it a token for no register, unless an admin
\* closes it, who has none to give.
OpenRegister ==
    /\ ~register /\ access /\ Passes(Now)
    /\ \E t \in tokens : /\ GuardAccepts(t)
                         /\ tokens' = tokens \cup {[t EXCEPT !.at = Now, !.holds = {"branch", "register"}]}
    /\ register' = TRUE
    /\ UNCHANGED <<user, recovery, access, requests>>

CloseRegister ==
    /\ register /\ Passes(Now)
    /\ register' = FALSE
    /\ \/ \E t \in tokens : /\ GuardAccepts(t) /\ "register" \in t.holds
                            /\ tokens' = tokens \cup {[t EXCEPT !.at = Now, !.holds = {}]}
       \/ UNCHANGED tokens
    /\ UNCHANGED <<user, recovery, access, requests>>

SessionsNext ==
    \/ \E r \in Calls : AskSignIn(r) \/ SignIn(r) \/ AskChange(r) \/ ChangePassword(r) \/ Changed(r)
                           \/ AskRecover(r) \/ Recover(r)
    \/ ResetPassword \/ SetActive \/ SetAccess \/ OpenRegister \/ CloseRegister

SessionsSpec == SessionsInit /\ [][SessionsNext]_sessionVars

-----------------------------------------------------------------------------
\* A session the guard still accepts was made with the password that works now, unless its
\* sign-in was under way while the password changed; and no session outlives the user's being
\* active, their branch access or their register.
SessionsEnd ==
    \A t \in tokens : GuardAccepts(t) =>
        /\ t.with = user.password \/ user.changedAt \in t.from .. t.at
        /\ user.active
        /\ t.holds # {} => access /\ register
=============================================================================
