----------------------------- MODULE Registers -----------------------------
(***************************************************************************)
(* The registers of a branch: admins turn its counters on and off, users   *)
(* open a register on a counter, cash goes in and out of its drawer, and   *)
(* closing it works out the cash expected there                            *)
(* (apps/api/src/registers, counters, common/register-open.ts,             *)
(* common/counters.ts, expenses, suppliers, and the sales, returns and     *)
(* top-ups that take or give cash).                                        *)
(*                                                                         *)
(* A request is a database transaction at READ COMMITTED: it takes its     *)
(* locks, checks, and commits what it wrote.  Opening a register and       *)
(* changing a counter lock the branch; moving cash share-locks the         *)
(* register's row, and closing it locks the row for itself.  A request     *)
(* that read nothing before its first lock starts with that lock here.     *)
(***************************************************************************)
EXTENDS Integers, FiniteSets

CONSTANTS
  Counters,
  Users,
  Registers,  \* the ids of the registers that may be opened
  Calls,      \* the requests that may be under way at once
  MaxCash     \* bound: what a drawer may hold, or be short by, or
              \* have paid in expenses

ASSUME RegistersAssumption == MaxCash \in Nat

VARIABLES
  active,     \* Counter.isActive
  registers,  \* the RegisterSession rows, with the cash rows that name each
  requests,   \* the requests under way
  stale,      \* history: a counter in use was turned off on a stale read
  unheld      \* history: registers whose drawer gave out past what was checked

registersVars == <<active, registers, requests, stale, unheld>>

NoRegister == [user |-> "none", counter |-> "none", open |-> FALSE,
               cash |-> 0, expenses |-> 0, expected |-> 0]

\* `cash` is what registerCash adds up: the opening balance and every row of cash
\* in or out of the drawer, of which `expenses` is what its expense rows took.
RegisterRows == [user : Users, counter : Counters, open : BOOLEAN,
                 cash : -MaxCash .. MaxCash, expenses : 0 .. MaxCash,
                 expected : -MaxCash .. MaxCash]

\* Ways cash moves: payments, top-ups and cash put in ("in"); refunds and
\* supplier payments ("give"); cash taken out ("out") and expenses ("expense"),
\* which the drawer must hold; and an expense removed ("remove").
Moves == {"in", "give", "out", "expense", "remove"}

NoCall == [op |-> "none"]

CallForms ==
  {NoCall}
  \cup [op : {"open"}, user : Users, counter : Counters, locked : {TRUE}]
  \cup [op : {"turn"}, counter : Counters, on : BOOLEAN, saw : BOOLEAN, locked : BOOLEAN]
  \cup [op : {"close"}, register : Registers, cash : -MaxCash .. MaxCash, locked : {TRUE}]
  \cup [op : Moves, register : Registers, amount : 1 .. MaxCash, locked : {TRUE}]

RegistersTypes ==
  /\ active \in [Counters -> BOOLEAN]
  /\ registers \in [Registers -> RegisterRows \cup {NoRegister}]
  /\ requests \in [Calls -> CallForms]
  /\ stale \in BOOLEAN
  /\ unheld \subseteq Registers

\* A branch starts with one active counter and a few that are not.
RegistersInit ==
  /\ active \in {f \in [Counters -> BOOLEAN] : \E c \in Counters : f[c]}
  /\ registers = [g \in Registers |-> NoRegister]
  /\ requests = [r \in Calls |-> NoCall]
  /\ stale = FALSE
  /\ unheld = {}

-----------------------------------------------------------------------------
Open(g) == registers[g].open

OpenOn(c) == {g \in Registers : Open(g) /\ registers[g].counter = c}

OpenOf(u) == {g \in Registers : Open(g) /\ registers[g].user = u}

Done(r) == requests' = [requests EXCEPT ![r] = NoCall]

Locked(r) == requests[r] # NoCall /\ requests[r].locked

\* The requests that hold the branch's lock, and those that hold register `g`.
BranchHolders == {r \in Calls : requests[r].op \in {"open", "turn"} /\ Locked(r)}

Sharing(g) ==
  {r \in Calls : requests[r].op \in Moves /\ Locked(r) /\ requests[r].register = g}

Closing(g) ==
  {r \in Calls : requests[r].op = "close" /\ Locked(r) /\ requests[r].register = g}

Begins(r, request) ==
  /\ requests[r] = NoCall
  /\ requests' = [requests EXCEPT ![r] = request]
  /\ UNCHANGED <<active, registers, stale, unheld>>

-----------------------------------------------------------------------------
(* Opening a register, and turning a counter on or off.                    *)

\* Mutant of MayOpen: whoever has a register open may open another.
MayOpenAnother(u, c) == active[c] /\ OpenOn(c) = {}

\* One open register per user of the branch, and per counter.
MayOpen(u, c) == active[c] /\ OpenOf(u) = {} /\ OpenOn(c) = {}

\* Turning a counter off that was on when it was read: nobody may have it open,
\* and another must stay on.
MayTurn(q) ==
  ~q.on /\ q.saw => OpenOn(q.counter) = {} /\ \E c \in Counters \ {q.counter} : active[c]

\* Mutant of BranchFree: only changing a counter locks the branch.
BranchFreeToOpen(op) == op = "open" \/ BranchHolders = {}

\* One request at a time has the branch's lock, until it ends.
BranchFree(op) == BranchHolders = {}

LockToOpen(r, u, c) ==
  /\ BranchFree("open")
  /\ MayOpen(u, c)
  /\ Begins(r, [op |-> "open", user |-> u, counter |-> c, locked |-> TRUE])

\* updateCounter reads the counter before its transaction locks the branch.
ReadCounter(r, c, on) ==
  Begins(r, [op |-> "turn", counter |-> c, on |-> on, saw |-> active[c], locked |-> FALSE])

LockToTurn(r) ==
  /\ requests[r].op = "turn" /\ ~Locked(r)
  /\ BranchFree("turn")
  /\ MayTurn(requests[r])
  /\ requests' = [requests EXCEPT ![r].locked = TRUE]
  /\ UNCHANGED <<active, registers, stale, unheld>>

OpenRegister(r) ==
  /\ requests[r].op = "open" /\ Locked(r)
  /\ \E g \in Registers, opening \in 0 .. MaxCash :
       /\ registers[g] = NoRegister
       /\ registers' = [registers EXCEPT ![g] =
            [user |-> requests[r].user, counter |-> requests[r].counter, open |-> TRUE,
             cash |-> opening, expenses |-> 0, expected |-> 0]]
  /\ Done(r)
  /\ UNCHANGED <<active, stale, unheld>>

UpdateCounter(r) ==
  LET q == requests[r]
  IN /\ q.op = "turn" /\ Locked(r)
     /\ active' = [active EXCEPT ![q.counter] = q.on]
     /\ stale' = (stale \/ (~q.on /\ ~q.saw /\ active[q.counter]))
     /\ Done(r)
     /\ UNCHANGED <<registers, unheld>>

-----------------------------------------------------------------------------
(* Cash in and out of a drawer, and closing its register.                  *)

\* Mutant of DrawerHolds: what expenses took is not counted.
DrawerHeld(g, amount) == amount <= registers[g].cash + registers[g].expenses

\* Cash may be taken out only if it is expected to be in the drawer.
DrawerHolds(g, amount) == amount <= registers[g].cash

\* assertRegisterOpen: waits for a close under way, then wants it open still.
MayShare(g) == Closing(g) = {} /\ Open(g)

ShareRegister(r, op, g, amount) ==
  /\ MayShare(g)
  /\ op \in {"out", "expense"} => DrawerHolds(g, amount)
  /\ Begins(r, [op |-> op, register |-> g, amount |-> amount, locked |-> TRUE])

\* Who else is about to take cash from the drawer, having seen what is there.
Taking(g, r) == {q \in Sharing(g) \ {r} : requests[q].op \in {"out", "expense", "give"}}

\* What a move adds to the drawer.
Change(q) == IF q.op \in {"in", "remove"} THEN q.amount ELSE -q.amount

MoveCash(r) ==
  LET q == requests[r]
      g == registers[q.register]
      after == g.cash + Change(q)
      spent == g.expenses + (CASE q.op = "expense" -> q.amount
                               [] q.op = "remove" -> -q.amount
                               [] OTHER -> 0)
  IN /\ q.op \in Moves /\ Locked(r)
     /\ after \in -MaxCash .. MaxCash /\ spent \in 0 .. MaxCash
     /\ registers' = [registers EXCEPT
          ![q.register].cash = after,
          ![q.register].expenses = spent]
     /\ unheld' = IF \/ q.op \in {"out", "expense", "give"} /\ Taking(q.register, r) # {}
                     \/ q.op = "give" /\ after < 0
                  THEN unheld \union {q.register} ELSE unheld
     /\ Done(r)
     /\ UNCHANGED <<active, stale>>

\* Mutant of MayClose: closing does not wait for cash on its way.
MayCloseAtOnce(g) == Open(g)

MayClose(g) == Sharing(g) = {} /\ Closing(g) = {} /\ Open(g)

\* Mutant of CountCash: expenses are taken off twice.
CountCashLessExpenses(r, g) ==
  /\ MayClose(g)
  /\ Begins(r, [op |-> "close", register |-> g,
                cash |-> registers[g].cash - registers[g].expenses, locked |-> TRUE])

\* Closing locks the register's row for itself, then adds up its cash.
CountCash(r, g) ==
  /\ MayClose(g)
  /\ Begins(r, [op |-> "close", register |-> g, cash |-> registers[g].cash, locked |-> TRUE])

CloseRegister(r) ==
  LET q == requests[r]
  IN /\ q.op = "close" /\ Locked(r)
     /\ registers' = [registers EXCEPT ![q.register].open = FALSE,
                                       ![q.register].expected = q.cash]
     /\ Done(r)
     /\ UNCHANGED <<active, stale, unheld>>

\* A request is refused, or fails, and leaves nothing behind.
Abort(r) ==
  /\ requests[r] # NoCall
  /\ Done(r)
  /\ UNCHANGED <<active, registers, stale, unheld>>

RegistersNext ==
  \E r \in Calls :
    \/ \E u \in Users, c \in Counters : LockToOpen(r, u, c)
    \/ \E c \in Counters, on \in BOOLEAN : ReadCounter(r, c, on)
    \/ LockToTurn(r)
    \/ OpenRegister(r) \/ UpdateCounter(r)
    \/ \E op \in Moves, g \in Registers, amount \in 1 .. MaxCash : ShareRegister(r, op, g, amount)
    \/ MoveCash(r)
    \/ \E g \in Registers : CountCash(r, g)
    \/ CloseRegister(r)
    \/ Abort(r)

RegistersSpec == RegistersInit /\ [][RegistersNext]_registersVars

-----------------------------------------------------------------------------
(* Properties.                                                             *)

\* No counter has two open registers, and no user two in the branch
\* (registers.service.ts openRegister).
OneRegisterEach ==
  \A g, h \in Registers :
    Open(g) /\ Open(h) /\ g # h
      => /\ registers[g].counter # registers[h].counter
         /\ registers[g].user # registers[h].user

\* "Opening a register and deactivating a counter both take it, so neither can
\* race the other" (common/counters.ts:7): nobody is left selling on a counter
\* that is off.
OpenOnActiveCounter == \A g \in Registers : Open(g) => active[registers[g].counter]

\* Only a change that read the counter as off before it locked the branch turns
\* off one that is open, or the last one (counters.service.ts updateCounter).
CountersHoldUnlessStale ==
  stale \/ (OpenOnActiveCounter /\ \E c \in Counters : active[c])

\* What was counted at the close stays what the register's rows add up to: no
\* cash lands on it later, and none on its way is missed (register-open.ts).
ClosedCashStands ==
  \A g \in Registers : registers[g] # NoRegister /\ ~Open(g)
                       => registers[g].cash = registers[g].expected

\* A drawer is short only where requests that take cash overlapped, or a refund
\* or a supplier's payment took more than it held: one cash-out or expense alone
\* never does (expenses.service.ts assertDrawerHolds).
ShortOnlyUnheld == \A g \in Registers : registers[g].cash < 0 => g \in unheld
=============================================================================
