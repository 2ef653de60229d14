--------------------------- MODULE TenantClients ---------------------------
(***************************************************************************)
(* The hosted server's database clients: one per business, at most         *)
(* MaxClients of them, kept for the businesses used most recently          *)
(* (apps/api/src/tenancy/tenant-clients.ts).  A request acquires its       *)
(* business's client, works with it, and lets it go when its response      *)
(* closes (tenant-context.ts, app-config.ts); work outside a request (a    *)
(* script, an import, erasing a business) lets it go when it is done.      *)
(*                                                                         *)
(* The server is one event loop: a step is what runs between two awaits.   *)
(* A waiter whose promise was resolved looks again in a later step, and    *)
(* others may run before it does.                                          *)
(***************************************************************************)
EXTENDS Naturals, FiniteSets, Sequences, SequencesExt

CONSTANTS
  Businesses,
  Requests,    \* whoever acquires a client
  Jobs,        \* those of Requests that are work outside a request
  MaxClients,  \* TENANT_CLIENT_CACHE
  MaxWaiting,  \* bound: the longest `waiting` may grow
  Aborts       \* TRUE: a caller may go away before it is answered

\* In `waiting`, a `done` whose promise was already resolved by its timer.
TimedOut == "timed out"

ASSUME TenantClientsAssumption ==
  /\ IsFiniteSet(Requests) /\ TimedOut \notin Requests
  /\ Jobs \subseteq Requests
  /\ MaxClients \in Nat \ {0} /\ MaxWaiting \in Nat
  /\ Aborts \in BOOLEAN

VARIABLES
  kept,     \* TenantClients.clients: the businesses with a client, least recent first
  active,   \* each kept client's `active`
  waiting,  \* TenantClients.waiting: whose `done` is called next
  work,     \* the requests
  wasted    \* history: a wake was given to one that no longer needed it

vars == <<kept, active, waiting, work, wasted>>

\* No request, or one that is over.
NoWork == [at |-> "none", business |-> "none", release |-> FALSE,
           closed |-> FALSE, late |-> FALSE]

Stages == {"asking", "waiting", "woken", "working", "answered", "refused"}

\* A request: `release` is what the response's close calls (TenantStore.release),
\* `closed` that it did close, `late` that its 15 seconds are over.
Works == [at : Stages, business : Businesses, release : BOOLEAN,
          closed : BOOLEAN, late : BOOLEAN]

TypeOK ==
  /\ kept \in Seq(Businesses) /\ IsInjective(kept)
  /\ active \in [Businesses -> 0 .. Cardinality(Requests)]
  /\ waiting \in Seq(Requests \cup {TimedOut}) /\ Len(waiting) <= MaxWaiting
  /\ \A r \in Requests : work[r] = NoWork \/ work[r] \in Works
  /\ wasted \in BOOLEAN

Init ==
  /\ kept = << >>
  /\ active = [b \in Businesses |-> 0]
  /\ waiting = << >>
  /\ work = [r \in Requests |-> NoWork]
  /\ wasted = FALSE

-----------------------------------------------------------------------------
Kept(b) == Contains(kept, b)

\* Mutant of IdleClients: any client but the newest may be dropped.
AnyButTheNewest == {i \in DOMAIN kept : i # Len(kept) \/ active[kept[i]] = 0}

IdleClients == {i \in DOMAIN kept : active[kept[i]] = 0}

\* A client may be made: there is room, or an idle one to drop for it.
Free == Len(kept) < MaxClients \/ IdleClients # {}

PlaceOf(b) == {i \in DOMAIN kept : kept[i] = b}
LeastRecentIdle == {i \in IdleClients : \A j \in IdleClients : i <= j}
Dropping(places) == {RemoveAt(kept, i) : i \in places}

\* What is kept once there is room for `b` to go last: its own client taken out, or for a new one
\* the least recent idle one dropped.
WithRoom(b) ==
  IF Kept(b) THEN Dropping(PlaceOf(b))
  ELSE IF Len(kept) < MaxClients THEN {kept} ELSE Dropping(LeastRecentIdle)

\* Calling the first `done` of `queue`, after which `w` is what the requests do.
Woken(queue, w) ==
  IF queue = << >> \/ Head(queue) = TimedOut
  THEN w
  ELSE [w EXCEPT ![Head(queue)].at = "woken"]

Shifted(queue) == IF queue = << >> THEN queue ELSE Tail(queue)

\* A wake nobody takes: the `done` is one whose timer already went off.
Lost(queue) == queue # << >> /\ Head(queue) = TimedOut

\* Mutant of LastUser: looks before it counts itself out.
LastUserBefore(b) == active[b] = 0

\* Whether letting go of `b` leaves its client idle.
LastUser(b) == active[b] = 1

-----------------------------------------------------------------------------
(* Acquiring a client.                                                     *)

\* A request comes in; its business's details may have to be read first.  The
\* bound leaves room in `waiting` for everyone that may still get there.
Arrive(r, b) ==
  /\ work[r] = NoWork
  /\ Len(waiting) + Cardinality({q \in Requests : work[q].at \in {"asking", "woken"}})
       < MaxWaiting
  /\ work' = [work EXCEPT ![r] = [NoWork EXCEPT !.at = "asking", !.business = b]]
  /\ UNCHANGED <<kept, active, waiting, wasted>>

Looking(r) == work[r].at \in {"asking", "woken"}

\* Mutant of Acquire: one that was woken takes what it was woken for, without
\* looking whether it is still there.
AcquireOnWake(r) ==
  LET b == work[r].business
  IN /\ Looking(r)
     /\ Kept(b) \/ Free \/ work[r].at = "woken"
     /\ \E rest \in (IF Kept(b) \/ Free THEN WithRoom(b) ELSE {kept}) : kept' = Append(rest, b)
     /\ active' = [active EXCEPT ![b] = @ + 1]
     /\ work' = [work EXCEPT ![r].at = "working", ![r].release = r \notin Jobs]
     /\ UNCHANGED <<waiting, wasted>>

\* It gets its business's client, or a new one, which goes last; a request keeps
\* the release for its response's close, even one that closed already.
Acquire(r) ==
  LET b == work[r].business
  IN /\ Looking(r)
     /\ Kept(b) \/ Free
     /\ \E rest \in WithRoom(b) : kept' = Append(rest, b)
     /\ active' = [active EXCEPT ![b] = @ + 1]
     /\ work' = [work EXCEPT ![r].at = "working", ![r].release = r \notin Jobs]
     /\ wasted' = (wasted \/ (Kept(b) /\ work[r].at = "woken" /\ ~work[r].late))
     /\ UNCHANGED waiting

\* Every client is busy: it waits for one to come free, or until its time is up.
Wait(r) ==
  /\ Looking(r)
  /\ ~Kept(work[r].business) /\ ~Free
  /\ ~work[r].late
  /\ work' = [work EXCEPT ![r].at = "waiting"]
  /\ waiting' = Append(waiting, r)
  /\ UNCHANGED <<kept, active, wasted>>

\* Mutant of Deadline: its `done` still answers to a later release.
DeadlineStays(r) ==
  /\ work[r].at = "waiting"
  /\ work' = [work EXCEPT ![r].at = "woken", ![r].late = TRUE]
  /\ UNCHANGED <<kept, active, waiting, wasted>>

\* Its time is up: the timer calls its `done`, which stays in `waiting`.
Deadline(r) ==
  /\ work[r].at = "waiting"
  /\ work' = [work EXCEPT ![r].at = "woken", ![r].late = TRUE]
  /\ waiting' = [i \in DOMAIN waiting |-> IF waiting[i] = r THEN TimedOut ELSE waiting[i]]
  /\ UNCHANGED <<kept, active, wasted>>

\* Still no client when its time is up: "The server is busy".
Refuse(r) ==
  /\ Looking(r)
  /\ ~Kept(work[r].business) /\ ~Free
  /\ work[r].late
  /\ work' = [work EXCEPT ![r] = IF r \in Jobs \/ @.closed THEN NoWork
                                  ELSE [@ EXCEPT !.at = "refused"]]
  /\ UNCHANGED <<kept, active, waiting, wasted>>

-----------------------------------------------------------------------------
(* Letting it go.                                                          *)

\* `release` called for `b`: once nobody uses its client, the first in line is
\* woken.  `w` is what the requests do otherwise.
Release(b, w) ==
  /\ active' = [active EXCEPT ![b] = @ - 1]
  /\ IF LastUser(b)
     THEN /\ waiting' = Shifted(waiting)
          /\ work' = Woken(waiting, w)
          /\ wasted' = (wasted \/ Lost(waiting))
     ELSE /\ work' = w
          /\ UNCHANGED <<waiting, wasted>>

\* The handler is done and its response ends.
Finish(r) ==
  /\ work[r].at = "working" /\ r \notin Jobs
  /\ work' = [work EXCEPT ![r] = IF @.closed THEN NoWork ELSE [@ EXCEPT !.at = "answered"]]
  /\ UNCHANGED <<kept, active, waiting, wasted>>

\* A response closes: once it was answered, or because the caller went away.
Close(r) ==
  LET over == [work EXCEPT ![r] =
                 IF @.at \in {"answered", "refused"} THEN NoWork
                 ELSE [@ EXCEPT !.closed = TRUE, !.release = FALSE]]
  IN /\ r \notin Jobs /\ work[r] # NoWork /\ ~work[r].closed
     /\ Aborts \/ work[r].at \in {"answered", "refused"}
     /\ IF work[r].release
        THEN Release(work[r].business, over)
        ELSE work' = over /\ UNCHANGED <<active, waiting, wasted>>
     /\ UNCHANGED kept

\* Mutant of FinishJob: a job that fails lets go of nothing (no `finally`).
FinishJobFailing(r) ==
  /\ r \in Jobs /\ work[r].at = "working"
  /\ work' = [work EXCEPT ![r] = NoWork]
  /\ UNCHANGED <<kept, active, waiting, wasted>>

\* Work outside a request lets go when it is done.
FinishJob(r) ==
  /\ r \in Jobs /\ work[r].at = "working"
  /\ Release(work[r].business, [work EXCEPT ![r] = NoWork])
  /\ UNCHANGED kept

\* Erasing a business: its client is let go, then forgotten if nobody else uses
\* it, which leaves room for one more.
FinishErasing(r) ==
  LET b == work[r].business
      rest == Shifted(waiting)
  IN /\ r \in Jobs /\ work[r].at = "working"
     /\ IF LastUser(b)
        THEN /\ active' = [active EXCEPT ![b] = 0]
             /\ kept' \in Dropping(PlaceOf(b))
             /\ waiting' = Shifted(rest)
             /\ work' = Woken(rest, Woken(waiting, [work EXCEPT ![r] = NoWork]))
             /\ wasted' = (wasted \/ Lost(waiting) \/ Lost(rest))
        ELSE /\ Release(b, [work EXCEPT ![r] = NoWork])
             /\ UNCHANGED kept

Next ==
  \E r \in Requests :
    \/ \E b \in Businesses : Arrive(r, b)
    \/ Acquire(r)
    \/ Wait(r)
    \/ Deadline(r)
    \/ Refuse(r)
    \/ Finish(r)
    \/ Close(r)
    \/ FinishJob(r)
    \/ FinishErasing(r)

Spec == Init /\ [][Next]_vars

-----------------------------------------------------------------------------
(* Properties.                                                             *)

\* No more clients are open than the database has connections for, however many
\* woken waiters look at the same free place (tenant-clients.ts:19-22), and a
\* business has one of them only; and making room never drops a client under a
\* request that is working with it, "so a sale is never cut off mid-transaction"
\* (tenant-clients.ts:23).
AtMostMaxClients ==
  /\ TypeOK
  /\ Len(kept) <= MaxClients
  /\ \A r \in Requests : work[r].at = "working" => Kept(work[r].business)

\* Every use a client counts is one that will be let go: by a response still to
\* close, or by the end of a job.  A count nobody takes back would keep the
\* client busy for ever (tenant-clients.ts:22).
EveryUseIsLetGo ==
  \A b \in Businesses :
    active[b] = Cardinality({r \in Requests :
                  /\ work[r].business = b
                  /\ \/ work[r].release /\ ~work[r].closed
                     \/ r \in Jobs /\ work[r].at = "working"})

\* A request waits only while every client is busy: beside a free place one is
\* already on its way to take it, unless a wake was wasted on a request whose
\* time was up or whose own client had come back (tenant-clients.ts:84, 96).
FreeMeansWoken ==
  (Free /\ \E r \in Requests : work[r].at = "waiting")
     => wasted \/ \E r \in Requests : work[r].at = "woken"
=============================================================================
