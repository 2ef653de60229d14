---------------------------- MODULE HostingProofs ----------------------------
(***************************************************************************)
(* Theorems about four parts of the hosted server, for every set of        *)
(* owners, processes, requests, payments and clients: erasing a business   *)
(* (Deletion), ending sessions (Sessions), paying and reminding (Billing), *)
(* and the businesses' database clients (TenantClients, the last while no  *)
(* caller goes away before its answer: Aborts = FALSE; the run             *)
(* server_abort shows what happens when one does).                         *)
(***************************************************************************)
EXTENDS Deletion, Sessions, Billing, TenantClients, FiniteSetTheorems, SequenceTheorems, TLAPS

-----------------------------------------------------------------------------
(* Deletion.                                                               *)

Statuses == {"ACTIVE", "SUSPENDED", "DELETING", "DELETED"}
RoundStages == {"idle", "due", "claimed", "dropped", "dropped, owners gone", "telling"}

\* A round that claimed the business, and one that dropped its data.
HasClaimed(p) == rounds[p].at \notin {"idle", "due"}
HasDropped(p) == rounds[p].at \notin {"idle", "due", "claimed"}

RowType == [status : Statuses, before : {"ACTIVE", "SUSPENDED", Nobody}, after : Int, erased : BOOLEAN, owned : BOOLEAN]

DeletionTypes ==
    /\ today \in Nat
    /\ row \in RowType
    /\ codes \in [Owners -> Int]
    /\ asking \in [Owners -> {"ACTIVE", "SUSPENDED", Nobody}]
    /\ rounds \in [Erasers -> [at : RoundStages, day : Nat]]
    /\ data \in BOOLEAN
    /\ promised \in Int

\* While a request is between its checks and its write no day passes, so whoever asked meanwhile
\* has a whole grace period ahead.
AskedInTime ==
    \A o \in Owners : asking[o] # Nobody =>
        /\ row.status # "DELETED"
        /\ row.status = "DELETING" => row.after > today

\* What a round does rests on what it claimed.
RoundsSound ==
    \A p \in Erasers :
        /\ rounds[p].day <= today
        /\ HasClaimed(p) => row.status = "DELETED"
        /\ HasDropped(p) => ~data

RowSound ==
    /\ row.status = "DELETING" => promised = row.after
    /\ row.status = "DELETED" => promised <= today
    /\ row.status # "DELETED" => data /\ row.owned
    /\ row.erased => ~data

DeletionInv == DeletionTypes /\ AskedInTime /\ RoundsSound /\ RowSound

LEMMA DeletionStarts == DeletionInit => DeletionInv
<1> SUFFICES ASSUME DeletionInit PROVE DeletionInv
  OBVIOUS
<1>1. DeletionTypes
  BY DeletionAssumption DEF DeletionAssumption, DeletionInit, DeletionTypes, RowType, Statuses, RoundStages, NoCode, Nobody, NoRound
<1>2. AskedInTime /\ RoundsSound /\ RowSound
  BY DEF DeletionInit, AskedInTime, RoundsSound, RowSound, HasClaimed, HasDropped, NoRound, Nobody
<1>3. QED
  BY <1>1, <1>2 DEF DeletionInv

\* A round's step changes its own stage only.
LEMMA RoundMoves ==
    ASSUME DeletionTypes, NEW p \in Erasers, NEW at \in RoundStages, RoundAt(p, at)
    PROVE  /\ rounds' \in [Erasers -> [at : RoundStages, day : Nat]]
           /\ \A q \in Erasers : /\ rounds'[q].day = rounds[q].day
                                 /\ rounds'[q].at = IF q = p THEN at ELSE rounds[q].at
BY DEF DeletionTypes, RoundAt

\* A write of the row's lock keeps the rest of the row.
LEMMA RowLocked ==
    ASSUME row \in RowType, NEW status \in Statuses, NEW before \in {"ACTIVE", "SUSPENDED", Nobody}, NEW after \in Int,
           row' = [row EXCEPT !.status = status, !.before = before, !.after = after]
    PROVE  /\ row' \in RowType /\ row'.status = status /\ row'.after = after
           /\ row'.erased = row.erased /\ row'.owned = row.owned
BY DEF RowType

LEMMA DeletionKept == DeletionInv /\ [DeletionNext]_deletionVars => DeletionInv'
<1> SUFFICES ASSUME DeletionInv, [DeletionNext]_deletionVars PROVE DeletionInv'
  OBVIOUS
<1> USE DEF Nobody
<1>0. DeletionGrace \in Nat \ {0}
  BY DeletionAssumption DEF DeletionAssumption
<1>t. DeletionTypes /\ AskedInTime /\ RoundsSound /\ RowSound
  BY DEF DeletionInv
<1>1. CASE DeletionDay
  <2>1. row' \in RowType
    BY <1>0, <1>t, <1>1 DEF DeletionDay, DeletionTypes, RowType, Statuses
  <2>2. DeletionTypes'
    BY <1>0, <1>t, <1>1, <2>1 DEF DeletionDay, DeletionTypes
  <2>3. AskedInTime'
    BY <1>0, <1>t, <1>1 DEF DeletionDay, DeletionTypes, AskedInTime, RoundsSound, HasClaimed, HasDropped, RowType
  <2>4. RoundsSound'
    BY <1>0, <1>t, <1>1 DEF DeletionDay, DeletionTypes, AskedInTime, RoundsSound, HasClaimed, HasDropped, RowType
  <2>5. RowSound'
    BY <1>0, <1>t, <1>1 DEF DeletionDay, DeletionTypes, AskedInTime, RoundsSound, HasClaimed, HasDropped, RowSound, RowType
  <2>6. QED
    BY <2>2, <2>3, <2>4, <2>5 DEF DeletionInv
<1>2. CASE Suspend
  <2>1. row' \in RowType
    BY <1>0, <1>t, <1>2 DEF Suspend, DeletionTypes, RowType, Statuses
  <2>2. DeletionTypes'
    BY <1>0, <1>t, <1>2, <2>1 DEF Suspend, DeletionTypes
  <2>3. AskedInTime'
    BY <1>0, <1>t, <1>2 DEF Suspend, DeletionTypes, AskedInTime, RoundsSound, HasClaimed, HasDropped, RowType
  <2>4. RoundsSound'
    BY <1>0, <1>t, <1>2 DEF Suspend, DeletionTypes, AskedInTime, RoundsSound, HasClaimed, HasDropped, RowType
  <2>5. RowSound'
    BY <1>0, <1>t, <1>2 DEF Suspend, DeletionTypes, AskedInTime, RoundsSound, HasClaimed, HasDropped, RowSound, RowType
  <2>6. QED
    BY <2>2, <2>3, <2>4, <2>5 DEF DeletionInv
<1>3. CASE CancelDeletion
  <2>1. PICK status \in {"SUSPENDED", "ACTIVE"} : row' = [row EXCEPT !.status = status, !.before = Nobody, !.after = 0]
    BY <1>3 DEF CancelDeletion
  <2>2. status \in Statuses /\ Nobody \in {"ACTIVE", "SUSPENDED", Nobody} /\ 0 \in Int /\ row \in RowType
    BY <1>t DEF Statuses, DeletionTypes
  <2>3. row' \in RowType /\ row'.status = status /\ row'.erased = row.erased /\ row'.owned = row.owned
    BY <2>1, <2>2, RowLocked
  <2>4. /\ promised' = LastDay + 1 /\ row.status = "DELETING"
        /\ UNCHANGED <<today, codes, asking, rounds, data>>
    BY <1>3 DEF CancelDeletion
  <2>5. LastDay + 1 \in Int
    BY DeletionAssumption DEF DeletionAssumption
  <2>6. DeletionTypes'
    BY <1>t, <2>3, <2>4, <2>5 DEF DeletionTypes
  <2>7. AskedInTime' /\ RoundsSound' /\ RowSound'
    BY <1>t, <2>3, <2>4 DEF AskedInTime, RoundsSound, RowSound, HasClaimed, HasDropped
  <2>8. QED
    BY <2>6, <2>7 DEF DeletionInv
<1>4. ASSUME NEW o \in Owners, SendCode(o) PROVE DeletionInv'
  <2>1. row' \in RowType
    BY <1>0, <1>t, <1>4 DEF SendCode, DeletionTypes, RowType, Statuses
  <2>2. DeletionTypes'
    BY <1>0, <1>t, <1>4, <2>1 DEF SendCode, DeletionTypes
  <2>3. AskedInTime'
    BY <1>0, <1>t, <1>4 DEF SendCode, DeletionTypes, AskedInTime, RoundsSound, HasClaimed, HasDropped, RowType
  <2>4. RoundsSound'
    BY <1>0, <1>t, <1>4 DEF SendCode, DeletionTypes, AskedInTime, RoundsSound, HasClaimed, HasDropped, RowType
  <2>5. RowSound'
    BY <1>0, <1>t, <1>4 DEF SendCode, DeletionTypes, AskedInTime, RoundsSound, HasClaimed, HasDropped, RowSound, RowType
  <2>6. QED
    BY <2>2, <2>3, <2>4, <2>5 DEF DeletionInv
<1>5. ASSUME NEW o \in Owners, AskDeletion(o) PROVE DeletionInv'
  <2>1. row' \in RowType
    BY <1>0, <1>t, <1>5 DEF AskDeletion, Deletable, Usable, DeletionTypes, RowType, Statuses
  <2>2. DeletionTypes'
    BY <1>0, <1>t, <1>5, <2>1 DEF AskDeletion, Deletable, Usable, DeletionTypes
  <2>3. AskedInTime'
    BY <1>0, <1>t, <1>5 DEF AskDeletion, Deletable, Usable, DeletionTypes, AskedInTime, RoundsSound, HasClaimed, HasDropped, RowType
  <2>4. RoundsSound'
    BY <1>0, <1>t, <1>5 DEF AskDeletion, Deletable, Usable, DeletionTypes, AskedInTime, RoundsSound, HasClaimed, HasDropped, RowType
  <2>5. RowSound'
    BY <1>0, <1>t, <1>5 DEF AskDeletion, Deletable, Usable, DeletionTypes, AskedInTime, RoundsSound, HasClaimed, HasDropped, RowSound, RowType
  <2>6. QED
    BY <2>2, <2>3, <2>4, <2>5 DEF DeletionInv
<1>6. ASSUME NEW o \in Owners, RequestDeletion(o) PROVE DeletionInv'
  <2>1. /\ asking[o] \in {"ACTIVE", "SUSPENDED"}
        /\ asking' = [asking EXCEPT ![o] = Nobody]
        /\ asking' \in [Owners -> {"ACTIVE", "SUSPENDED", Nobody}]
        /\ UNCHANGED <<today, rounds, data>>
    BY <1>t, <1>6 DEF RequestDeletion, DeletionTypes
  <2>2. \A u \in Owners : asking'[u] # Nobody => asking[u] # Nobody
    BY <1>t, <2>1 DEF DeletionTypes
  <2>3. CASE codes[o] < 0
    <3>1. UNCHANGED <<codes, row, promised>>
      BY <1>t, <1>6, <2>3 DEF RequestDeletion, DeletionTypes
    <3>2. DeletionTypes'
      BY <1>t, <2>1, <3>1 DEF DeletionTypes
    <3>3. AskedInTime' /\ RoundsSound' /\ RowSound'
      BY <1>t, <2>1, <2>2, <3>1 DEF AskedInTime, RoundsSound, RowSound, HasClaimed, HasDropped
    <3>4. QED
      BY <3>2, <3>3 DEF DeletionInv
  <2>4. CASE codes[o] >= 0
    <3>1. /\ codes' = [codes EXCEPT ![o] = UsedCode]
          /\ row' = [row EXCEPT !.status = "DELETING", !.before = asking[o], !.after = today + DeletionGrace]
          /\ promised' = today + DeletionGrace
      BY <1>6, <2>4 DEF RequestDeletion
    <3>2. today \in Nat /\ today + DeletionGrace \in Int /\ today + DeletionGrace > today
      BY <1>0, <1>t DEF DeletionTypes
    <3>3. row \in RowType /\ "DELETING" \in Statuses /\ asking[o] \in {"ACTIVE", "SUSPENDED", Nobody}
      BY <1>t, <2>1 DEF DeletionTypes, Statuses
    <3>4. /\ row' \in RowType /\ row'.status = "DELETING" /\ row'.after = today + DeletionGrace
          /\ row'.erased = row.erased /\ row'.owned = row.owned
      BY <3>1, <3>2, <3>3, RowLocked
    <3>5. codes' \in [Owners -> Int]
      BY <1>t, <3>1 DEF DeletionTypes, UsedCode
    <3>6. DeletionTypes'
      BY <1>t, <2>1, <3>1, <3>2, <3>4, <3>5 DEF DeletionTypes
    <3>7. row.status # "DELETED"
      BY <1>t, <2>1 DEF AskedInTime
    <3>8. AskedInTime'
      BY <2>1, <3>2, <3>4 DEF AskedInTime
    <3>9. RoundsSound' /\ RowSound'
      BY <1>t, <2>1, <3>1, <3>4, <3>7 DEF RoundsSound, RowSound, HasClaimed, HasDropped
    <3>10. QED
      BY <3>6, <3>8, <3>9 DEF DeletionInv
  <2>5. QED
    BY <1>t, <2>3, <2>4 DEF DeletionTypes
<1>7. ASSUME NEW p \in Erasers, EraseDue(p) PROVE DeletionInv'
  <2>1. row' \in RowType
    BY <1>0, <1>t, <1>7 DEF EraseDue, DeletionTypes, RowType, Statuses
  <2>2. DeletionTypes'
    BY <1>0, <1>t, <1>7, <2>1 DEF EraseDue, DeletionTypes, RoundStages
  <2>3. AskedInTime'
    BY <1>0, <1>t, <1>7 DEF EraseDue, DeletionTypes, AskedInTime, RoundsSound, HasClaimed, HasDropped, RowType
  <2>4. RoundsSound'
    BY <1>0, <1>t, <1>7 DEF EraseDue, DeletionTypes, AskedInTime, RoundsSound, HasClaimed, HasDropped, RowType
  <2>5. RowSound'
    BY <1>0, <1>t, <1>7 DEF EraseDue, DeletionTypes, AskedInTime, RoundsSound, HasClaimed, HasDropped, RowSound, RowType
  <2>6. QED
    BY <2>2, <2>3, <2>4, <2>5 DEF DeletionInv
<1>8. ASSUME NEW p \in Erasers, ClaimErase(p) PROVE DeletionInv'
  <2>a. PICK at \in RoundStages :
            /\ RoundAt(p, at) /\ at \in {"claimed", "idle"}
            /\ at = "claimed" => row'.status = "DELETED"
    BY <1>t, <1>8 DEF ClaimErase, HalfErased, DeletionTypes, RowType, RoundStages
  <2>0. /\ rounds' \in [Erasers -> [at : RoundStages, day : Nat]]
        /\ \A q \in Erasers : /\ rounds'[q].day = rounds[q].day
                              /\ rounds'[q].at = IF q = p THEN at ELSE rounds[q].at
    BY <1>t, <2>a, RoundMoves
  <2>1. row' \in RowType
    BY <1>0, <1>t, <1>8, <2>0, <2>a DEF ClaimErase, Erasable, DueOn, HalfErased, DeletionTypes, RowType, Statuses
  <2>2. DeletionTypes'
    BY <1>0, <1>t, <1>8, <2>0, <2>a, <2>1 DEF ClaimErase, Erasable, DueOn, HalfErased, DeletionTypes
  <2>3. AskedInTime'
    BY <1>0, <1>t, <1>8, <2>0, <2>a DEF ClaimErase, Erasable, DueOn, HalfErased, DeletionTypes, AskedInTime, RoundsSound, HasClaimed, HasDropped, RowType
  <2>4. RoundsSound'
    BY <1>0, <1>t, <1>8, <2>0, <2>a DEF ClaimErase, Erasable, DueOn, HalfErased, DeletionTypes, AskedInTime, RoundsSound, HasClaimed, HasDropped, RowType
  <2>5. RowSound'
    BY <1>0, <1>t, <1>8, <2>0, <2>a DEF ClaimErase, Erasable, DueOn, HalfErased, DeletionTypes, AskedInTime, RoundsSound, HasClaimed, HasDropped, RowSound, RowType
  <2>6. QED
    BY <2>2, <2>3, <2>4, <2>5 DEF DeletionInv
<1>9. ASSUME NEW p \in Erasers, Drop(p) PROVE DeletionInv'
  <2>a. PICK at \in {"dropped", "dropped, owners gone"} : RoundAt(p, at)
    BY <1>9 DEF Drop
  <2>b. at \in RoundStages
    BY DEF RoundStages
  <2>0. /\ rounds' \in [Erasers -> [at : RoundStages, day : Nat]]
        /\ \A q \in Erasers : /\ rounds'[q].day = rounds[q].day
                              /\ rounds'[q].at = IF q = p THEN at ELSE rounds[q].at
    BY <1>t, <2>a, <2>b, RoundMoves
  <2>1. row' \in RowType
    BY <1>0, <1>t, <1>9, <2>0 DEF Drop, DeletionTypes, RowType, Statuses
  <2>2. DeletionTypes'
    BY <1>0, <1>t, <1>9, <2>0, <2>1 DEF Drop, DeletionTypes
  <2>3. AskedInTime'
    BY <1>0, <1>t, <1>9, <2>0 DEF Drop, DeletionTypes, AskedInTime, RoundsSound, HasClaimed, HasDropped, RowType
  <2>4. RoundsSound'
    BY <1>0, <1>t, <1>9, <2>0 DEF Drop, DeletionTypes, AskedInTime, RoundsSound, HasClaimed, HasDropped, RowType
  <2>5. RowSound'
    BY <1>0, <1>t, <1>9, <2>0 DEF Drop, DeletionTypes, AskedInTime, RoundsSound, HasClaimed, HasDropped, RowSound, RowType
  <2>6. QED
    BY <2>2, <2>3, <2>4, <2>5 DEF DeletionInv
<1>10. ASSUME NEW p \in Erasers, Forget(p) PROVE DeletionInv'
  <2>0. /\ rounds' \in [Erasers -> [at : RoundStages, day : Nat]]
        /\ \A q \in Erasers : /\ rounds'[q].day = rounds[q].day
                              /\ rounds'[q].at = IF q = p THEN IF rounds[p].at = "dropped" THEN "telling" ELSE "idle" ELSE rounds[q].at
    BY <1>t, <1>10, RoundMoves DEF Forget, RoundStages
  <2>1. row' \in RowType
    BY <1>0, <1>t, <1>10, <2>0 DEF Forget, NoCode, DeletionTypes, RowType, Statuses
  <2>2. DeletionTypes'
    <3>0. NoCode \in Int
      BY DEF NoCode
    <3>1. codes' \in [Owners -> Int]
      BY <1>10, <3>0 DEF Forget
    <3>2. UNCHANGED <<today, asking, data, promised>>
      BY <1>10 DEF Forget
    <3>3. QED
      BY <1>t, <2>0, <2>1, <3>1, <3>2 DEF DeletionTypes
  <2>3. AskedInTime'
    BY <1>0, <1>t, <1>10, <2>0 DEF Forget, NoCode, DeletionTypes, AskedInTime, RoundsSound, HasClaimed, HasDropped, RowType
  <2>4. RoundsSound'
    BY <1>0, <1>t, <1>10, <2>0 DEF Forget, NoCode, DeletionTypes, AskedInTime, RoundsSound, HasClaimed, HasDropped, RowType
  <2>5. RowSound'
    BY <1>0, <1>t, <1>10, <2>0 DEF Forget, NoCode, DeletionTypes, AskedInTime, RoundsSound, HasClaimed, HasDropped, RowSound, RowType
  <2>6. QED
    BY <2>2, <2>3, <2>4, <2>5 DEF DeletionInv
<1>11. ASSUME NEW p \in Erasers, Tell(p) PROVE DeletionInv'
  <2>0. /\ rounds' \in [Erasers -> [at : RoundStages, day : Nat]]
        /\ \A q \in Erasers : /\ rounds'[q].day = rounds[q].day
                              /\ rounds'[q].at = IF q = p THEN "idle" ELSE rounds[q].at
    BY <1>t, <1>11, RoundMoves DEF Tell, RoundStages
  <2>1. row' \in RowType
    BY <1>0, <1>t, <1>11, <2>0 DEF Tell, DeletionTypes, RowType, Statuses
  <2>2. DeletionTypes'
    BY <1>0, <1>t, <1>11, <2>0, <2>1 DEF Tell, DeletionTypes
  <2>3. AskedInTime'
    BY <1>0, <1>t, <1>11, <2>0 DEF Tell, DeletionTypes, AskedInTime, RoundsSound, HasClaimed, HasDropped, RowType
  <2>4. RoundsSound'
    BY <1>0, <1>t, <1>11, <2>0 DEF Tell, DeletionTypes, AskedInTime, RoundsSound, HasClaimed, HasDropped, RowType
  <2>5. RowSound'
    BY <1>0, <1>t, <1>11, <2>0 DEF Tell, DeletionTypes, AskedInTime, RoundsSound, HasClaimed, HasDropped, RowSound, RowType
  <2>6. QED
    BY <2>2, <2>3, <2>4, <2>5 DEF DeletionInv
<1>12. ASSUME NEW p \in Erasers, RoundStops(p) PROVE DeletionInv'
  <2>0. /\ rounds' \in [Erasers -> [at : RoundStages, day : Nat]]
        /\ \A q \in Erasers : /\ rounds'[q].day = rounds[q].day
                              /\ rounds'[q].at = IF q = p THEN "idle" ELSE rounds[q].at
    BY <1>t, <1>12, RoundMoves DEF RoundStops, RoundStages
  <2>1. row' \in RowType
    BY <1>0, <1>t, <1>12, <2>0 DEF RoundStops, DeletionTypes, RowType, Statuses
  <2>2. DeletionTypes'
    BY <1>0, <1>t, <1>12, <2>0, <2>1 DEF RoundStops, DeletionTypes
  <2>3. AskedInTime'
    BY <1>0, <1>t, <1>12, <2>0 DEF RoundStops, DeletionTypes, AskedInTime, RoundsSound, HasClaimed, HasDropped, RowType
  <2>4. RoundsSound'
    BY <1>0, <1>t, <1>12, <2>0 DEF RoundStops, DeletionTypes, AskedInTime, RoundsSound, HasClaimed, HasDropped, RowType
  <2>5. RowSound'
    BY <1>0, <1>t, <1>12, <2>0 DEF RoundStops, DeletionTypes, AskedInTime, RoundsSound, HasClaimed, HasDropped, RowSound, RowType
  <2>6. QED
    BY <2>2, <2>3, <2>4, <2>5 DEF DeletionInv
<1>13. CASE UNCHANGED deletionVars
  BY <1>t, <1>13 DEF deletionVars, DeletionInv, DeletionTypes, AskedInTime, RoundsSound, RowSound, HasClaimed, HasDropped
<1>14. QED
  BY <1>1, <1>2, <1>3, <1>4, <1>5, <1>6, <1>7, <1>8, <1>9, <1>10, <1>11, <1>12, <1>13 DEF DeletionNext

\* A business's data goes only once the grace period its last request promised is over and no
\* owner kept it, whatever requests, codes and rounds overlap or stop (business-deletion.service.ts).
THEOREM GraceKeptHolds == DeletionSpec => []GraceKept
<1>1. DeletionInv => GraceKept
  BY DEF DeletionInv, DeletionTypes, RowSound, GraceKept, RowType, Statuses
<1>2. QED
  BY <1>1, DeletionStarts, DeletionKept, PTL DEF DeletionSpec

\* Once a round has claimed a business nothing brings it back: no owner's cancel, no request that
\* passed its checks before, no operator.
THEOREM ErasedForGood == DeletionSpec => [][row.status = "DELETED" => row'.status = "DELETED"]_deletionVars
<1>1. ASSUME DeletionInv, [DeletionNext]_deletionVars, row.status = "DELETED" PROVE row'.status = "DELETED"
  BY <1>1 DEF DeletionInv, DeletionTypes, AskedInTime, RowType, Statuses, Nobody, deletionVars, DeletionNext, DeletionDay, Suspend,
      CancelDeletion, SendCode, AskDeletion, Deletable, RequestDeletion, EraseDue, ClaimErase, Drop, Forget, Tell, RoundStops
<1>2. QED
  BY <1>1, DeletionStarts, DeletionKept, PTL DEF DeletionSpec

-----------------------------------------------------------------------------
(* Sessions.                                                               *)

\* What a session may hold: nothing, or the branch and register it was opened at.
TokenType == [at : Nat, with : Nat, from : Nat, holds : {{}, {"branch", "register"}}]
RequestType == [what : {"signIn", "change", "changed", "recover"}, from : Nat, read : Nat, token : TokenType \cup {NoRequest}]

SessionTypes ==
    /\ clock \in Nat
    /\ user \in [cashier : BOOLEAN, password : Nat, changedAt : Nat, active : BOOLEAN, mustChange : BOOLEAN]
    /\ tokens \subseteq TokenType
    /\ requests \in [Calls -> RequestType \cup {NoRequest}]

\* A session as young as the password was made with it, or was being made when it changed.
TokensSound ==
    \A t \in tokens :
        /\ t.at <= clock
        /\ t.at >= user.changedAt => t.with = user.password \/ t.from <= user.changedAt

\* A request still under way read the password that works now, or the password changed since it began.
RequestsSound ==
    /\ user.changedAt <= clock
    /\ \A r \in Calls : requests[r] # NoRequest =>
          /\ requests[r].from <= clock
          /\ requests[r].what \in {"signIn", "changed"} =>
                requests[r].read = user.password \/ requests[r].from <= user.changedAt
          /\ requests[r].what \in {"change", "changed"} => requests[r].token \in TokenType

SessionInv == SessionTypes /\ TokensSound /\ RequestsSound

LEMMA SessionsStart == SessionsInit => SessionInv
<1> SUFFICES ASSUME SessionsInit PROVE SessionInv
  OBVIOUS
<1>1. SessionTypes
  <2>1. user \in [cashier : BOOLEAN, password : Nat, changedAt : Nat, active : BOOLEAN, mustChange : BOOLEAN]
    <3>1. {0} \subseteq Nat /\ {TRUE} \subseteq BOOLEAN /\ {FALSE} \subseteq BOOLEAN
      OBVIOUS
    <3>2. user \in [cashier : BOOLEAN, password : {0}, changedAt : {0}, active : {TRUE}, mustChange : {FALSE}]
      BY DEF SessionsInit
    <3>3. QED
      BY <3>1, <3>2, Zenon
  <2>2. requests \in [Calls -> RequestType \cup {NoRequest}]
    BY DEF SessionsInit
  <2>3. clock \in Nat /\ tokens \subseteq TokenType
    BY DEF SessionsInit
  <2>4. QED
    BY <2>1, <2>2, <2>3 DEF SessionTypes
<1>2. TokensSound /\ RequestsSound
  BY DEF SessionsInit, TokensSound, RequestsSound
<1>3. QED
  BY <1>1, <1>2 DEF SessionInv

\* A request starts: it knows the password of now.
LEMMA RequestStarts ==
    ASSUME SessionInv, NEW r \in Calls, NEW what \in {"signIn", "change", "recover"}, NEW token \in TokenType \cup {NoRequest},
           what = "change" => token \in TokenType, Start(r, what, token)
    PROVE  SessionInv'
<1> DEFINE new == [what |-> what, from |-> Now, read |-> user.password, token |-> token]
<1>1. /\ clock' = clock + 1 /\ requests' = [requests EXCEPT ![r] = new]
      /\ UNCHANGED <<user, tokens>>
  BY DEF Start, Passes, Now
<1>2. SessionTypes /\ TokensSound /\ RequestsSound /\ clock \in Nat
  BY DEF SessionInv, SessionTypes
<1>3. /\ new \in RequestType /\ new.from = clock + 1 /\ new.read = user.password
      /\ new.token = token /\ new.what = what
  BY <1>2 DEF SessionTypes, RequestType, Now
<1> HIDE DEF new
<1>4. SessionTypes'
  BY <1>1, <1>2, <1>3 DEF SessionTypes
<1>5. TokensSound'
  BY <1>1, <1>2 DEF TokensSound, SessionTypes, TokenType
<1>6. \A s \in Calls : requests'[s] = IF s = r THEN new ELSE requests[s]
  BY <1>1, <1>2 DEF SessionTypes
<1>7. RequestsSound'
  <2>1. user.changedAt \in Nat
    BY <1>2 DEF SessionTypes
  <2>2. \A s \in Calls : requests[s] # NoRequest => requests[s].from \in Nat
    BY <1>2 DEF SessionTypes, RequestType
  <2>3. QED
    BY <1>1, <1>2, <1>3, <1>6, <2>1, <2>2 DEF RequestsSound
<1>8. QED
  BY <1>4, <1>5, <1>7 DEF SessionInv

\* A request ends: the others are as they were.
LEMMA RequestsEnd ==
    ASSUME SessionInv, NEW r \in Calls, RequestEnds(r)
    PROVE  /\ requests' \in [Calls -> RequestType \cup {NoRequest}]
           /\ \A s \in Calls : requests'[s] # NoRequest => requests'[s] = requests[s]
BY DEF SessionInv, SessionTypes, RequestEnds

\* A token signed now with what its request read, or in place of one the guard accepts.
LEMMA TokenSigned ==
    ASSUME SessionInv, NEW t \in TokenType, t.at = clock + 1, t.with = user.password \/ t.from <= user.changedAt,
           tokens' = tokens \cup {t}, clock' = clock + 1, UNCHANGED user
    PROVE  tokens' \subseteq TokenType /\ TokensSound'
BY DEF SessionInv, SessionTypes, TokensSound, RequestsSound, TokenType

\* Requests that only end, or stay, keep their part while the password stays.
LEMMA RequestsKept ==
    ASSUME SessionInv, requests' \in [Calls -> RequestType \cup {NoRequest}],
           \A s \in Calls : requests'[s] # NoRequest => requests'[s] = requests[s],
           clock' = clock + 1, UNCHANGED <<user.password, user.changedAt>>
    PROVE  RequestsSound'
<1>1. user.changedAt \in Nat /\ clock \in Nat
  BY DEF SessionInv, SessionTypes
<1>2. \A s \in Calls : requests[s] # NoRequest => requests[s].from \in Nat
  BY DEF SessionInv, SessionTypes, RequestType
<1>3. QED
  BY <1>1, <1>2 DEF SessionInv, RequestsSound

\* A new password: every session is older, every request under way began before.
LEMMA PasswordChanges ==
    ASSUME SessionInv, NEW mustChange \in BOOLEAN, NEW isActive \in BOOLEAN, NewPassword(mustChange, isActive),
           clock' = clock + 1, UNCHANGED tokens
    PROVE  /\ user' \in [cashier : BOOLEAN, password : Nat, changedAt : Nat, active : BOOLEAN, mustChange : BOOLEAN]
           /\ user'.password = user.password + 1 /\ user'.changedAt = clock + 1
           /\ TokensSound'
<1>1. clock \in Nat /\ user \in [cashier : BOOLEAN, password : Nat, changedAt : Nat, active : BOOLEAN, mustChange : BOOLEAN]
  BY DEF SessionInv, SessionTypes
<1>2. /\ user' \in [cashier : BOOLEAN, password : Nat, changedAt : Nat, active : BOOLEAN, mustChange : BOOLEAN]
      /\ user'.password = user.password + 1 /\ user'.changedAt = clock + 1
  <2>1. user.password + 1 \in Nat /\ clock + 1 \in Nat
    BY <1>1
  <2>2. user' = [user EXCEPT !.password = user.password + 1, !.changedAt = clock + 1, !.active = isActive,
                             !.mustChange = mustChange]
    BY DEF NewPassword, Now
  <2>3. QED
    BY <1>1, <2>1, <2>2
<1>3. TokensSound'
  BY <1>1, <1>2 DEF SessionInv, SessionTypes, TokensSound, TokenType
<1>4. QED
  BY <1>2, <1>3

\* Requests that only end, or stay, began before a password that changes now.
LEMMA RequestsOvertaken ==
    ASSUME SessionInv, requests' \in [Calls -> RequestType \cup {NoRequest}],
           \A s \in Calls : requests'[s] # NoRequest => requests'[s] = requests[s],
           clock' = clock + 1, user'.changedAt = clock + 1
    PROVE  RequestsSound'
<1>1. clock \in Nat
  BY DEF SessionInv, SessionTypes
<1>2. \A s \in Calls : requests[s] # NoRequest => requests[s].from \in Nat
  BY DEF SessionInv, SessionTypes, RequestType
<1>3. QED
  BY <1>1, <1>2 DEF SessionInv, RequestsSound

LEMMA SessionsKept == SessionInv /\ [SessionsNext]_sessionVars => SessionInv'
<1> SUFFICES ASSUME SessionInv, [SessionsNext]_sessionVars PROVE SessionInv'
  OBVIOUS
<1>t. SessionTypes /\ TokensSound /\ RequestsSound
  BY DEF SessionInv
<1>c. clock \in Nat /\ clock + 1 \in Nat
  BY <1>t DEF SessionTypes
<1>u. user \in [cashier : BOOLEAN, password : Nat, changedAt : Nat, active : BOOLEAN, mustChange : BOOLEAN]
  BY <1>t DEF SessionTypes
<1>1. ASSUME NEW r \in Calls, AskSignIn(r) PROVE SessionInv'
  BY <1>1, RequestStarts DEF AskSignIn
<1>2. ASSUME NEW r \in Calls, SignIn(r) PROVE SessionInv'
  <2> DEFINE t == [at |-> Now, with |-> requests[r].read, from |-> requests[r].from,
                   holds |-> IF register THEN {"branch", "register"} ELSE {}]
  <2>1. /\ clock' = clock + 1 /\ tokens' = tokens \cup {t} /\ RequestEnds(r) /\ UNCHANGED user
    BY <1>2 DEF SignIn, Passes, Now, Sign
  <2>2. requests[r] \in RequestType /\ requests[r] # NoRequest /\ requests[r].what = "signIn"
    BY <1>2, <1>t DEF SignIn, SessionTypes, NoRequest
  <2>3. t \in TokenType /\ t.at = clock + 1 /\ (t.with = user.password \/ t.from <= user.changedAt)
    BY <1>t, <1>c, <2>2 DEF TokenType, RequestType, RequestsSound, Now
  <2> HIDE DEF t
  <2>4. tokens' \subseteq TokenType /\ TokensSound'
    BY <2>1, <2>3, TokenSigned
  <2>5. /\ requests' \in [Calls -> RequestType \cup {NoRequest}]
        /\ \A s \in Calls : requests'[s] # NoRequest => requests'[s] = requests[s]
    BY <2>1, RequestsEnd
  <2>6. RequestsSound'
    BY <2>1, <2>5, RequestsKept
  <2>7. QED
    BY <1>c, <1>u, <2>1, <2>4, <2>5, <2>6 DEF SessionInv, SessionTypes
<1>3. ASSUME NEW r \in Calls, AskChange(r) PROVE SessionInv'
  <2>1. PICK t \in tokens : Start(r, "change", t)
    BY <1>3 DEF AskChange
  <2>2. t \in TokenType
    BY <1>t DEF SessionTypes
  <2>3. QED
    BY <2>1, <2>2, RequestStarts
<1>4. ASSUME NEW r \in Calls, ChangePassword(r) PROVE SessionInv'
  <2> DEFINE changed == [requests[r] EXCEPT !.what = "changed", !.read = user.password + 1]
  <2>1. /\ clock' = clock + 1 /\ NewPassword(FALSE, user.active) /\ UNCHANGED tokens
        /\ requests' = [requests EXCEPT ![r] = changed]
    BY <1>4, <1>t DEF ChangePassword, Passes, Now, SessionTypes
  <2>2. requests[r] \in RequestType /\ requests[r] # NoRequest /\ requests[r].what = "change"
    BY <1>4, <1>t DEF ChangePassword, SessionTypes, NoRequest
  <2>3. user.active \in BOOLEAN /\ FALSE \in BOOLEAN /\ user.password + 1 \in Nat
    BY <1>u
  <2>4. /\ user' \in [cashier : BOOLEAN, password : Nat, changedAt : Nat, active : BOOLEAN, mustChange : BOOLEAN]
        /\ user'.password = user.password + 1 /\ user'.changedAt = clock + 1
        /\ TokensSound'
    BY <2>1, <2>3, PasswordChanges
  <2>5. /\ changed \in RequestType /\ changed.read = user.password + 1 /\ changed.what = "changed"
        /\ changed.from = requests[r].from /\ changed.token = requests[r].token
    BY <2>2, <2>3 DEF RequestType
  <2>6. requests[r].token \in TokenType /\ requests[r].from <= clock
    BY <1>t, <2>2 DEF RequestsSound
  <2> HIDE DEF changed
  <2>7. /\ requests' \in [Calls -> RequestType \cup {NoRequest}]
        /\ \A s \in Calls : requests'[s] = IF s = r THEN changed ELSE requests[s]
    BY <1>t, <2>1, <2>5 DEF SessionTypes
  <2>8. RequestsSound'
    <3>1. \A s \in Calls : requests[s] # NoRequest => requests[s].from \in Nat
      BY <1>t DEF SessionTypes, RequestType
    <3>2. QED
      BY <1>t, <1>c, <2>1, <2>2, <2>4, <2>5, <2>6, <2>7, <3>1 DEF RequestsSound
  <2>9. QED
    BY <1>t, <1>c, <2>1, <2>4, <2>7, <2>8 DEF SessionInv, SessionTypes
<1>5. ASSUME NEW r \in Calls, Changed(r) PROVE SessionInv'
  <2> DEFINE t == [at |-> Now, with |-> requests[r].read, from |-> requests[r].from, holds |-> requests[r].token.holds]
  <2>1. /\ clock' = clock + 1 /\ tokens' = tokens \cup {t} /\ RequestEnds(r) /\ UNCHANGED user
    BY <1>5 DEF Changed, Passes, Now, Sign
  <2>2. requests[r] \in RequestType /\ requests[r] # NoRequest /\ requests[r].what = "changed"
    BY <1>5, <1>t DEF Changed, SessionTypes, NoRequest
  <2>3. t \in TokenType /\ t.at = clock + 1 /\ (t.with = user.password \/ t.from <= user.changedAt)
    BY <1>t, <1>c, <2>2 DEF TokenType, RequestType, RequestsSound, Now
  <2> HIDE DEF t
  <2>4. tokens' \subseteq TokenType /\ TokensSound'
    BY <2>1, <2>3, TokenSigned
  <2>5. /\ requests' \in [Calls -> RequestType \cup {NoRequest}]
        /\ \A s \in Calls : requests'[s] # NoRequest => requests'[s] = requests[s]
    BY <2>1, RequestsEnd
  <2>6. RequestsSound'
    BY <2>1, <2>5, RequestsKept
  <2>7. QED
    BY <1>c, <1>u, <2>1, <2>4, <2>5, <2>6 DEF SessionInv, SessionTypes
<1>6. ASSUME NEW r \in Calls, AskRecover(r) PROVE SessionInv'
  BY <1>6, RequestStarts DEF AskRecover
<1>7. ASSUME NEW r \in Calls, Recover(r) PROVE SessionInv'
  <2>1. clock' = clock + 1 /\ NewPassword(FALSE, TRUE) /\ RequestEnds(r) /\ UNCHANGED tokens
    BY <1>7 DEF Recover, Passes, Now
  <2>2. /\ user' \in [cashier : BOOLEAN, password : Nat, changedAt : Nat, active : BOOLEAN, mustChange : BOOLEAN]
        /\ user'.changedAt = clock + 1 /\ TokensSound'
    BY <2>1, PasswordChanges
  <2>3. /\ requests' \in [Calls -> RequestType \cup {NoRequest}]
        /\ \A s \in Calls : requests'[s] # NoRequest => requests'[s] = requests[s]
    BY <2>1, RequestsEnd
  <2>4. RequestsSound'
    BY <2>1, <2>2, <2>3, RequestsOvertaken
  <2>5. QED
    BY <1>t, <1>c, <2>1, <2>2, <2>3, <2>4 DEF SessionInv, SessionTypes
<1>8. ASSUME ResetPassword PROVE SessionInv'
  <2>1. /\ clock' = clock + 1 /\ NewPassword(user.cashier, user.active \/ ~user.cashier)
        /\ UNCHANGED <<tokens, requests>>
    BY <1>8 DEF ResetPassword, Passes, Now
  <2>2. user.cashier \in BOOLEAN /\ (user.active \/ ~user.cashier) \in BOOLEAN
    BY <1>u
  <2>3. /\ user' \in [cashier : BOOLEAN, password : Nat, changedAt : Nat, active : BOOLEAN, mustChange : BOOLEAN]
        /\ user'.changedAt = clock + 1 /\ TokensSound'
    BY <2>1, <2>2, PasswordChanges
  <2>4. requests' \in [Calls -> RequestType \cup {NoRequest}]
    BY <1>t, <2>1 DEF SessionTypes
  <2>5. RequestsSound'
    BY <2>1, <2>3, <2>4, RequestsOvertaken
  <2>6. QED
    BY <1>t, <1>c, <2>1, <2>3, <2>4, <2>5 DEF SessionInv, SessionTypes
<1>9. ASSUME SetActive \/ SetAccess PROVE SessionInv'
  <2>1. clock' = clock + 1 /\ UNCHANGED <<tokens, requests>>
    BY <1>9 DEF SetActive, SetAccess, Passes, Now
  <2>2. /\ user' \in [cashier : BOOLEAN, password : Nat, changedAt : Nat, active : BOOLEAN, mustChange : BOOLEAN]
        /\ user'.password = user.password /\ user'.changedAt = user.changedAt
    BY <1>9, <1>u DEF SetActive, SetAccess
  <2>3. TokensSound'
    BY <1>t, <1>c, <2>1, <2>2 DEF SessionTypes, TokensSound, TokenType
  <2>4. requests' \in [Calls -> RequestType \cup {NoRequest}]
    BY <1>t, <2>1 DEF SessionTypes
  <2>5. RequestsSound'
    BY <2>1, <2>2, <2>4, RequestsKept
  <2>6. QED
    BY <1>t, <1>c, <2>1, <2>2, <2>3, <2>4, <2>5 DEF SessionInv, SessionTypes
<1>10. ASSUME OpenRegister \/ CloseRegister PROVE SessionInv'
  <2>1. clock' = clock + 1 /\ UNCHANGED <<user, requests>>
    BY <1>10 DEF OpenRegister, CloseRegister, Passes, Now
  <2>2. tokens' \subseteq TokenType /\ TokensSound'
    <3>1. CASE UNCHANGED tokens
      BY <1>t, <1>c, <2>1, <3>1 DEF SessionTypes, TokensSound, TokenType
    <3>2. ASSUME NEW t \in tokens, GuardAccepts(t), NEW holds \in {{}, {"branch", "register"}},
                 tokens' = tokens \cup {[t EXCEPT !.at = Now, !.holds = holds]}
          PROVE  tokens' \subseteq TokenType /\ TokensSound'
      <4> DEFINE n == [t EXCEPT !.at = Now, !.holds = holds]
      <4>1. t \in TokenType /\ t.at >= user.changedAt
        BY <1>t, <1>u, <3>2 DEF SessionTypes, TokenType, GuardAccepts, Valid, SignedBefore
      <4>2. n \in TokenType /\ n.at = clock + 1 /\ n.with = t.with /\ n.from = t.from
        BY <1>c, <4>1 DEF TokenType, Now
      <4>3. n.with = user.password \/ n.from <= user.changedAt
        BY <1>t, <4>1, <4>2 DEF TokensSound
      <4> HIDE DEF n
      <4>4. tokens' = tokens \cup {n}
        BY <3>2 DEF n
      <4>5. QED
        BY <2>1, <4>2, <4>3, <4>4, TokenSigned
    <3>3. QED
      BY <1>10, <3>1, <3>2 DEF OpenRegister, CloseRegister
  <2>3. requests' \in [Calls -> RequestType \cup {NoRequest}]
    BY <1>t, <2>1 DEF SessionTypes
  <2>4. RequestsSound'
    BY <2>1, <2>3, RequestsKept
  <2>5. QED
    BY <1>u, <1>c, <2>1, <2>2, <2>3, <2>4 DEF SessionInv, SessionTypes
<1>11. CASE UNCHANGED sessionVars
  BY <1>t, <1>11 DEF sessionVars, SessionInv, SessionTypes, TokensSound, RequestsSound
<1>12. QED
  BY <1>1, <1>2, <1>3, <1>4, <1>5, <1>6, <1>7, <1>8, <1>9, <1>10, <1>11 DEF SessionsNext

\* A session the guard accepts was made with the password of now, or its sign-in was under way when
\* the password changed; and it ends with the user's being active, branch access or register
\* (auth.guard.ts), in every order of sign-ins, changes, resets and recoveries.
THEOREM SessionsEndHolds == SessionsSpec => []SessionsEnd
<1>1. ASSUME SessionInv PROVE SessionsEnd
  <2>1. SUFFICES ASSUME NEW t \in tokens, GuardAccepts(t)
        PROVE  /\ t.with = user.password \/ user.changedAt \in t.from .. t.at
               /\ user.active
               /\ t.holds # {} => access /\ register
    BY DEF SessionsEnd
  <2>2. t \in TokenType /\ user.changedAt \in Nat
    BY <1>1 DEF SessionInv, SessionTypes
  <2>3. t.at >= user.changedAt /\ user.active
    BY <2>1, <2>2 DEF GuardAccepts, Valid, SignedBefore, TokenType
  <2>4. t.with = user.password \/ user.changedAt \in t.from .. t.at
    BY <1>1, <2>2, <2>3 DEF SessionInv, TokensSound, TokenType
  <2>5. t.holds # {} => access /\ register
    BY <2>1, <2>2 DEF GuardAccepts, Valid, TokenType
  <2>6. QED
    BY <2>3, <2>4, <2>5
<1>2. QED
  BY <1>1, SessionsStart, SessionsKept, PTL DEF SessionsSpec

\* A session a new password ended stays ended: no later change of the user's row, whoever's, lets it
\* back in.
THEOREM EndedStayEnded ==
    SessionsSpec => [][\A t \in tokens : SignedBefore(t.at) => t \in tokens' /\ SignedBefore(t.at)']_sessionVars
<1>1. ASSUME SessionInv, [SessionsNext]_sessionVars
      PROVE  \A t \in tokens : SignedBefore(t.at) => t \in tokens' /\ SignedBefore(t.at)'
  <2>1. tokens \subseteq tokens'
    BY <1>1 DEF sessionVars, SessionsNext, AskSignIn, SignIn, AskChange, ChangePassword, Changed, AskRecover, Recover,
        ResetPassword, SetActive, SetAccess, OpenRegister, CloseRegister, Start, Sign
  <2>2. /\ clock \in Nat /\ user.changedAt \in Nat /\ user.changedAt <= clock
        /\ user \in [cashier : BOOLEAN, password : Nat, changedAt : Nat, active : BOOLEAN, mustChange : BOOLEAN]
    BY <1>1 DEF SessionInv, SessionTypes, RequestsSound
  <2>3. user'.changedAt \in Nat /\ user'.changedAt >= user.changedAt
    <3>1. CASE UNCHANGED user
      BY <2>2, <3>1
    <3>2. CASE SetActive
      BY <2>2, <3>2 DEF SetActive
    <3>3. ASSUME NEW mustChange, NEW isActive, NewPassword(mustChange, isActive) PROVE user'.changedAt = clock + 1
      BY <2>2, <3>3 DEF NewPassword, Now
    <3>4. \/ UNCHANGED user \/ SetActive
          \/ \E mustChange, isActive : NewPassword(mustChange, isActive)
      <4>1. ASSUME NEW r \in Calls, ChangePassword(r) \/ Recover(r)
            PROVE  \E mustChange, isActive : NewPassword(mustChange, isActive)
        BY <4>1 DEF ChangePassword, Recover
      <4>2. ASSUME ResetPassword PROVE \E mustChange, isActive : NewPassword(mustChange, isActive)
        BY <4>2 DEF ResetPassword
      <4>3. ASSUME NEW r \in Calls, AskSignIn(r) \/ SignIn(r) \/ AskChange(r) \/ Changed(r) \/ AskRecover(r) PROVE UNCHANGED user
        BY <4>3 DEF AskSignIn, SignIn, AskChange, Changed, AskRecover, Start
      <4>4. ASSUME SetAccess \/ OpenRegister \/ CloseRegister PROVE UNCHANGED user
        BY <4>4 DEF SetAccess, OpenRegister, CloseRegister
      <4>5. QED
        BY <1>1, <4>1, <4>2, <4>3, <4>4 DEF sessionVars, SessionsNext
    <3>5. QED
      BY <2>2, <3>1, <3>2, <3>3, <3>4
  <2>4. \A t \in tokens : t.at \in Nat
    BY <1>1 DEF SessionInv, SessionTypes, TokenType
  <2>5. QED
    BY <2>1, <2>2, <2>3, <2>4 DEF SignedBefore
<1>2. QED
  BY <1>1, SessionsStart, SessionsKept, PTL DEF SessionsSpec

-----------------------------------------------------------------------------
(* Billing.                                                                *)

\* Whole numbers divided, and a multiplication taken apart.
LEMMA DivFits ==
    ASSUME NEW n \in Nat, NEW d \in Nat \ {0}
    PROVE  n \div d \in Nat /\ d * (n \div d) <= n /\ n < d * (n \div d) + d
OBVIOUS

LEMMA Distributes ==
    ASSUME NEW a \in Int, NEW b \in Int, NEW c \in Int
    PROVE  a * c \in Int /\ (a + b) * c = a * c + b * c /\ (a - b) * c = a * c - b * c
OBVIOUS

\* What Math.round makes of a / b, taken b times, is off by half of b at most.
LEMMA RoundedFits ==
    ASSUME NEW a \in Nat, NEW b \in Nat \ {0}
    PROVE  /\ Rounded(a, b) \in Nat
           /\ 2 * (a - Rounded(a, b) * b) <= b /\ 2 * (Rounded(a, b) * b - a) <= b
<1> DEFINE q == (2 * a + b) \div (2 * b)
<1>1. 2 * a + b \in Nat /\ 2 * b \in Nat \ {0}
  OBVIOUS
<1>2. q \in Nat /\ (2 * b) * q <= 2 * a + b /\ 2 * a + b < (2 * b) * q + 2 * b
  BY <1>1, DivFits
<1>3. (2 * b) * q = 2 * (q * b)
  BY <1>2
<1>4. QED
  BY <1>2, <1>3 DEF Rounded

\* A row appended to those of others.
LEMMA Appended ==
    ASSUME NEW S, NEW s \in Seq(S), NEW x \in S, IsInjective(s), x \notin ToSet(s)
    PROVE  /\ Append(s, x) \in Seq(S) /\ Len(Append(s, x)) = Len(s) + 1
           /\ IsInjective(Append(s, x)) /\ ToSet(Append(s, x)) = ToSet(s) \cup {x}
<1>1. /\ Append(s, x) \in Seq(S) /\ Len(Append(s, x)) = Len(s) + 1
      /\ DOMAIN Append(s, x) = 1 .. Len(s) + 1 /\ DOMAIN s = 1 .. Len(s)
      /\ \A i \in 1 .. Len(s) : Append(s, x)[i] = s[i]
      /\ Append(s, x)[Len(s) + 1] = x
      /\ Len(s) \in Nat
  OBVIOUS
<1>2. \A i \in 1 .. Len(s) : s[i] # x
  BY <1>1 DEF ToSet
<1>3. IsInjective(Append(s, x))
  BY <1>1, <1>2 DEF IsInjective
<1>4. ToSet(Append(s, x)) = ToSet(s) \cup {x}
  BY <1>1 DEF ToSet
<1>5. QED
  BY <1>1, <1>3, <1>4

-----------------------------------------------------------------------------
Kinds == {"ending", "grace", "read-only"}
KeyType == Kinds \X Int
BusinessType == [plan : Plans, trialEnds : Nat, paidUntil : Nat, notice : KeyType \cup {NoNotice}]
EventType == [checkout : Checkouts, id : Nat, kind : {"paid", "unpaid"}]
DueType == [at : {"due"}, notice : KeyType \cup {NoNotice}, key : KeyType, paid : Nat]
ClaimedType == [at : {"claimed"}, key : KeyType]

BillingTypes ==
    /\ day \in Nat
    /\ business \in BusinessType
    /\ checkouts \in [Checkouts -> {"none", "PENDING", "FAILED", "PAID"}]
    /\ events \subseteq EventType /\ IsFiniteSet(events)
    /\ invoices \in Seq(Checkouts) /\ sequence \in Nat
    /\ sweeps \in [Processes -> {Resting} \cup DueType \cup ClaimedType]
    /\ sent \subseteq KeyType
    /\ bought \in Int /\ used \in Int /\ changes \in Nat
    /\ overtaken \in BOOLEAN /\ again \in BOOLEAN

\* A day of any plan has a price, and one is the dearest.
LEMMA PriceFits == \A p \in Plans : Price[p] \in Nat \ {0}
BY BillingAssumption DEF BillingAssumption

LEMMA OfferFits ==
    ASSUME NEW c \in Checkouts
    PROVE  /\ Offer[c].plan \in Plans
           /\ PeriodDays[Offer[c].period] \in Nat /\ PeriodDays[Offer[c].period] > SoonDays
BY BillingAssumption DEF BillingAssumption

\* What is left, brought to another plan, and the day the time paid for ends.
LEMMA PaidFits ==
    ASSUME BillingTypes, NEW plan \in Plans
    PROVE  /\ Larger(day, business.trialEnds) \in Nat
           /\ Larger(0, business.paidUntil - Larger(day, business.trialEnds)) \in Nat
           /\ Larger(0, business.paidUntil - Larger(day, business.trialEnds)) * Price[business.plan] \in Nat
           /\ Carried(business, plan, Larger(day, business.trialEnds)) \in Nat
           /\ PaidFrom(business, plan) \in Nat
           /\ PaidFrom(business, plan) >= Larger(day, business.trialEnds)
<1> DEFINE base == Larger(day, business.trialEnds)
           left == Larger(0, business.paidUntil - base)
<1>1. day \in Nat /\ business.trialEnds \in Nat /\ business.paidUntil \in Nat /\ business.plan \in Plans
  BY DEF BillingTypes, BusinessType
<1>2. base \in Nat
  BY <1>1 DEF Larger
<1>3. left \in Nat
  BY <1>1, <1>2 DEF Larger
<1> HIDE DEF left, base
<1>4. Price[business.plan] \in Nat \ {0} /\ Price[plan] \in Nat \ {0}
  BY <1>1, PriceFits
<1>5. left * Price[business.plan] \in Nat
  BY <1>3, <1>4
<1>6. Carried(business, plan, base) \in Nat
  BY <1>4, <1>5, RoundedFits DEF Carried, left
<1>7. PaidFrom(business, plan) \in Nat /\ PaidFrom(business, plan) >= base
  BY <1>1, <1>2, <1>6 DEF PaidFrom, Larger, base
<1>8. QED
  BY <1>2, <1>3, <1>5, <1>6, <1>7 DEF base, left

\* A payment that counts: the plan, the days it buys, and every reminder starts over.
LEMMA CountsBusiness ==
    ASSUME BillingTypes, NEW e \in events, Counts(e)
    PROVE  LET c == Offer[e.checkout] IN
           /\ e.checkout \in Checkouts
           /\ business' \in BusinessType
           /\ business'.plan = c.plan /\ business'.trialEnds = business.trialEnds /\ business'.notice = NoNotice
           /\ business'.paidUntil = PaidFrom(business, c.plan) + PeriodDays[c.period]
<1>1. e.checkout \in Checkouts
  BY DEF BillingTypes, EventType
<1> DEFINE c == Offer[e.checkout]
           until == PaidFrom(business, c.plan) + PeriodDays[c.period]
<1>2. c.plan \in Plans /\ PeriodDays[c.period] \in Nat
  BY <1>1, OfferFits
<1>3. until \in Nat
  BY <1>2, PaidFits
<1>4. business' = [business EXCEPT !.plan = c.plan, !.notice = NoNotice, !.paidUntil = until]
  BY DEF Counts
<1>5. business \in BusinessType /\ NoNotice \in KeyType \cup {NoNotice}
  BY DEF BillingTypes
<1> HIDE DEF until, c
<1>6. /\ business' \in BusinessType
      /\ business'.plan = c.plan /\ business'.trialEnds = business.trialEnds /\ business'.notice = NoNotice
      /\ business'.paidUntil = until
  BY <1>2, <1>3, <1>4, <1>5 DEF BusinessType
<1>7. QED
  BY <1>1, <1>6 DEF until, c

\* What a reminder's round may do to a process, and a key it reads.
LEMMA ReminderFits ==
    ASSUME BillingTypes, Reminder(business) # NoNotice
    PROVE  Reminder(business) \in KeyType
<1>1. PeriodEnds(business) \in Int
  BY DEF BillingTypes, BusinessType, PeriodEnds, Larger
<1> HIDE DEF PeriodEnds
<1>2. QED
  BY <1>1 DEF Reminder, KeyType, Kinds

LEMMA BillingTypesStart == BillingInit => BillingTypes
<1> SUFFICES ASSUME BillingInit PROVE BillingTypes
  OBVIOUS
<1>1. TrialPlan \in Plans /\ TrialDays \in Nat
  BY BillingAssumption DEF BillingAssumption
<1>2. business \in BusinessType
  BY <1>1 DEF BillingInit, BusinessType
<1>3. checkouts \in [Checkouts -> {"none", "PENDING", "FAILED", "PAID"}]
  BY DEF BillingInit
<1>4. events \subseteq EventType /\ IsFiniteSet(events)
  BY FS_EmptySet DEF BillingInit
<1>5. sweeps \in [Processes -> {Resting} \cup DueType \cup ClaimedType]
  BY DEF BillingInit
<1>6. day \in Nat /\ invoices \in Seq(Checkouts) /\ sequence \in Nat /\ sent \subseteq KeyType
  BY DEF BillingInit
<1>7. bought \in Int /\ used \in Int /\ changes \in Nat
  BY DEF BillingInit
<1>8. overtaken \in BOOLEAN /\ again \in BOOLEAN
  BY Zenon DEF BillingInit
<1>9. QED
  BY <1>2, <1>3, <1>4, <1>5, <1>6, <1>7, <1>8 DEF BillingTypes

LEMMA BillingTypesKept == BillingTypes /\ [BillingNext]_billingVars => BillingTypes'
<1> SUFFICES ASSUME BillingTypes, [BillingNext]_billingVars PROVE BillingTypes'
  OBVIOUS
<1> USE DEF payments, reminding
<1>1. CASE BillingDay
  <2>1. business.plan \in Plans
    BY DEF BillingTypes, BusinessType
  <2>2. Price[business.plan] \in Int
    BY <2>1, PriceFits
  <2>3. used' \in Int /\ day' \in Nat
    BY <1>1, <2>2 DEF BillingDay, BillingTypes
  <2>4. QED
    BY <1>1, <2>3 DEF BillingDay, BillingTypes
<1>2. ASSUME NEW c \in Checkouts, Checkout(c) PROVE BillingTypes'
  <2>1. checkouts' \in [Checkouts -> {"none", "PENDING", "FAILED", "PAID"}]
    BY <1>2 DEF Checkout, BillingTypes
  <2>2. QED
    BY <1>2, <2>1 DEF Checkout, BillingTypes
<1>3. ASSUME NEW c \in Checkouts, NEW kind \in {"paid", "unpaid"}, Attempt(c, kind) PROVE BillingTypes'
  <2>1. EventsOf(c) \in SUBSET events
    BY DEF EventsOf
  <2>2. Cardinality(EventsOf(c)) \in Nat
    BY <2>1, FS_Subset, FS_CardinalityType DEF BillingTypes
  <2>3. events' \subseteq EventType /\ IsFiniteSet(events')
    <3> DEFINE new == [checkout |-> c, id |-> Cardinality(EventsOf(c)) + 1, kind |-> kind]
    <3>1. events' = events \cup {new}
      BY <1>3 DEF Attempt
    <3>2. new \in EventType
      BY <2>2 DEF EventType
    <3> HIDE DEF new
    <3>3. QED
      BY <3>1, <3>2, FS_AddElement DEF BillingTypes
  <2>4. QED
    BY <1>3, <2>3 DEF Attempt, BillingTypes
<1>4. ASSUME NEW e \in events, ApplyEvent(e) PROVE BillingTypes'
  <2>1. e.checkout \in Checkouts
    BY DEF BillingTypes, EventType
  <2>2. /\ UNCHANGED <<day, events, sweeps, sent, overtaken, again, used>>
        /\ UNCHANGED <<business, checkouts, sequence, invoices, bought, changes>> \/ Counts(e) \/ Closes(e)
    BY <1>4 DEF ApplyEvent
  <2>3. CASE UNCHANGED <<business, checkouts, sequence, invoices, bought, changes>>
    BY <2>2, <2>3 DEF BillingTypes
  <2>4. CASE Counts(e)
    <3>1. business' \in BusinessType
      BY <2>4, CountsBusiness
    <3>2. checkouts' \in [Checkouts -> {"none", "PENDING", "FAILED", "PAID"}]
      BY <2>4 DEF Counts, BillingTypes
    <3>3. sequence' \in Nat /\ invoices' \in Seq(Checkouts)
      BY <2>1, <2>4 DEF Counts, BillingTypes
    <3>4. bought' \in Int
      <4>1. Offer[e.checkout].plan \in Plans /\ PeriodDays[Offer[e.checkout].period] \in Nat
        BY <2>1, OfferFits
      <4>2. PeriodDays[Offer[e.checkout].period] * Price[Offer[e.checkout].plan] \in Int
        BY <4>1, PriceFits
      <4>3. QED
        BY <2>4, <4>2 DEF Counts, BillingTypes
    <3>5. changes' \in Nat
      BY <2>4 DEF Counts, BillingTypes
    <3>6. QED
      BY <2>2, <3>1, <3>2, <3>3, <3>4, <3>5 DEF BillingTypes
  <2>5. CASE Closes(e)
    <3>1. checkouts' \in [Checkouts -> {"none", "PENDING", "FAILED", "PAID"}]
      BY <2>5 DEF Closes, BillingTypes
    <3>2. QED
      BY <2>2, <2>5, <3>1 DEF Closes, BillingTypes
  <2>6. QED
    BY <2>2, <2>3, <2>4, <2>5
<1>5. ASSUME NEW p \in Processes, Look(p) PROVE BillingTypes'
  <2>1. business.notice \in KeyType \cup {NoNotice} /\ Len(invoices) \in Nat
    BY DEF BillingTypes, BusinessType
  <2>2. Reminder(business) \in KeyType
    BY <1>5, ReminderFits DEF Look
  <2>3. sweeps' \in [Processes -> {Resting} \cup DueType \cup ClaimedType]
    BY <1>5, <2>1, <2>2 DEF Look, BillingTypes, DueType
  <2>4. QED
    BY <1>5, <2>3 DEF Look, BillingTypes
<1>6. ASSUME NEW p \in Processes, ClaimReminder(p) PROVE BillingTypes'
  <2>1. sweeps[p].key \in KeyType
    BY <1>6 DEF ClaimReminder, ReminderDue, BillingTypes, Resting, DueType, ClaimedType
  <2>2. business' \in BusinessType
    BY <1>6, <2>1 DEF ClaimReminder, BillingTypes, BusinessType
  <2>3. sweeps' \in [Processes -> {Resting} \cup DueType \cup ClaimedType]
    BY <1>6, <2>1 DEF ClaimReminder, BillingTypes, ClaimedType
  <2>4. QED
    BY <1>6, <2>2, <2>3 DEF ClaimReminder, BillingTypes
<1>7. ASSUME NEW p \in Processes, Send(p) PROVE BillingTypes'
  <2>1. sweeps[p].key \in KeyType
    BY <1>7 DEF Send, BillingTypes, Resting, DueType, ClaimedType
  <2>2. sweeps' \in [Processes -> {Resting} \cup DueType \cup ClaimedType]
    BY <1>7 DEF Send, BillingTypes
  <2>3. QED
    BY <1>7, <2>1, <2>2 DEF Send, BillingTypes
<1>8. ASSUME NEW p \in Processes, GiveUp(p) PROVE BillingTypes'
  <2>1. sweeps' \in [Processes -> {Resting} \cup DueType \cup ClaimedType]
    BY <1>8 DEF GiveUp, BillingTypes
  <2>2. QED
    BY <1>8, <2>1 DEF GiveUp, BillingTypes
<1>9. CASE UNCHANGED billingVars
  BY <1>9 DEF billingVars, BillingTypes
<1>10. QED
  BY <1>1, <1>2, <1>3, <1>4, <1>5, <1>6, <1>7, <1>8, <1>9 DEF BillingNext

-----------------------------------------------------------------------------
\* The rows a payment leaves, and what is known of the gateway's events.
InvoicesSound ==
    /\ sequence = Len(invoices) /\ IsInjective(invoices)
    /\ ToSet(invoices) = {c \in Checkouts : checkouts[c] = "PAID"}

Recorded(e) == <<e.checkout, e.id>> \in recorded
Unpaid(c) == \E f \in EventsOf(c) : f.kind # "paid"

EventsSound ==
    /\ \A e \in events : e.id <= Cardinality(EventsOf(e.checkout))
    /\ recorded \subseteq {<<e.checkout, e.id>> : e \in events}
    /\ \A c \in Checkouts :
          /\ checkouts[c] = "none" => EventsOf(c) = {}
          /\ checkouts[c] = "PAID" => \E e \in EventsOf(c) : e.kind = "paid"
          /\ checkouts[c] = "FAILED" /\ EventsOf(c) # {} => Unpaid(c)
    /\ \A e \in events : Recorded(e) => checkouts[e.checkout] \in {"PAID", "FAILED"}

PaymentsInv == BillingTypes /\ InvoicesSound /\ EventsSound /\ PaidTimeKept

LEMMA InvoicesKept == BillingTypes /\ InvoicesSound /\ [BillingNext]_billingVars => InvoicesSound'
<1> SUFFICES ASSUME BillingTypes, InvoicesSound, [BillingNext]_billingVars PROVE InvoicesSound'
  OBVIOUS
<1> USE DEF payments, reminding
<1>1. CASE UNCHANGED <<sequence, invoices, checkouts>>
  BY <1>1 DEF InvoicesSound
<1>2. ASSUME NEW c \in Checkouts, Checkout(c) PROVE InvoicesSound'
  <2>1. PICK status \in {"PENDING", "FAILED"} : checkouts' = [checkouts EXCEPT ![c] = status]
    BY <1>2 DEF Checkout
  <2>2. checkouts[c] = "none" /\ UNCHANGED <<sequence, invoices>>
    BY <1>2 DEF Checkout
  <2>3. {d \in Checkouts : checkouts'[d] = "PAID"} = {d \in Checkouts : checkouts[d] = "PAID"}
    BY <2>1, <2>2 DEF BillingTypes
  <2>4. QED
    BY <2>2, <2>3 DEF InvoicesSound
<1>3. ASSUME NEW e \in events, StillWaiting(e.checkout), Counts(e) PROVE InvoicesSound'
  <2>1. e.checkout \in Checkouts /\ checkouts[e.checkout] = "PENDING"
    BY <1>3 DEF BillingTypes, EventType, StillWaiting
  <2>2. e.checkout \notin ToSet(invoices)
    BY <2>1 DEF InvoicesSound
  <2>3. /\ invoices' = Append(invoices, e.checkout) /\ sequence' = sequence + 1
        /\ checkouts' = [checkouts EXCEPT ![e.checkout] = "PAID"]
    BY <1>3 DEF Counts
  <2>4. /\ Len(invoices') = Len(invoices) + 1 /\ IsInjective(invoices')
        /\ ToSet(invoices') = ToSet(invoices) \cup {e.checkout}
    BY <2>1, <2>2, <2>3, Appended DEF BillingTypes, InvoicesSound
  <2>5. {d \in Checkouts : checkouts'[d] = "PAID"} = {d \in Checkouts : checkouts[d] = "PAID"} \cup {e.checkout}
    BY <2>1, <2>3 DEF BillingTypes
  <2>6. QED
    BY <2>3, <2>4, <2>5 DEF InvoicesSound
<1>4. ASSUME NEW e \in events, StillWaiting(e.checkout), Closes(e) PROVE InvoicesSound'
  <2>1. e.checkout \in Checkouts /\ checkouts[e.checkout] = "PENDING"
    BY <1>4 DEF BillingTypes, EventType, StillWaiting
  <2>2. {d \in Checkouts : checkouts'[d] = "PAID"} = {d \in Checkouts : checkouts[d] = "PAID"}
    BY <1>4, <2>1 DEF Closes, BillingTypes
  <2>3. QED
    BY <1>4, <2>2 DEF Closes, InvoicesSound
<1>5. QED
  BY <1>1, <1>2, <1>3, <1>4 DEF billingVars, BillingNext, BillingDay, Attempt, Look, ClaimReminder, Send, GiveUp, ApplyEvent

LEMMA EventsKept == BillingTypes /\ EventsSound /\ [BillingNext]_billingVars => EventsSound'
<1> SUFFICES ASSUME BillingTypes, EventsSound, [BillingNext]_billingVars PROVE EventsSound'
  OBVIOUS
<1> USE DEF payments, reminding
<1>1. CASE UNCHANGED <<events, recorded, checkouts>>
  BY <1>1 DEF EventsSound, EventsOf, Recorded, Unpaid
<1>2. ASSUME NEW c \in Checkouts, Checkout(c) PROVE EventsSound'
  <2>1. PICK status \in {"PENDING", "FAILED"} : checkouts' = [checkouts EXCEPT ![c] = status]
    BY <1>2 DEF Checkout
  <2>2. checkouts[c] = "none" /\ EventsOf(c) = {} /\ UNCHANGED <<events, recorded>>
    BY <1>2 DEF Checkout, EventsSound
  <2>3. \A d \in Checkouts : checkouts'[d] = IF d = c THEN status ELSE checkouts[d]
    BY <2>1 DEF BillingTypes
  <2>4. \A e \in events : e.checkout \in Checkouts /\ e.checkout # c
    BY <2>2 DEF BillingTypes, EventType, EventsOf
  <2>5. QED
    BY <2>2, <2>3, <2>4 DEF EventsSound, EventsOf, Recorded, Unpaid
<1>3. ASSUME NEW c \in Checkouts, NEW kind \in {"paid", "unpaid"}, Attempt(c, kind) PROVE EventsSound'
  <2> DEFINE n == Cardinality(EventsOf(c))
             new == [checkout |-> c, id |-> n + 1, kind |-> kind]
  <2>1. events' = events \cup {new} /\ UNCHANGED <<recorded, checkouts>>
    BY <1>3 DEF Attempt
  <2>2. /\ checkouts[c] # "none"
        /\ checkouts[c] = "PENDING" \/ EventsOf(c) # {}
    BY <1>3 DEF Attempt
  <2>3. IsFiniteSet(EventsOf(c)) /\ n \in Nat
    <3>1. EventsOf(c) \in SUBSET events
      BY DEF EventsOf
    <3>2. QED
      BY <3>1, FS_Subset, FS_CardinalityType DEF BillingTypes
  <2>4. new.checkout = c /\ new.id = n + 1 /\ new.kind = kind
    OBVIOUS
  <2>5. \A e \in EventsOf(c) : e.id \in Nat /\ e.id <= n
    BY DEF EventsSound, EventsOf, BillingTypes, EventType
  <2>6. new \notin EventsOf(c)
    BY <2>3, <2>4, <2>5
  <2>7. Cardinality(EventsOf(c) \cup {new}) = n + 1
    BY <2>3, <2>6, FS_AddElement
  <2> HIDE DEF new, n
  <2>8. EventsOf(c)' = EventsOf(c) \cup {new} /\ \A d \in Checkouts \ {c} : EventsOf(d)' = EventsOf(d)
    BY <2>1, <2>4 DEF EventsOf
  <2>9. \A e \in events' : e.id <= Cardinality(EventsOf(e.checkout)')
    <3>1. ASSUME NEW e \in events PROVE e.id <= Cardinality(EventsOf(e.checkout)')
      <4>1. e.checkout \in Checkouts /\ e.id \in Nat /\ e.id <= Cardinality(EventsOf(e.checkout))
        BY DEF BillingTypes, EventType, EventsSound
      <4>2. CASE e.checkout = c
        <5>1. Cardinality(EventsOf(e.checkout)') = n + 1 /\ e.id <= n
          BY <2>7, <2>8, <4>1, <4>2 DEF n
        <5>2. QED
          BY <2>3, <4>1, <5>1
      <4>3. CASE e.checkout # c
        BY <2>8, <4>1, <4>3
      <4>4. QED
        BY <4>2, <4>3
    <3>2. QED
      BY <2>1, <2>3, <2>4, <2>7, <2>8, <3>1
  <2>10. \A e \in events' : Recorded(e)' => e \in events
    <3>1. <<c, n + 1>> \notin recorded
      <4>1. ASSUME NEW e \in events, e.checkout = c PROVE e.id # n + 1
        BY <2>3, <2>5, <4>1 DEF EventsOf
      <4>2. QED
        BY <4>1 DEF EventsSound
    <3>2. QED
      BY <2>1, <2>4, <3>1 DEF Recorded
  <2>11. \A d \in Checkouts : checkouts[d] = "FAILED" /\ EventsOf(d)' # {} => Unpaid(d)'
    BY <2>2, <2>8 DEF EventsSound, Unpaid
  <2>12. \A d \in Checkouts :
          /\ checkouts[d] = "none" => EventsOf(d)' = {}
          /\ checkouts[d] = "PAID" => \E e \in EventsOf(d)' : e.kind = "paid"
    BY <2>2, <2>8 DEF EventsSound
  <2>13. recorded' \subseteq {<<e.checkout, e.id>> : e \in events'}
    BY <2>1 DEF EventsSound
  <2>14. \A e \in events' : Recorded(e)' => checkouts'[e.checkout] \in {"PAID", "FAILED"}
    BY <2>1, <2>10 DEF EventsSound, Recorded
  <2>15. QED
    BY <2>1, <2>9, <2>11, <2>12, <2>13, <2>14 DEF EventsSound, Recorded
<1>4. ASSUME NEW e \in events, ApplyEvent(e) PROVE EventsSound'
  <2>1. e.checkout \in Checkouts /\ e \in EventsOf(e.checkout)
    BY DEF BillingTypes, EventType, EventsOf
  <2>2. recorded' = recorded \cup {<<e.checkout, e.id>>} /\ UNCHANGED events
    BY <1>4 DEF ApplyEvent
  <2>3. checkouts[e.checkout] \in {"none", "PENDING", "FAILED", "PAID"} /\ checkouts[e.checkout] # "none"
    BY <2>1 DEF BillingTypes, EventsSound
  <2>4. PICK status \in {"PAID", "FAILED"} :
           /\ checkouts' = [checkouts EXCEPT ![e.checkout] = status]
           /\ checkouts[e.checkout] = "PENDING" => (status = "PAID" <=> e.kind = "paid") 
           /\ checkouts[e.checkout] # "PENDING" => status = checkouts[e.checkout]
    <3>1. CASE Recorded(e) \/ ~StillWaiting(e.checkout)
      <4>1. checkouts[e.checkout] \in {"PAID", "FAILED"} /\ checkouts' = checkouts
        BY <1>4, <2>3, <3>1 DEF ApplyEvent, EventsSound, Recorded, StillWaiting
      <4>2. checkouts' = [checkouts EXCEPT ![e.checkout] = checkouts[e.checkout]]
        BY <4>1 DEF BillingTypes
      <4>3. QED
        BY <4>1, <4>2
    <3>2. CASE ~Recorded(e) /\ StillWaiting(e.checkout)
      BY <1>4, <3>2 DEF ApplyEvent, Recorded, StillWaiting, Counts, Closes
    <3>3. QED
      BY <3>1, <3>2
  <2>5. \A d \in Checkouts : checkouts'[d] = IF d = e.checkout THEN status ELSE checkouts[d]
    BY <2>4 DEF BillingTypes
  <2>6. \A d \in Checkouts : EventsOf(d)' = EventsOf(d)
    BY <2>2 DEF EventsOf
  <2>7. \A d \in Checkouts :
          /\ checkouts'[d] = "none" => EventsOf(d)' = {}
          /\ checkouts'[d] = "PAID" => \E f \in EventsOf(d)' : f.kind = "paid"
          /\ checkouts'[d] = "FAILED" /\ EventsOf(d)' # {} => Unpaid(d)'
    BY <2>1, <2>3, <2>4, <2>5, <2>6 DEF EventsSound, Unpaid
  <2>8. \A f \in events : f.checkout \in Checkouts
    BY DEF BillingTypes, EventType
  <2>9. \A f \in events' : Recorded(f)' => checkouts'[f.checkout] \in {"PAID", "FAILED"}
    BY <2>2, <2>4, <2>5, <2>8 DEF EventsSound, Recorded
  <2>10. recorded' \subseteq {<<f.checkout, f.id>> : f \in events'}
    BY <2>2 DEF EventsSound
  <2>11. \A f \in events' : f.id <= Cardinality(EventsOf(f.checkout)')
    BY <2>2, <2>6, <2>8 DEF EventsSound
  <2>12. QED
    BY <2>7, <2>9, <2>10, <2>11 DEF EventsSound
<1>5. QED
  BY <1>1, <1>2, <1>3, <1>4 DEF billingVars, BillingNext, BillingDay, Look, ClaimReminder, Send, GiveUp

\* The dearest plan's day costs as much as any.
LEMMA DearestFits ==
    LET dearest == CHOOSE x \in {Price[p] : p \in Plans} : \A p \in Plans : Price[p] <= x
    IN  dearest \in Nat /\ \A p \in Plans : Price[p] <= dearest
<1>1. \E x \in {Price[p] : p \in Plans} : \A p \in Plans : Price[p] <= x
  BY BillingAssumption DEF BillingAssumption
<1>2. QED
  BY <1>1, PriceFits

LEMMA PaidTimeStays == BillingTypes /\ PaidTimeKept /\ [BillingNext]_billingVars => PaidTimeKept'
<1> SUFFICES ASSUME BillingTypes, PaidTimeKept, [BillingNext]_billingVars PROVE PaidTimeKept'
  OBVIOUS
<1> USE DEF payments, reminding
<1> DEFINE dearest == CHOOSE x \in {Price[p] : p \in Plans} : \A p \in Plans : Price[p] <= x
           base == Larger(day, business.trialEnds)
           days == Larger(0, business.paidUntil - base)
           left == days * Price[business.plan]
           off == bought - used - left
<1>1. dearest \in Nat /\ \A p \in Plans : Price[p] <= dearest
  BY DearestFits
<1>2. /\ day \in Nat /\ business.trialEnds \in Nat /\ business.paidUntil \in Nat /\ business.plan \in Plans
      /\ bought \in Int /\ used \in Int /\ changes \in Nat
  BY DEF BillingTypes, BusinessType
<1>3. Price[business.plan] \in Nat \ {0}
  BY <1>2, PriceFits
<1>4. base \in Nat /\ days \in Nat /\ left \in Nat
  BY <1>2, PaidFits
<1>5. 2 * Larger(off, -off) <= changes * dearest
  BY DEF PaidTimeKept
<1> HIDE DEF dearest
<1>6. CASE UNCHANGED <<day, business, bought, used, changes>>
  BY <1>6 DEF PaidTimeKept
<1>7. CASE UNCHANGED <<day, bought, used, changes, business.plan, business.trialEnds, business.paidUntil>>
  BY <1>7 DEF PaidTimeKept
<1>8. CASE BillingDay
  <2>1. /\ day' = day + 1 /\ UNCHANGED <<business, bought, changes>>
        /\ used' = used + IF day >= business.trialEnds /\ day < business.paidUntil THEN Price[business.plan] ELSE 0
    BY <1>8 DEF BillingDay
  <2>2. left' = left - IF day >= business.trialEnds /\ day < business.paidUntil THEN Price[business.plan] ELSE 0
    <3>1. CASE day >= business.trialEnds /\ day < business.paidUntil
      <4>1. days' = days - 1
        BY <1>2, <2>1, <3>1 DEF Larger
      <4>2. left' = (days - 1) * Price[business.plan]
        BY <2>1, <4>1
      <4>3. QED
        BY <1>3, <1>4, <3>1, <4>2, Distributes
    <3>2. CASE ~(day >= business.trialEnds /\ day < business.paidUntil)
      <4>1. days' = days
        BY <1>2, <2>1, <3>2 DEF Larger
      <4>2. QED
        BY <1>4, <2>1, <3>2, <4>1
    <3>3. QED
      BY <3>1, <3>2
  <2>3. off' = off
    BY <1>2, <1>3, <1>4, <2>1, <2>2
  <2>4. QED
    BY <1>5, <2>1, <2>3 DEF PaidTimeKept, dearest
<1>9. ASSUME NEW e \in events, Counts(e), UNCHANGED <<day, used>> PROVE PaidTimeKept'
  <2> DEFINE c == Offer[e.checkout]
             more == PeriodDays[c.period]
             worth == Price[c.plan]
  <2>1. /\ e.checkout \in Checkouts
        /\ business'.plan = c.plan /\ business'.trialEnds = business.trialEnds
        /\ business'.paidUntil = PaidFrom(business, c.plan) + more
    BY <1>9, CountsBusiness
  <2>2. c.plan \in Plans /\ more \in Nat /\ worth \in Nat \ {0}
    BY <2>1, OfferFits, PriceFits
  <2>3. /\ bought' = bought + more * worth
        /\ changes' = changes + IF c.plan = business.plan THEN 0 ELSE 1
    BY <1>9 DEF Counts
  <2>4. base' = base /\ days' = Larger(0, PaidFrom(business, c.plan) + more - base) /\ left' = days' * worth
    <3>1. day' = day /\ business'.trialEnds = business.trialEnds
      BY <1>9, <2>1
    <3>2. base' = base
      BY <3>1 DEF Larger
    <3>3. days' = Larger(0, PaidFrom(business, c.plan) + more - base)
      <4>1. days' = Larger(0, business'.paidUntil - Larger(day', business'.trialEnds))
        BY DEF Larger
      <4>2. Larger(day', business'.trialEnds) = base
        BY <3>1
      <4>3. QED
        <5>1. business'.paidUntil = PaidFrom(business, c.plan) + more
          BY <2>1
        <5>2. PaidFrom(business, c.plan) \in Nat /\ more \in Nat /\ base \in Nat
          BY <1>4, <2>2, PaidFits
        <5> HIDE DEF c, more, base, days
        <5>3. business'.paidUntil - base = PaidFrom(business, c.plan) + more - base
          BY <5>1, <5>2
        <5>4. QED
          BY <4>1, <4>2, <5>3
    <3>4. left' = days' * worth
      BY <2>1
    <3>5. QED
      BY <3>2, <3>3, <3>4
  <2>5. PaidFrom(business, c.plan) \in Nat /\ PaidFrom(business, c.plan) >= base
    BY <2>2, PaidFits
  <2>6. days' = PaidFrom(business, c.plan) - base + more
    BY <1>4, <2>2, <2>4, <2>5 DEF Larger
  <2> DEFINE keeps == PaidFrom(business, c.plan) - base
  <2>7. keeps \in Nat /\ keeps * worth \in Nat /\ more * worth \in Nat /\ left' = keeps * worth + more * worth
    <3>1. keeps \in Nat
      BY <1>4, <2>5
    <3>2. QED
      BY <2>2, <2>4, <2>6, <3>1, Distributes
  <2>8. CASE c.plan = business.plan
    <3>1. keeps = days
      BY <1>2, <1>4, <2>8 DEF PaidFrom, Larger
    <3>2. off' = off
      BY <1>2, <1>4, <1>9, <2>3, <2>7, <2>8, <3>1
    <3>3. QED
      BY <1>2, <1>5, <2>3, <2>8, <3>2 DEF PaidTimeKept, dearest
  <2>9. CASE c.plan # business.plan
    <3>1. keeps = Rounded(left, worth)
      <4>1. PaidFrom(business, c.plan) = base + Carried(business, c.plan, base)
        BY <2>9 DEF PaidFrom
      <4>2. Carried(business, c.plan, base) = Rounded(left, worth)
        BY DEF Carried
      <4>3. Rounded(left, worth) \in Nat
        BY <1>4, <2>2, RoundedFits
      <4>4. QED
        BY <1>4, <4>1, <4>2, <4>3
    <3>2. 2 * (left - keeps * worth) <= worth /\ 2 * (keeps * worth - left) <= worth
      BY <1>4, <2>2, <3>1, RoundedFits
    <3>3. off' = off + (left - keeps * worth)
      BY <1>2, <1>4, <1>9, <2>3, <2>7
    <3>4. changes' * dearest = changes * dearest + dearest /\ changes * dearest \in Int
      <4>1. changes' = changes + 1
        BY <2>3, <2>9
      <4>2. (changes + 1) * dearest = changes * dearest + 1 * dearest /\ changes * dearest \in Int /\ 1 * dearest = dearest
        BY <1>1, <1>2, Distributes
      <4>3. QED
        BY <4>1, <4>2
    <3>5. worth <= dearest
      BY <1>1, <2>2
    <3>6. off \in Int
      BY <1>2, <1>4
    <3> HIDE DEF off, keeps, worth, left
    <3>7. 2 * Larger(off', -off') <= changes' * dearest
      <4>1. keeps * worth \in Int /\ left \in Int /\ worth \in Int
        BY <1>4, <2>2, <2>7
      <4>2. QED
        BY <1>1, <1>5, <3>2, <3>3, <3>4, <3>5, <3>6, <4>1 DEF Larger
    <3>8. QED
      BY <3>7 DEF PaidTimeKept, dearest, off, left
  <2>10. QED
    BY <2>8, <2>9
<1>10. ASSUME NEW p \in Processes, ClaimReminder(p) PROVE PaidTimeKept'
  <2>1. /\ business' = [business EXCEPT !.notice = sweeps[p].key]
        /\ UNCHANGED <<day, bought, used, changes>>
    BY <1>10 DEF ClaimReminder
  <2>2. UNCHANGED <<business.plan, business.trialEnds, business.paidUntil>>
    BY <2>1 DEF BillingTypes, BusinessType
  <2>3. QED
    BY <1>7, <2>1, <2>2
<1>11. QED
  BY <1>6, <1>8, <1>9, <1>10 DEF billingVars, BillingNext, Checkout, Attempt, Look, Send, GiveUp, ApplyEvent, Closes

LEMMA PaymentsStart == BillingInit => PaymentsInv
<1> SUFFICES ASSUME BillingInit PROVE PaymentsInv
  OBVIOUS
<1>1. BillingTypes
  BY BillingTypesStart
<1>2. InvoicesSound
  BY DEF BillingInit, InvoicesSound, IsInjective, ToSet
<1>3. EventsSound
  BY DEF BillingInit, EventsSound, EventsOf
<1>4. PaidTimeKept
  <2> DEFINE dearest == CHOOSE x \in {Price[p] : p \in Plans} : \A p \in Plans : Price[p] <= x
  <2>1. dearest \in Nat
    BY DearestFits
  <2>2. Price[TrialPlan] \in Nat /\ TrialDays \in Nat
    BY BillingAssumption DEF BillingAssumption
  <2>3. Larger(0, business.paidUntil - Larger(day, business.trialEnds)) = 0
    BY <2>2 DEF BillingInit, Larger
  <2>4. bought = 0 /\ used = 0 /\ changes = 0 /\ business.plan = TrialPlan
    BY DEF BillingInit
  <2> HIDE DEF dearest
  <2>5. 0 * Price[TrialPlan] = 0 /\ 0 * dearest = 0
    BY <2>1, <2>2
  <2>6. QED
    BY <2>3, <2>4, <2>5 DEF PaidTimeKept, dearest, Larger
<1>5. QED
  BY <1>1, <1>2, <1>3, <1>4 DEF PaymentsInv

\* Every payment the gateway has an answer for counts once, on an invoice of its own with the next
\* number, and what it paid for is kept whatever plans change and whenever events come or come again
\* (billing.service.ts applyEvent, paidPeriod), for any prices.
THEOREM PaymentsCountHolds == BillingSpec => []PaymentsCount
<1>1. PaymentsInv /\ [BillingNext]_billingVars => PaymentsInv'
  BY BillingTypesKept, InvoicesKept, EventsKept, PaidTimeStays DEF PaymentsInv
<1>2. ASSUME PaymentsInv PROVE PaymentsCount
  <2>1. \A c \in ToSet(invoices) : \E e \in EventsOf(c) : e.kind = "paid"
    BY <1>2 DEF PaymentsInv, InvoicesSound, EventsSound
  <2>2. \A e \in events : <<e.checkout, e.id>> \in recorded /\ e.kind = "paid" /\ checkouts[e.checkout] # "PAID" =>
          \E f \in EventsOf(e.checkout) : f.kind # "paid"
    <3>1. \A e \in events : e.checkout \in Checkouts /\ e \in EventsOf(e.checkout)
      BY <1>2 DEF PaymentsInv, BillingTypes, EventType, EventsOf
    <3>2. QED
      BY <1>2, <3>1 DEF PaymentsInv, EventsSound, Recorded, Unpaid
  <2>3. QED
    BY <1>2, <2>1, <2>2 DEF PaymentsInv, InvoicesSound, PaymentsCount
<1>3. QED
  BY <1>1, <1>2, PaymentsStart, PTL DEF BillingSpec

-----------------------------------------------------------------------------
Due(p) == sweeps[p].at = "due"
Claimed(p) == sweeps[p].at = "claimed"
PeriodEnd == PeriodEnds(business)

Order(kind) == CASE kind = "ending" -> 1 [] kind = "grace" -> 2 [] kind = "read-only" -> 3 [] OTHER -> 0

\* The business has come as far as the reminder says.
Reached(key) ==
    /\ key[2] = PeriodEnd
    /\ \/ key[1] = "ending" /\ PeriodEnd - day <= SoonDays
       \/ key[1] = "grace" /\ PeriodEnd <= day
       \/ key[1] = "read-only" /\ PeriodEnd + GraceDays <= day

\* No round may claim the reminder again: it was of an earlier period, or the row's is as late.
Over(key) ==
    \/ key[2] < PeriodEnd
    \/ /\ key[2] = PeriodEnd /\ business.notice[2] = PeriodEnd
       /\ Order(key[1]) <= Order(business.notice[1])

\* Whatever is known of a period was soon to end when it was read.
KeysSoon ==
    /\ \A key \in sent : key[2] <= day + SoonDays
    /\ \A p \in Processes : sweeps[p] # Resting => sweeps[p].key[2] <= day + SoonDays

PaidBefore == \A p \in Processes : Due(p) => sweeps[p].paid <= Len(invoices)

NoticeReached == business.notice = NoNotice \/ Reached(business.notice)
SentOver == \A key \in sent : Over(key)
ClaimedOver ==
    \A p \in Processes : Claimed(p) =>
        /\ Over(sweeps[p].key) /\ sweeps[p].key \notin sent
        /\ \A q \in Processes \ {p} : Claimed(q) => sweeps[q].key # sweeps[p].key
DueLater ==
    \A p \in Processes : Due(p) /\ sweeps[p].paid = Len(invoices) =>
        /\ Reached(sweeps[p].key)
        /\ Order(sweeps[p].key[1]) > Order(sweeps[p].notice[1])

RemindersSound == ~again /\ NoticeReached /\ SentOver /\ ClaimedOver /\ DueLater
RemindInv == BillingTypes /\ PaidBefore /\ KeysSoon /\ (~overtaken => RemindersSound)

LEMMA EndFits == BillingTypes => PeriodEnd \in Nat
BY DEF BillingTypes, BusinessType, PeriodEnd, PeriodEnds, Larger

LEMMA OrderFits == \A kind : Order(kind) \in 0 .. 3
BY DEF Order

\* A round's sweep, as far as it is.
LEMMA SweepFits ==
    ASSUME BillingTypes, NEW p \in Processes
    PROVE  /\ Due(p) => /\ sweeps[p].key \in KeyType /\ sweeps[p].paid \in Nat /\ sweeps[p] # Resting
                        /\ sweeps[p].notice \in KeyType \cup {NoNotice} /\ ~Claimed(p)
           /\ Claimed(p) => sweeps[p].key \in KeyType /\ sweeps[p] # Resting /\ ~Due(p)
           /\ sweeps[p] = Resting => ~Due(p) /\ ~Claimed(p)
           /\ sweeps[p] # Resting => Due(p) \/ Claimed(p)
BY DEF BillingTypes, Due, Claimed, Resting, DueType, ClaimedType

\* The reminder of now is one the business has reached, and later than any it had before.
LEMMA ReminderReached ==
    ASSUME BillingTypes, Reminder(business) # NoNotice
    PROVE  /\ Reached(Reminder(business))
           /\ Reminder(business)[2] <= day + SoonDays
           /\ \A key \in KeyType : Reached(key) /\ key # Reminder(business) =>
                 Order(Reminder(business)[1]) > Order(key[1])
<1> DEFINE end == PeriodEnd
<1>1. day \in Nat /\ end \in Nat /\ SoonDays \in Nat /\ GraceDays \in Nat
  BY EndFits, BillingAssumption DEF BillingTypes, BillingAssumption
<1>2. \/ Reminder(business) = <<"ending", end>> /\ day < end /\ end - day <= SoonDays
      \/ Reminder(business) = <<"grace", end>> /\ end <= day /\ day < end + GraceDays
      \/ Reminder(business) = <<"read-only", end>> /\ end + GraceDays <= day
  <2>1. StateAt(business) = IF day < end THEN IF day < business.paidUntil THEN "active" ELSE "trial"
                            ELSE IF day < end + GraceDays THEN "past_due" ELSE "read_only"
    BY DEF StateAt, PeriodEnd
  <2>2. Reminder(business) =
          CASE StateAt(business) \in {"trial", "active"} /\ end - day <= SoonDays -> <<"ending", end>>
            [] StateAt(business) = "past_due" -> <<"grace", end>>
            [] StateAt(business) = "read_only" -> <<"read-only", end>>
            [] OTHER -> NoNotice
    BY DEF Reminder, PeriodEnd
  <2> HIDE DEF end
  <2>3. CASE day < end
    BY <1>1, <2>1, <2>2, <2>3
  <2>4. CASE end <= day /\ day < end + GraceDays
    BY <1>1, <2>1, <2>2, <2>4
  <2>5. CASE end + GraceDays <= day
    BY <1>1, <2>1, <2>2, <2>5
  <2>6. QED
    BY <1>1, <2>3, <2>4, <2>5
<1> HIDE DEF end
<1>3. Reached(Reminder(business)) /\ Reminder(business)[2] <= day + SoonDays
  BY <1>1, <1>2 DEF Reached, end
<1>4. ASSUME NEW key \in KeyType, Reached(key), key # Reminder(business)
      PROVE  Order(Reminder(business)[1]) > Order(key[1])
  <2>1. key[1] \in Kinds /\ key = <<key[1], end>>
    BY <1>4 DEF KeyType, Reached, end
  <2>2. \/ key[1] = "ending" /\ end - day <= SoonDays
        \/ key[1] = "grace" /\ end <= day
        \/ key[1] = "read-only" /\ end + GraceDays <= day
    BY <1>4 DEF Reached, end
  <2>3. CASE Reminder(business) = <<"ending", end>> /\ day < end
    BY <1>1, <1>4, <2>1, <2>2, <2>3 DEF Order
  <2>4. CASE Reminder(business) = <<"grace", end>> /\ end <= day /\ day < end + GraceDays
    BY <1>1, <1>4, <2>1, <2>2, <2>4 DEF Order
  <2>5. CASE Reminder(business) = <<"read-only", end>>
    BY <1>1, <1>4, <2>1, <2>2, <2>5 DEF Order
  <2>6. QED
    BY <1>2, <2>3, <2>4, <2>5
<1>5. QED
  BY <1>3, <1>4

LEMMA RemindersStart == BillingInit => RemindInv
<1> SUFFICES ASSUME BillingInit PROVE RemindInv
  OBVIOUS
<1>1. BillingTypes
  BY BillingTypesStart
<1>2. PaidBefore /\ KeysSoon
  BY DEF BillingInit, PaidBefore, KeysSoon, Due, Resting
<1>3. RemindersSound
  BY DEF BillingInit, RemindersSound, NoticeReached, SentOver, ClaimedOver, DueLater, Due, Claimed, Resting
<1>4. QED
  BY <1>1, <1>2, <1>3 DEF RemindInv

LEMMA RemindersKept == RemindInv /\ [BillingNext]_billingVars => RemindInv'
<1> SUFFICES ASSUME RemindInv, [BillingNext]_billingVars PROVE RemindInv'
  OBVIOUS
<1> USE DEF payments, reminding
<1>t. BillingTypes /\ PaidBefore /\ KeysSoon /\ (~overtaken => RemindersSound)
  BY DEF RemindInv
<1>u. BillingTypes'
  BY <1>t, BillingTypesKept
<1>e. PeriodEnd \in Nat /\ SoonDays \in Nat /\ GraceDays \in Nat /\ day \in Nat
  BY <1>t, EndFits, BillingAssumption DEF BillingAssumption, BillingTypes
<1>f. PeriodEnd' \in Nat
  BY <1>u DEF BillingTypes, BusinessType, PeriodEnd, PeriodEnds, Larger
<1>k. /\ \A key \in sent : key[2] \in Int
      /\ \A p \in Processes : sweeps[p] # Resting => sweeps[p].key[2] \in Int
  <2>1. \A key \in KeyType : key[2] \in Int
    BY DEF KeyType
  <2>2. \A p \in Processes : sweeps[p] # Resting => sweeps[p].key \in KeyType
    BY <1>t, SweepFits
  <2>3. QED
    BY <1>t, <2>1, <2>2 DEF BillingTypes
\* What a change outside the business, its reminders and its invoices keeps.
<1>1. ASSUME UNCHANGED <<day, business, invoices, sweeps, sent, overtaken, again>> PROVE RemindInv'
  BY <1>t, <1>u, <1>1 DEF RemindInv, PaidBefore, KeysSoon, RemindersSound, NoticeReached, SentOver, ClaimedOver, DueLater,
      Due, Claimed, Over, Reached, PeriodEnd
<1>2. CASE BillingDay
  <2>1. day' = day + 1 /\ UNCHANGED <<business, invoices, sweeps, sent, overtaken, again>>
    BY <1>2 DEF BillingDay
  <2>2. PeriodEnd' = PeriodEnd
    BY <2>1 DEF PeriodEnd
  <2>3. \A key : (Reached(key) => Reached(key)') /\ (Over(key) => Over(key)')
    BY <1>e, <2>1, <2>2 DEF Reached, Over
  <2>4. PaidBefore' /\ KeysSoon'
    BY <1>t, <1>e, <1>k, <2>1 DEF PaidBefore, KeysSoon, Due
  <2>5. RemindersSound => RemindersSound'
    BY <2>1, <2>3 DEF RemindersSound, NoticeReached, SentOver, ClaimedOver, DueLater, Due, Claimed
  <2>6. QED
    BY <1>t, <1>u, <2>1, <2>4, <2>5 DEF RemindInv
<1>3. ASSUME NEW e \in events, Counts(e), UNCHANGED <<day, sweeps, sent, overtaken, again>> PROVE RemindInv'
  <2>1. /\ e.checkout \in Checkouts /\ business'.notice = NoNotice /\ business'.trialEnds = business.trialEnds
        /\ business'.paidUntil = PaidFrom(business, Offer[e.checkout].plan) + PeriodDays[Offer[e.checkout].period]
    BY <1>t, <1>3, CountsBusiness
  <2>2. PeriodEnd' > day + SoonDays
    <3> DEFINE c == Offer[e.checkout]
               from == PaidFrom(business, c.plan)
               more == PeriodDays[c.period]
    <3>1. more \in Nat /\ more > SoonDays /\ c.plan \in Plans
      BY <2>1, OfferFits
    <3>2. from \in Nat /\ from >= day
      <4>1. c.plan \in Plans
        BY <3>1
      <4>2. from \in Nat /\ from >= Larger(day, business.trialEnds)
        BY <1>t, <4>1, PaidFits
      <4>3. business.trialEnds \in Nat
        BY <1>t DEF BillingTypes, BusinessType
      <4>4. QED
        BY <1>e, <4>2, <4>3 DEF Larger
    <3>3. business'.paidUntil > day + SoonDays /\ business'.paidUntil \in Nat
      BY <1>e, <2>1, <3>1, <3>2
    <3>4. business'.trialEnds \in Nat
      BY <1>t, <2>1 DEF BillingTypes, BusinessType
    <3>5. PeriodEnd' >= business'.paidUntil
      BY <3>3, <3>4 DEF PeriodEnd, PeriodEnds, Larger
    <3>6. QED
      BY <1>e, <1>f, <3>3, <3>5
  <2>3. /\ \A key \in sent : key[2] < PeriodEnd'
        /\ \A p \in Processes : sweeps[p] # Resting => sweeps[p].key[2] < PeriodEnd'
    BY <1>t, <1>e, <1>f, <1>k, <2>2 DEF KeysSoon
  <2>4. Len(invoices') = Len(invoices) + 1 /\ Len(invoices) \in Nat
    BY <1>t, <1>3, <2>1 DEF Counts, BillingTypes
  <2>5. \A p \in Processes : Due(p) => sweeps[p].paid \in Nat /\ sweeps[p].paid <= Len(invoices)
    BY <1>t, SweepFits DEF PaidBefore
  <2>6. PaidBefore' /\ DueLater'
    BY <1>3, <2>4, <2>5 DEF PaidBefore, DueLater, Due
  <2>7. KeysSoon'
    BY <1>t, <1>3 DEF KeysSoon
  <2>8. SentOver' /\ NoticeReached'
    BY <1>3, <2>1, <2>3 DEF SentOver, NoticeReached, Over
  <2>9. RemindersSound => ClaimedOver'
    <3>1. \A p \in Processes : Claimed(p) => sweeps[p] # Resting
      BY <1>t, SweepFits
    <3>2. QED
      BY <1>3, <2>3, <3>1 DEF RemindersSound, ClaimedOver, Claimed, Over
  <2>10. RemindersSound => RemindersSound'
    BY <1>3, <2>6, <2>8, <2>9 DEF RemindersSound
  <2>11. QED
    BY <1>t, <1>u, <1>3, <2>6, <2>7, <2>10 DEF RemindInv
<1>4. ASSUME NEW p \in Processes, Look(p) PROVE RemindInv'
  <2> DEFINE key == Reminder(business)
             due == [at |-> "due", notice |-> business.notice, key |-> key, paid |-> Len(invoices)]
  <2>1. /\ key # NoNotice /\ key # business.notice
        /\ sweeps' = [sweeps EXCEPT ![p] = due]
        /\ UNCHANGED <<day, business, invoices, sent, overtaken, again>>
    BY <1>4 DEF Look
  <2>2. /\ Reached(key) /\ key[2] <= day + SoonDays
        /\ \A k \in KeyType : Reached(k) /\ k # key => Order(key[1]) > Order(k[1])
    BY <1>t, <2>1, ReminderReached
  <2>3. key \in KeyType /\ business.notice \in KeyType \cup {NoNotice} /\ Len(invoices) \in Nat
    BY <1>t, <2>1, ReminderFits DEF BillingTypes, BusinessType
  <2>4. NoticeReached => Order(key[1]) > Order(business.notice[1])
    <3>1. Order(key[1]) > 0
      BY <2>3 DEF KeyType, Kinds, Order
    <3>2. Order(NoNotice[1]) = 0
      BY DEF NoNotice, Order
    <3>3. QED
      BY <2>1, <2>2, <2>3, <3>1, <3>2 DEF NoticeReached
  <2>5. due.at = "due" /\ due.notice = business.notice /\ due.key = key /\ due.paid = Len(invoices)
    OBVIOUS
  <2> HIDE DEF due, key
  <2>6. \A q \in Processes : sweeps'[q] = IF q = p THEN due ELSE sweeps[q]
    BY <1>t, <2>1 DEF BillingTypes
  <2>7. PeriodEnd' = PeriodEnd /\ (\A k : (Over(k) <=> Over(k)') /\ (Reached(k) <=> Reached(k)'))
    BY <2>1 DEF PeriodEnd, Over, Reached
  <2>8. PaidBefore' /\ KeysSoon'
    BY <1>t, <2>1, <2>2, <2>3, <2>5, <2>6 DEF PaidBefore, KeysSoon, Due
  <2>9. RemindersSound => NoticeReached' /\ SentOver'
    BY <2>1, <2>7 DEF RemindersSound, NoticeReached, SentOver
  <2>10. RemindersSound => ClaimedOver'
    BY <2>1, <2>5, <2>6, <2>7 DEF RemindersSound, ClaimedOver, Claimed
  <2>11. RemindersSound => DueLater'
    BY <2>1, <2>2, <2>4, <2>5, <2>6, <2>7 DEF RemindersSound, DueLater, Due
  <2>12. QED
    BY <1>t, <1>u, <2>1, <2>8, <2>9, <2>10, <2>11 DEF RemindInv, RemindersSound
<1>5. ASSUME NEW p \in Processes, ClaimReminder(p) PROVE RemindInv'
  <2>k. PICK key : key = sweeps[p].key
    OBVIOUS
  <2> DEFINE claim == [at |-> "claimed", key |-> key]
  <2>1. /\ Due(p) /\ business.notice = sweeps[p].notice
        /\ business' = [business EXCEPT !.notice = key]
        /\ sweeps' = [sweeps EXCEPT ![p] = claim]
        /\ overtaken' = (overtaken \/ sweeps[p].paid # Len(invoices))
        /\ UNCHANGED <<day, invoices, sent, again>>
    BY <1>5, <2>k DEF ClaimReminder, ReminderDue, Due
  <2>2. key \in KeyType /\ sweeps[p] # Resting /\ ~Claimed(p)
    BY <1>t, <2>1, <2>k, SweepFits
  <2>3. claim.at = "claimed" /\ claim.key = key
    OBVIOUS
  <2>4. business'.notice = key /\ PeriodEnd' = PeriodEnd
    BY <1>t, <2>1 DEF BillingTypes, BusinessType, PeriodEnd, PeriodEnds
  <2> HIDE DEF claim
  <2>5. \A q \in Processes : sweeps'[q] = IF q = p THEN claim ELSE sweeps[q]
    BY <1>t, <2>1 DEF BillingTypes
  <2>6. key[2] <= day + SoonDays
    BY <1>t, <2>2, <2>k DEF KeysSoon
  <2>7. KeysSoon'
    BY <1>t, <2>1, <2>3, <2>5, <2>6 DEF KeysSoon
  <2>8. PaidBefore'
    BY <1>t, <2>1, <2>3, <2>5 DEF PaidBefore, Due
  <2>9. ASSUME ~overtaken' PROVE RemindersSound'
    <3>1. RemindersSound /\ sweeps[p].paid = Len(invoices)
      BY <1>t, <2>1, <2>9
    <3>2. Reached(key) /\ Order(key[1]) > Order(business.notice[1])
      BY <2>1, <2>k, <3>1 DEF RemindersSound, DueLater
    <3>3. key[2] = PeriodEnd
      BY <3>2 DEF Reached
    <3>4. \A k : Over(k) => k # key /\ Over(k)'
      <4>1. ASSUME NEW k, Over(k) PROVE k # key /\ Over(k)'
        <5>1. Order(k[1]) \in Nat /\ Order(key[1]) \in Nat /\ Order(business.notice[1]) \in Nat
          BY OrderFits
        <5>2. k # key
          BY <1>e, <3>2, <3>3, <4>1, <5>1 DEF Over
        <5>3. Over(k)'
          BY <2>4, <3>2, <3>3, <4>1, <5>1 DEF Over
        <5>4. QED
          BY <5>2, <5>3
      <4>2. QED
        BY <4>1
    <3>5. Over(key)'
      <4>1. Order(key[1]) \in Nat
        BY OrderFits
      <4>2. QED
        BY <2>4, <3>3, <4>1 DEF Over
    <3>6. \A k : Reached(k) => Reached(k)'
      BY <2>1, <2>4 DEF Reached
    <3>7. NoticeReached'
      BY <2>4, <3>2, <3>6 DEF NoticeReached
    <3>8. SentOver' /\ key \notin sent
      BY <2>1, <3>1, <3>4 DEF RemindersSound, SentOver
    <3>9. ClaimedOver'
      <4>1. \A q \in Processes \ {p} : Claimed(q)' => Claimed(q) /\ sweeps'[q] = sweeps[q]
        BY <2>5 DEF Claimed
      <4>2. \A q \in Processes : \A k : Claimed(q) /\ sweeps[q].key = k => Over(k)' /\ k # key
        BY <3>1, <3>4 DEF RemindersSound, ClaimedOver
      <4>3. \A q \in Processes \ {p} : Claimed(q)' => Over(sweeps[q].key)' /\ sweeps'[q].key # key /\ sweeps'[q].key \notin sent
        BY <3>1, <4>1, <4>2 DEF RemindersSound, ClaimedOver
      <4>4. sweeps'[p].key = key
        BY <2>3, <2>5
      <4>5. \A q, r \in Processes \ {p} : Claimed(q)' /\ Claimed(r)' /\ q # r => sweeps'[q].key # sweeps'[r].key
        BY <3>1, <4>1 DEF RemindersSound, ClaimedOver
      <4>6. QED
        BY <2>1, <3>5, <3>8, <4>3, <4>4, <4>5 DEF ClaimedOver
    <3>10. DueLater'
      <4>1. \A q \in Processes : Due(q)' => Due(q) /\ sweeps'[q] = sweeps[q]
        BY <2>3, <2>5 DEF Due
      <4>2. QED
        BY <2>1, <3>1, <3>6, <4>1 DEF RemindersSound, DueLater
    <3>11. QED
      BY <2>1, <3>1, <3>7, <3>8, <3>9, <3>10 DEF RemindersSound
  <2>10. QED
    BY <1>u, <2>7, <2>8, <2>9 DEF RemindInv
<1>6. ASSUME NEW p \in Processes, Send(p) \/ GiveUp(p) PROVE RemindInv'
  <2>1. /\ sweeps' = [sweeps EXCEPT ![p] = Resting]
        /\ UNCHANGED <<day, business, invoices, overtaken>>
    BY <1>6 DEF Send, GiveUp
  <2>2. \A q \in Processes : sweeps'[q] = IF q = p THEN Resting ELSE sweeps[q]
    BY <1>t, <2>1 DEF BillingTypes
  <2>3. \A q \in Processes : (Due(q)' \/ Claimed(q)') => q # p /\ sweeps'[q] = sweeps[q]
    BY <2>2 DEF Due, Claimed, Resting
  <2>4. \/ UNCHANGED <<sent, again>>
        \/ /\ Claimed(p) /\ sent' = sent \cup {sweeps[p].key}
           /\ again' = (again \/ sweeps[p].key \in sent)
    <3>1. CASE Send(p)
      BY <3>1 DEF Send, Claimed
    <3>2. CASE GiveUp(p)
      BY <3>2 DEF GiveUp
    <3>3. QED
      BY <1>6, <3>1, <3>2
  <2>5. PaidBefore'
    BY <1>t, <2>1, <2>3 DEF PaidBefore, Due
  <2>6. Claimed(p) => sweeps[p].key[2] <= day + SoonDays
    BY <1>t, SweepFits DEF KeysSoon
  <2>7. KeysSoon'
    BY <1>t, <2>1, <2>2, <2>4, <2>6 DEF KeysSoon
  <2>8. \A k : (Over(k) => Over(k)') /\ (Reached(k) => Reached(k)')
    BY <2>1 DEF Over, Reached, PeriodEnd
  <2>9. ASSUME RemindersSound PROVE RemindersSound'
    <3>a. Claimed(p) => sweeps[p].key \notin sent
      BY <2>9 DEF RemindersSound, ClaimedOver
    <3>b. ~again'
      BY <2>4, <2>9, <3>a DEF RemindersSound
    <3>c. NoticeReached'
      BY <2>1, <2>8, <2>9 DEF RemindersSound, NoticeReached
    <3>1. ~again' /\ NoticeReached'
      BY <3>b, <3>c
    <3>2. SentOver'
      BY <2>4, <2>8, <2>9 DEF RemindersSound, SentOver, ClaimedOver
    <3>3. ClaimedOver'
      BY <2>3, <2>4, <2>8, <2>9 DEF RemindersSound, ClaimedOver, Claimed
    <3>4. DueLater'
      BY <2>1, <2>3, <2>8, <2>9 DEF RemindersSound, DueLater, Due
    <3>5. QED
      BY <3>1, <3>2, <3>3, <3>4 DEF RemindersSound
  <2>10. QED
    BY <1>t, <1>u, <2>1, <2>5, <2>7, <2>9 DEF RemindInv
<1>7. QED
  BY <1>1, <1>2, <1>3, <1>4, <1>5, <1>6 DEF billingVars, BillingNext, Checkout, Attempt, ApplyEvent, Closes

\* However many processes send reminders, each goes out once, unless a payment overtook the round
\* that sends it (reminders.ts sendDue); every period must be longer than an ending is announced ahead.
THEOREM RemindedOnceHolds == BillingSpec => []RemindedOnce
<1>1. RemindInv => RemindedOnce
  BY DEF RemindInv, RemindersSound, RemindedOnce
<1>2. QED
  BY <1>1, RemindersStart, RemindersKept, PTL DEF BillingSpec

\* A payment that counted or was closed stays so: no event that comes late or again changes it.
THEOREM SettledPaymentsStand ==
    BillingSpec => [][\A c \in Checkouts : checkouts[c] \in {"PAID", "FAILED"} => checkouts'[c] = checkouts[c]]_billingVars
<1>1. ASSUME BillingTypes, [BillingNext]_billingVars
      PROVE  \A c \in Checkouts : checkouts[c] \in {"PAID", "FAILED"} => checkouts'[c] = checkouts[c]
  BY <1>1 DEF BillingTypes, billingVars, payments, reminding, BillingNext, BillingDay, Checkout, Attempt, Look, ClaimReminder,
      Send, GiveUp, ApplyEvent, StillWaiting, Counts, Closes
<1>2. QED
  BY <1>1, BillingTypesStart, BillingTypesKept, PTL DEF BillingSpec

-----------------------------------------------------------------------------
(* TenantClients.                                                          *)

WorkType == [Requests -> Works \cup {NoWork}]

\* Who uses a business's client, and who will look for one while there is time.
UsersOf(w, b) == {r \in Requests : /\ w[r].business = b
                                 /\ \/ w[r].release /\ ~w[r].closed
                                    \/ r \in Jobs /\ w[r].at = "working"}
Coming(w) == {r \in Requests : w[r].at \in {"asking", "woken"} /\ ~w[r].late}
Awake(w) == {r \in Requests : w[r].at = "woken" /\ ~w[r].late}
Busy == {b \in Businesses : active[b] > 0}

\* Without a caller going away a response closes once, after its request's work.
WorkSound(w) ==
  /\ w \in WorkType
  /\ \A r \in Requests :
       /\ ~w[r].closed
       /\ w[r].release <=> r \notin Jobs /\ w[r].at \in {"working", "answered"}
       /\ w[r].at \in {"answered", "refused"} => r \notin Jobs
       /\ w[r].at \in {"asking", "waiting"} => ~w[r].late

\* `waiting` holds everyone who waits, once each, beside those whose timer went off.
Line(queue, w) ==
  /\ queue \in Seq(Requests \cup {TimedOut})
  /\ \A i \in 1 .. Len(queue) : queue[i] \in Requests => w[queue[i]].at = "waiting"
  /\ \A i, j \in 1 .. Len(queue) : queue[i] = queue[j] /\ queue[i] \in Requests => i = j
  /\ \A r \in Requests : w[r].at = "waiting" => \E i \in 1 .. Len(queue) : queue[i] = r

KeptSound ==
  /\ kept \in Seq(Businesses) /\ IsInjective(kept) /\ Len(kept) <= MaxClients
  /\ active \in [Businesses -> Nat]
  /\ Busy \subseteq ToSet(kept)

UsesCounted == \A b \in Businesses : active[b] = Cardinality(UsersOf(work, b))

Short(queue, w) == Len(queue) + Cardinality(Coming(w)) <= MaxWaiting

\* While somebody waits, every free place has somebody on the way to it.
EnoughWoken ==
  ~wasted /\ (\E r \in Requests : work[r].at = "waiting") =>
     MaxClients <= Cardinality(Busy) + Cardinality(Awake(work))

ClientsInv ==
  /\ wasted \in BOOLEAN
  /\ WorkSound(work) /\ Line(waiting, work) /\ KeptSound /\ UsesCounted /\ Short(waiting, work) /\ EnoughWoken

-----------------------------------------------------------------------------
(* Sets of requests, sequences of businesses.                              *)

LEMMA SomeRequests ==
    ASSUME NEW S \in SUBSET Requests
    PROVE  IsFiniteSet(S) /\ Cardinality(S) \in Nat /\ Cardinality(S) <= Cardinality(Requests)
<1>1. IsFiniteSet(Requests)
  BY TenantClientsAssumption DEF TenantClientsAssumption
<1>2. QED
  BY <1>1, FS_Subset, FS_CardinalityType

LEMMA OneMore ==
    ASSUME NEW S \in SUBSET Requests, NEW r \in Requests
    PROVE  /\ r \notin S => Cardinality(S \cup {r}) = Cardinality(S) + 1
           /\ r \in S => Cardinality(S \ {r}) = Cardinality(S) - 1
<1>1. IsFiniteSet(S)
  BY SomeRequests
<1>2. QED
  BY <1>1, FS_AddElement, FS_RemoveElement

LEMMA MoreRequests ==
    ASSUME NEW S \in SUBSET Requests, NEW T \in SUBSET S
    PROVE  Cardinality(T) <= Cardinality(S)
BY SomeRequests, FS_Subset

LEMMA QueueAppended ==
    ASSUME NEW S, NEW s \in Seq(S), NEW x \in S, IsInjective(s), x \notin ToSet(s)
    PROVE  /\ Append(s, x) \in Seq(S) /\ Len(Append(s, x)) = Len(s) + 1
           /\ IsInjective(Append(s, x)) /\ ToSet(Append(s, x)) = ToSet(s) \cup {x}
<1>1. /\ Append(s, x) \in Seq(S) /\ Len(Append(s, x)) = Len(s) + 1
      /\ DOMAIN Append(s, x) = 1 .. Len(s) + 1 /\ DOMAIN s = 1 .. Len(s)
      /\ \A i \in 1 .. Len(s) : Append(s, x)[i] = s[i]
      /\ Append(s, x)[Len(s) + 1] = x
      /\ Len(s) \in Nat
  OBVIOUS
<1>2. \A i \in 1 .. Len(s) : s[i] # x
  BY <1>1 DEF ToSet
<1>3. IsInjective(Append(s, x))
  BY <1>1, <1>2 DEF IsInjective
<1>4. ToSet(Append(s, x)) = ToSet(s) \cup {x}
  BY <1>1 DEF ToSet
<1>5. QED
  BY <1>1, <1>3, <1>4

LEMMA Dropped ==
    ASSUME NEW S, NEW s \in Seq(S), IsInjective(s), NEW i \in DOMAIN s
    PROVE  /\ RemoveAt(s, i) \in Seq(S) /\ Len(RemoveAt(s, i)) = Len(s) - 1
           /\ IsInjective(RemoveAt(s, i)) /\ ToSet(RemoveAt(s, i)) = ToSet(s) \ {s[i]}
<1> DEFINE t == RemoveAt(s, i)
<1>1. Len(s) \in Nat /\ DOMAIN s = 1 .. Len(s) /\ i \in 1 .. Len(s)
  OBVIOUS
<1>2. /\ t \in Seq(S) /\ Len(t) = Len(s) - 1
      /\ \A j \in 1 .. Len(s) - 1 : t[j] = IF j < i THEN s[j] ELSE s[j + 1]
  <2> DEFINE a == SubSeq(s, 1, i - 1)
             z == SubSeq(s, i + 1, Len(s))
  <2>1. /\ a \in Seq(S) /\ Len(a) = i - 1
        /\ \A j \in 1 .. i - 1 : a[j] = s[j]
    BY <1>1, SubSeqProperties
  <2>2. /\ z \in Seq(S) /\ Len(z) = Len(s) - i
        /\ \A j \in 1 .. Len(s) - i : z[j] = s[i + j]
    BY <1>1, SubSeqProperties
  <2>3. t = a \o z
    BY DEF RemoveAt
  <2> HIDE DEF a, z, t
  <2>4. /\ t \in Seq(S) /\ Len(t) = Len(s) - 1
        /\ \A j \in 1 .. Len(s) - 1 : t[j] = IF j <= i - 1 THEN a[j] ELSE z[j - (i - 1)]
    <3>1. /\ t \in Seq(S) /\ Len(t) = Len(a) + Len(z)
          /\ \A j \in 1 .. Len(a) + Len(z) : t[j] = IF j <= Len(a) THEN a[j] ELSE z[j - Len(a)]
      BY <2>1, <2>2, <2>3, ConcatProperties, Zenon
    <3>2. Len(a) + Len(z) = Len(s) - 1
      BY <1>1, <2>1, <2>2
    <3>3. QED
      BY <2>1, <3>1, <3>2, Zenon
  <2>5. ASSUME NEW j \in 1 .. Len(s) - 1 PROVE t[j] = IF j < i THEN s[j] ELSE s[j + 1]
    <3>1. CASE j < i
      BY <1>1, <2>1, <2>4, <3>1
    <3>2. CASE ~(j < i)
      <4>1. j - (i - 1) \in 1 .. Len(s) - i /\ i + (j - (i - 1)) = j + 1
        BY <1>1, <3>2
      <4>2. QED
        BY <1>1, <2>2, <2>4, <3>2, <4>1
    <3>3. QED
      BY <3>1, <3>2
  <2>6. QED
    BY <2>4, <2>5
<1> HIDE DEF t
<1>3. DOMAIN t = 1 .. Len(s) - 1
  BY <1>2
<1>4. IsInjective(t)
  <2>1. ASSUME NEW j \in 1 .. Len(s) - 1, NEW k \in 1 .. Len(s) - 1, t[j] = t[k] PROVE j = k
    <3>1. j \in DOMAIN s /\ j + 1 \in DOMAIN s /\ k \in DOMAIN s /\ k + 1 \in DOMAIN s
      BY <1>1
    <3>2. PICK l \in DOMAIN s : t[j] = s[l] /\ l = IF j < i THEN j ELSE j + 1
      BY <1>2, <3>1
    <3>3. PICK m \in DOMAIN s : t[k] = s[m] /\ m = IF k < i THEN k ELSE k + 1
      BY <1>2, <3>1
    <3>4. l = m
      BY <2>1, <3>2, <3>3 DEF IsInjective
    <3>5. QED
      BY <1>1, <3>2, <3>3, <3>4
  <2>2. QED
    BY <1>3, <2>1 DEF IsInjective
<1>5. ToSet(t) = ToSet(s) \ {s[i]}
  <2>1. ASSUME NEW x \in ToSet(t) PROVE x \in ToSet(s) \ {s[i]}
    BY <1>1, <1>2, <1>3 DEF ToSet, IsInjective
  <2>2. ASSUME NEW x \in ToSet(s) \ {s[i]} PROVE x \in ToSet(t)
    <3>1. PICK j \in 1 .. Len(s) : x = s[j] /\ j # i
      BY <1>1 DEF ToSet
    <3>2. CASE j < i
      BY <1>1, <1>2, <1>3, <3>1, <3>2 DEF ToSet
    <3>3. CASE j > i
      <4>1. j - 1 \in 1 .. Len(s) - 1 /\ ~(j - 1 < i) /\ (j - 1) + 1 = j
        BY <1>1, <3>1, <3>3
      <4>2. t[j - 1] = x
        BY <1>2, <3>1, <4>1
      <4>3. QED
        BY <1>3, <4>1, <4>2 DEF ToSet
    <3>4. QED
      BY <1>1, <3>1, <3>2, <3>3
  <2>3. QED
    BY <2>1, <2>2
<1>6. QED
  BY <1>2, <1>4, <1>5 DEF t

LEMMA KeptCounted ==
    ASSUME NEW s \in Seq(Businesses), IsInjective(s)
    PROVE  IsFiniteSet(ToSet(s)) /\ Cardinality(ToSet(s)) = Len(s)
<1>1. Len(s) \in Nat /\ DOMAIN s = 1 .. Len(s)
  OBVIOUS
<1>2. s \in Surjection(1 .. Len(s), ToSet(s)) /\ s \in Injection(1 .. Len(s), ToSet(s))
  BY <1>1 DEF Surjection, Injection, ToSet, IsInjective
<1>3. IsFiniteSet(1 .. Len(s)) /\ Cardinality(1 .. Len(s)) = Len(s)
  BY <1>1, FS_Interval
<1>4. QED
  BY <1>2, <1>3, FS_Surjection

-----------------------------------------------------------------------------
(* One request's change, and a wake.                                       *)

\* A request that neither waits nor comes to wait.
LEMMA StaysInLine ==
    ASSUME NEW queue, NEW w \in WorkType, Line(queue, w), NEW r \in Requests, NEW v \in Works \cup {NoWork},
           w[r].at # "waiting", v.at # "waiting"
    PROVE  Line(queue, [w EXCEPT ![r] = v])
<1>1. /\ [w EXCEPT ![r] = v][r] = v
      /\ \A q \in Requests \ {r} : [w EXCEPT ![r] = v][q] = w[q]
  BY DEF WorkType
<1>2. QED
  BY <1>1 DEF Line

\* The first in line is woken: it alone changes, unless its timer went off before.
LEMMA WakeFirst ==
    ASSUME NEW queue, NEW w, WorkSound(w), Line(queue, w), Short(queue, w)
    PROVE  LET n == Woken(queue, w) IN
           /\ WorkSound(n) /\ Line(Shifted(queue), n) /\ Short(Shifted(queue), n)
           /\ \A b \in Businesses : UsersOf(n, b) = UsersOf(w, b)
           /\ Cardinality(Awake(n)) >= Cardinality(Awake(w))
           /\ ~Lost(queue) /\ (\E r \in Requests : w[r].at = "waiting") =>
                 Cardinality(Awake(n)) = Cardinality(Awake(w)) + 1
           /\ \A r \in Requests : n[r].at = "waiting" => w[r].at = "waiting"
<1> DEFINE n == Woken(queue, w)
<1>0. /\ w \in WorkType /\ queue \in Seq(Requests \cup {TimedOut})
      /\ Awake(w) \in SUBSET Requests /\ Coming(w) \in SUBSET Requests
      /\ MaxWaiting \in Nat /\ TimedOut \notin Requests
  BY TenantClientsAssumption DEF WorkSound, Line, Awake, Coming, TenantClientsAssumption
<1>1. CASE queue = << >>
  <2>1. n = w /\ Shifted(queue) = queue /\ ~\E r \in Requests : w[r].at = "waiting"
    BY <1>0, <1>1 DEF Woken, Shifted, Line
  <2>2. Cardinality(Awake(w)) \in Nat
    BY <1>0, SomeRequests
  <2>3. QED
    BY <2>1, <2>2
<1>2. CASE queue # << >>
  <2> DEFINE rest == Tail(queue)
             h == queue[1]
  <2>1. /\ Head(queue) = h /\ Shifted(queue) = rest /\ rest \in Seq(Requests \cup {TimedOut})
        /\ Len(queue) \in Nat \ {0} /\ Len(rest) = Len(queue) - 1
        /\ \A i \in 1 .. Len(rest) : rest[i] = queue[i + 1] /\ i + 1 \in 1 .. Len(queue)
        /\ h \in Requests \cup {TimedOut} /\ 1 \in 1 .. Len(queue)
    BY <1>0, <1>2 DEF Shifted
  <2>2. \A i \in 2 .. Len(queue) : i - 1 \in 1 .. Len(rest) /\ rest[i - 1] = queue[i]
    BY <2>1
  <2> HIDE DEF rest, h
  <2>3. CASE h = TimedOut
    <3>1. n = w /\ Lost(queue)
      BY <1>2, <2>1, <2>3 DEF Woken, Lost
    <3>2. Line(rest, w)
      <4>1. \A i \in 1 .. Len(rest) : rest[i] \in Requests => w[rest[i]].at = "waiting"
        BY <2>1 DEF Line
      <4>2. \A i, j \in 1 .. Len(rest) : rest[i] = rest[j] /\ rest[i] \in Requests => i = j
        BY <2>1 DEF Line
      <4>3. \A r \in Requests : w[r].at = "waiting" => \E i \in 1 .. Len(rest) : rest[i] = r
        <5>1. SUFFICES ASSUME NEW r \in Requests, w[r].at = "waiting" PROVE \E i \in 1 .. Len(rest) : rest[i] = r
          OBVIOUS
        <5>2. PICK i \in 1 .. Len(queue) : queue[i] = r
          BY <5>1 DEF Line
        <5>3. i # 1
          BY <1>0, <2>3, <5>2 DEF h
        <5>4. i \in 2 .. Len(queue)
          BY <2>1, <5>3
        <5>5. QED
          BY <2>2, <5>2, <5>4
      <4>4. QED
        BY <2>1, <4>1, <4>2, <4>3 DEF Line
    <3>3. Short(rest, w)
      <4>1. Cardinality(Coming(w)) \in Nat
        BY <1>0, SomeRequests
      <4>2. QED
        BY <1>0, <2>1, <4>1 DEF Short
    <3>4. Cardinality(Awake(w)) \in Nat
      BY <1>0, SomeRequests
    <3>5. QED
      BY <2>1, <3>1, <3>2, <3>3, <3>4
  <2>4. CASE h \in Requests
    <3>1. w[h].at = "waiting" /\ h # TimedOut
      BY <1>0, <2>1, <2>4 DEF Line, h
    <3>2. w[h] \in Works /\ ~w[h].late /\ ~w[h].closed /\ ~w[h].release
      BY <1>0, <2>4, <3>1 DEF WorkSound, WorkType, NoWork
    <3> DEFINE v == [w[h] EXCEPT !.at = "woken"]
    <3>3. n = [w EXCEPT ![h] = v]
      BY <1>0, <1>2, <2>1, <2>4, <3>1 DEF Woken, WorkType
    <3>4. /\ v \in Works /\ v.at = "woken" /\ v.late = w[h].late /\ v.closed = w[h].closed
          /\ v.release = w[h].release /\ v.business = w[h].business
      BY <3>2 DEF Works, Stages
    <3> HIDE DEF v, n
    <3>5. /\ n \in WorkType /\ n[h] = v
          /\ \A r \in Requests \ {h} : n[r] = w[r]
      <4>1. v \in Works \cup {NoWork}
        BY <3>4
      <4>2. QED
        BY <1>0, <2>4, <3>3, <4>1 DEF WorkType
    <3>6. WorkSound(n)
      BY <2>4, <3>1, <3>2, <3>4, <3>5 DEF WorkSound
    <3>7. Line(rest, n)
      <4>1. \A i \in 1 .. Len(rest) : rest[i] # h
        BY <2>1, <2>4 DEF Line, h
      <4>2. \A i \in 1 .. Len(rest) : rest[i] \in Requests => n[rest[i]].at = "waiting"
        BY <2>1, <3>5, <4>1 DEF Line
      <4>3. \A i, j \in 1 .. Len(rest) : rest[i] = rest[j] /\ rest[i] \in Requests => i = j
        BY <2>1 DEF Line
      <4>4. \A r \in Requests : n[r].at = "waiting" => \E i \in 1 .. Len(rest) : rest[i] = r
        <5>1. SUFFICES ASSUME NEW r \in Requests, n[r].at = "waiting" PROVE \E i \in 1 .. Len(rest) : rest[i] = r
          OBVIOUS
        <5>2. r # h /\ w[r].at = "waiting"
          BY <3>4, <3>5, <5>1
        <5>3. PICK i \in 1 .. Len(queue) : queue[i] = r
          BY <5>2 DEF Line
        <5>4. i \in 2 .. Len(queue)
          BY <2>1, <5>2, <5>3 DEF h
        <5>5. QED
          BY <2>2, <5>3, <5>4
      <4>5. QED
        BY <2>1, <4>2, <4>3, <4>4 DEF Line
    <3>8. Coming(n) = Coming(w) \cup {h} /\ h \notin Coming(w)
      BY <2>4, <3>1, <3>2, <3>4, <3>5 DEF Coming
    <3>9. Awake(n) = Awake(w) \cup {h} /\ h \notin Awake(w)
      BY <2>4, <3>1, <3>2, <3>4, <3>5 DEF Awake
    <3>10. /\ Cardinality(Coming(n)) = Cardinality(Coming(w)) + 1
           /\ Cardinality(Awake(n)) = Cardinality(Awake(w)) + 1
           /\ Cardinality(Coming(w)) \in Nat /\ Cardinality(Awake(w)) \in Nat
      BY <1>0, <2>4, <3>8, <3>9, OneMore, SomeRequests
    <3>11. Short(rest, n)
      BY <1>0, <2>1, <3>10 DEF Short
    <3>12. \A b \in Businesses : UsersOf(n, b) = UsersOf(w, b)
      BY <2>4, <3>1, <3>2, <3>4, <3>5 DEF UsersOf
    <3>13. \A r \in Requests : n[r].at = "waiting" => w[r].at = "waiting"
      BY <3>4, <3>5
    <3>14. QED
      BY <2>1, <3>6, <3>7, <3>10, <3>11, <3>12, <3>13 DEF n
  <2>5. QED
    BY <2>1, <2>3, <2>4
<1>3. QED
  BY <1>1, <1>2

-----------------------------------------------------------------------------
(* Free places.                                                            *)

LEMMA BusyCounted ==
    ASSUME KeptSound
    PROVE  /\ IsFiniteSet(Busy) /\ Cardinality(Busy) \in Nat
           /\ Free => Cardinality(Busy) < MaxClients
           /\ ~Free => Cardinality(Busy) >= MaxClients
<1>1. /\ kept \in Seq(Businesses) /\ Len(kept) \in Nat /\ DOMAIN kept = 1 .. Len(kept)
      /\ MaxClients \in Nat /\ Len(kept) <= MaxClients /\ Busy \subseteq ToSet(kept)
      /\ active \in [Businesses -> Nat]
  BY TenantClientsAssumption DEF KeptSound, TenantClientsAssumption
<1>2. IsFiniteSet(ToSet(kept)) /\ Cardinality(ToSet(kept)) = Len(kept)
  BY KeptCounted DEF KeptSound
<1>3. IsFiniteSet(Busy) /\ Cardinality(Busy) \in Nat /\ Cardinality(Busy) <= Len(kept)
  BY <1>1, <1>2, FS_Subset, FS_CardinalityType
<1>4. ASSUME NEW i \in IdleClients PROVE Cardinality(Busy) < Len(kept)
  <2>1. kept[i] \in ToSet(kept) /\ kept[i] \notin Busy
    BY <1>1, <1>4 DEF IdleClients, ToSet, Busy
  <2>2. IsFiniteSet(ToSet(kept) \ {kept[i]}) /\ Cardinality(ToSet(kept) \ {kept[i]}) = Len(kept) - 1
    BY <1>2, <2>1, FS_RemoveElement
  <2>3. Busy \subseteq ToSet(kept) \ {kept[i]}
    BY <1>1, <2>1
  <2>4. Cardinality(Busy) <= Cardinality(ToSet(kept) \ {kept[i]})
    BY <2>2, <2>3, FS_Subset
  <2>5. QED
    BY <1>1, <1>3, <2>2, <2>4
<1>5. ASSUME ~Free PROVE Cardinality(Busy) >= MaxClients
  <2>0. ~(Len(kept) < MaxClients) /\ IdleClients = {}
    BY <1>5, Zenon DEF Free
  <2>1. Len(kept) >= MaxClients
    BY <1>1, <2>0
  <2>2. ToSet(kept) \subseteq Busy
    BY <1>1, <2>0 DEF ToSet, IdleClients, Busy
  <2>3. Cardinality(ToSet(kept)) <= Cardinality(Busy)
    BY <1>3, <2>2, FS_Subset
  <2>4. QED
    BY <1>1, <1>2, <1>3, <2>1, <2>3
<1>6. Free => Cardinality(Busy) < MaxClients
  BY <1>1, <1>3, <1>4 DEF Free
<1>7. QED
  BY <1>3, <1>5, <1>6

\* Making room drops nobody's client but the business's own and an idle one.
LEMMA RoomMade ==
    ASSUME KeptSound, NEW b \in Businesses, Kept(b) \/ Free, NEW rest \in WithRoom(b)
    PROVE  /\ rest \in Seq(Businesses) /\ IsInjective(rest) /\ Len(rest) < MaxClients
           /\ b \notin ToSet(rest) /\ Busy \ {b} \subseteq ToSet(rest)
<1>1. /\ kept \in Seq(Businesses) /\ Len(kept) \in Nat /\ DOMAIN kept = 1 .. Len(kept)
      /\ MaxClients \in Nat /\ Len(kept) <= MaxClients /\ Busy \subseteq ToSet(kept)
      /\ IsInjective(kept)
  BY TenantClientsAssumption DEF KeptSound, TenantClientsAssumption
<1>2. Kept(b) <=> b \in ToSet(kept)
  BY <1>1 DEF Kept, Contains, ToSet
<1>3. CASE Kept(b)
  <2>1. PICK i \in DOMAIN kept : kept[i] = b /\ rest = RemoveAt(kept, i)
    BY <1>3 DEF WithRoom, Dropping, PlaceOf
  <2>2. /\ rest \in Seq(Businesses) /\ Len(rest) = Len(kept) - 1
        /\ IsInjective(rest) /\ ToSet(rest) = ToSet(kept) \ {b}
    BY <1>1, <2>1, Dropped
  <2>3. QED
    BY <1>1, <2>2
<1>4. CASE ~Kept(b) /\ Len(kept) < MaxClients
  BY <1>1, <1>2, <1>4 DEF WithRoom
<1>5. CASE ~Kept(b) /\ ~(Len(kept) < MaxClients)
  <2>1. PICK i \in DOMAIN kept : active[kept[i]] = 0 /\ rest = RemoveAt(kept, i)
    BY <1>5 DEF WithRoom, Dropping, LeastRecentIdle, IdleClients
  <2>2. /\ rest \in Seq(Businesses) /\ Len(rest) = Len(kept) - 1
        /\ IsInjective(rest) /\ ToSet(rest) = ToSet(kept) \ {kept[i]}
    BY <1>1, <2>1, Dropped
  <2>3. kept[i] \notin Busy
    BY <2>1 DEF Busy
  <2>4. QED
    BY <1>1, <1>2, <1>5, <2>2, <2>3
<1>6. QED
  BY <1>3, <1>4, <1>5

-----------------------------------------------------------------------------
(* The steps.                                                              *)

LEMMA ArriveKeeps ==
    ASSUME ClientsInv, NEW r \in Requests, NEW b \in Businesses, Arrive(r, b)
    PROVE  ClientsInv'
<1> DEFINE v == [NoWork EXCEPT !.at = "asking", !.business = b]
<1>1. /\ v \in Works /\ v.at = "asking" /\ ~v.late /\ ~v.closed /\ ~v.release
      /\ work' = [work EXCEPT ![r] = v] /\ work[r].at = "none" /\ ~work[r].release
      /\ UNCHANGED <<kept, active, waiting, wasted>>
  <2>1. v \in Works /\ v.at = "asking" /\ ~v.late /\ ~v.closed /\ ~v.release
    BY DEF NoWork, Works, Stages
  <2>2. work' = [work EXCEPT ![r] = v] /\ work[r] = NoWork /\ UNCHANGED <<kept, active, waiting, wasted>>
    BY DEF Arrive
  <2>3. work[r].at = "none" /\ ~work[r].release
    BY <2>2 DEF NoWork
  <2>4. QED
    BY <2>1, <2>2, <2>3
<1> HIDE DEF v
<1>2. work \in WorkType /\ work' \in WorkType /\ work'[r] = v /\ \A q \in Requests \ {r} : work'[q] = work[q]
  BY <1>1 DEF ClientsInv, WorkSound, WorkType
<1>3. WorkSound(work')
  BY <1>1, <1>2 DEF ClientsInv, WorkSound
<1>4. Line(waiting, work')
  BY <1>1, <1>2, StaysInLine DEF ClientsInv
<1>5. \A c \in Businesses : UsersOf(work', c) = UsersOf(work, c)
  BY <1>1, <1>2 DEF UsersOf
<1>6. Short(waiting, work')
  <2> DEFINE Here == {q \in Requests : work[q].at \in {"asking", "woken"}}
  <2>1. Coming(work') = Coming(work) \cup {r} /\ r \notin Coming(work)
    BY <1>1, <1>2 DEF Coming
  <2>2. Coming(work) \in SUBSET Here /\ Here \in SUBSET Requests /\ Coming(work) \in SUBSET Requests
    BY DEF Coming
  <2>3. Len(waiting) + Cardinality(Here) < MaxWaiting
    BY DEF Arrive
  <2> HIDE DEF Here
  <2>4. /\ Cardinality(Coming(work')) = Cardinality(Coming(work)) + 1
        /\ Cardinality(Coming(work)) <= Cardinality(Here)
        /\ Cardinality(Coming(work)) \in Nat /\ Cardinality(Here) \in Nat
    BY <2>1, <2>2, OneMore, MoreRequests, SomeRequests
  <2>5. Len(waiting) \in Nat /\ MaxWaiting \in Nat
    BY TenantClientsAssumption DEF ClientsInv, Line, TenantClientsAssumption
  <2>6. QED
    BY <2>3, <2>4, <2>5 DEF Short
<1>7. Awake(work') = Awake(work) /\ \A q \in Requests : work'[q].at = "waiting" => work[q].at = "waiting"
  BY <1>1, <1>2 DEF Awake
<1>8. EnoughWoken'
  BY <1>1, <1>7 DEF ClientsInv, EnoughWoken, Busy
<1>9. KeptSound' /\ UsesCounted'
  BY <1>1, <1>5 DEF ClientsInv, KeptSound, UsesCounted, Busy
<1>10. QED
  BY <1>1, <1>3, <1>4, <1>6, <1>8, <1>9 DEF ClientsInv

LEMMA AcquireKeeps ==
    ASSUME ClientsInv, NEW r \in Requests, Acquire(r)
    PROVE  ClientsInv'
<1> DEFINE b == work[r].business
           v == [work[r] EXCEPT !.at = "working", !.release = r \notin Jobs]
<1>1. work \in WorkType /\ work[r] \in Works /\ b \in Businesses /\ ~work[r].closed /\ ~work[r].release
  BY DEF ClientsInv, WorkSound, WorkType, Acquire, Looking, NoWork, Works
<1>2. /\ v \in Works /\ v.at = "working" /\ (v.release <=> r \notin Jobs) /\ ~v.closed /\ v.business = b
      /\ work' = [work EXCEPT ![r] = v]
  BY <1>1 DEF Acquire, Works, Stages, WorkType
<1>3. /\ work[r].at \in {"asking", "woken"} /\ (Kept(b) \/ Free)
      /\ active' = [active EXCEPT ![b] = active[b] + 1]
      /\ wasted' = (wasted \/ (Kept(b) /\ work[r].at = "woken" /\ ~work[r].late))
      /\ waiting' = waiting
  BY DEF Acquire, Looking
<1>4. PICK rest \in WithRoom(b) : kept' = Append(rest, b)
  BY DEF Acquire
<1> HIDE DEF v, b
<1>5. work' \in WorkType /\ work'[r] = v /\ \A q \in Requests \ {r} : work'[q] = work[q]
  BY <1>1, <1>2 DEF WorkType
<1>6. WorkSound(work')
  BY <1>2, <1>5 DEF ClientsInv, WorkSound
<1>7. Line(waiting, work')
  BY <1>1, <1>2, <1>3, StaysInLine DEF ClientsInv
<1>8. /\ active \in [Businesses -> Nat] /\ active' \in [Businesses -> Nat] /\ active'[b] = active[b] + 1
      /\ \A c \in Businesses \ {b} : active'[c] = active[c]
  BY <1>1, <1>3 DEF ClientsInv, KeptSound
<1>9. Busy' = Busy \cup {b}
  BY <1>1, <1>8 DEF Busy
<1>10. KeptSound'
  <2>1. /\ rest \in Seq(Businesses) /\ IsInjective(rest) /\ Len(rest) < MaxClients
        /\ b \notin ToSet(rest) /\ Busy \ {b} \subseteq ToSet(rest)
    BY <1>1, <1>3, <1>4, RoomMade DEF ClientsInv
  <2>2. /\ kept' \in Seq(Businesses) /\ IsInjective(kept') /\ Len(kept') = Len(rest) + 1
        /\ ToSet(kept') = ToSet(rest) \cup {b}
    BY <1>1, <1>4, <2>1, QueueAppended
  <2>3. Len(rest) \in Nat /\ MaxClients \in Nat
    BY <2>1, TenantClientsAssumption DEF TenantClientsAssumption
  <2>4. Len(kept') <= MaxClients /\ Busy' \subseteq ToSet(kept')
    BY <1>9, <2>1, <2>2, <2>3
  <2>5. QED
    BY <1>8, <2>2, <2>4 DEF KeptSound
<1>11. UsesCounted'
  <2>1. UsersOf(work', b) = UsersOf(work, b) \cup {r} /\ r \notin UsersOf(work, b)
    BY <1>1, <1>2, <1>3, <1>5 DEF UsersOf
  <2>2. \A c \in Businesses \ {b} : UsersOf(work', c) = UsersOf(work, c)
    BY <1>1, <1>2, <1>3, <1>5 DEF UsersOf, b
  <2>3. Cardinality(UsersOf(work', b)) = Cardinality(UsersOf(work, b)) + 1
    <3>1. UsersOf(work, b) \in SUBSET Requests
      BY DEF UsersOf
    <3>2. QED
      BY <2>1, <3>1, OneMore
  <2>4. QED
    BY <1>1, <1>8, <2>2, <2>3 DEF ClientsInv, UsesCounted
<1>12. Short(waiting, work')
  <2>1. Coming(work') = Coming(work) \ {r} /\ Coming(work) \in SUBSET Requests /\ Coming(work') \in SUBSET Coming(work)
    BY <1>2, <1>5 DEF Coming
  <2>2. Cardinality(Coming(work')) <= Cardinality(Coming(work)) /\ Cardinality(Coming(work)) \in Nat /\ Cardinality(Coming(work')) \in Nat
    BY <2>1, MoreRequests, SomeRequests
  <2>3. Len(waiting) \in Nat /\ MaxWaiting \in Nat
    BY TenantClientsAssumption DEF ClientsInv, Line, TenantClientsAssumption
  <2>4. QED
    BY <2>2, <2>3 DEF ClientsInv, Short
<1>13. EnoughWoken'
  <2>1. SUFFICES ASSUME ~wasted', NEW q \in Requests, work'[q].at = "waiting"
                 PROVE  MaxClients <= Cardinality(Busy') + Cardinality(Awake(work'))
    BY DEF EnoughWoken
  <2>2. work[q].at = "waiting" /\ ~wasted /\ ~(Kept(b) /\ work[r].at = "woken" /\ ~work[r].late)
    BY <1>2, <1>3, <1>5, <2>1
  <2>3. MaxClients <= Cardinality(Busy) + Cardinality(Awake(work))
    BY <2>2 DEF ClientsInv, EnoughWoken
  <2>4. /\ IsFiniteSet(Busy) /\ Cardinality(Busy) \in Nat
        /\ Awake(work) \in SUBSET Requests /\ Awake(work') = Awake(work) \ {r}
        /\ Cardinality(Awake(work)) \in Nat /\ MaxClients \in Nat
    BY <1>2, <1>5, BusyCounted, SomeRequests, TenantClientsAssumption
       DEF ClientsInv, Awake, TenantClientsAssumption
  <2>5. CASE r \in Awake(work)
    <3>1. b \notin Busy
      <4>1. ~Kept(b)
        BY <2>2, <2>5 DEF Awake
      <4>2. QED
        BY <4>1 DEF ClientsInv, KeptSound, Kept, Contains, ToSet
    <3>2. Cardinality(Busy') = Cardinality(Busy) + 1
      BY <1>9, <2>4, <3>1, FS_AddElement
    <3>3. Cardinality(Awake(work')) = Cardinality(Awake(work)) - 1
      BY <2>4, <2>5, OneMore
    <3>4. QED
      BY <2>3, <2>4, <3>2, <3>3
  <2>6. CASE r \notin Awake(work)
    <3>1. Awake(work') = Awake(work)
      BY <2>4, <2>6
    <3>2. IsFiniteSet(Busy') /\ Cardinality(Busy') \in Nat /\ Cardinality(Busy) <= Cardinality(Busy')
      <4>1. IsFiniteSet(Busy')
        BY <1>9, <2>4, FS_AddElement
      <4>2. Busy \subseteq Busy'
        BY <1>9
      <4>3. QED
        BY <4>1, <4>2, FS_Subset, FS_CardinalityType
    <3>3. QED
      BY <2>3, <2>4, <3>1, <3>2
  <2>7. QED
    BY <2>5, <2>6
<1>14. wasted' \in BOOLEAN
  BY <1>3 DEF ClientsInv
<1>15. QED
  BY <1>3, <1>6, <1>7, <1>10, <1>11, <1>12, <1>13, <1>14 DEF ClientsInv

LEMMA WaitKeeps ==
    ASSUME ClientsInv, NEW r \in Requests, Wait(r)
    PROVE  ClientsInv'
<1> DEFINE v == [work[r] EXCEPT !.at = "waiting"]
<1>1. work \in WorkType /\ work[r] \in Works /\ ~work[r].closed /\ ~work[r].release
  BY DEF ClientsInv, WorkSound, WorkType, Wait, Looking, NoWork, Works
<1>2. /\ v \in Works /\ v.at = "waiting" /\ ~v.release /\ ~v.closed /\ ~v.late /\ v.business = work[r].business
      /\ work' = [work EXCEPT ![r] = v]
  BY <1>1 DEF Wait, Works, Stages, WorkType
<1>3. /\ work[r].at \in {"asking", "woken"} /\ ~work[r].late /\ ~Free
      /\ waiting' = Append(waiting, r) /\ UNCHANGED <<kept, active, wasted>>
  BY DEF Wait, Looking
<1> HIDE DEF v
<1>4. work' \in WorkType /\ work'[r] = v /\ \A q \in Requests \ {r} : work'[q] = work[q]
  BY <1>1, <1>2 DEF WorkType
<1>5. WorkSound(work')
  BY <1>2, <1>4 DEF ClientsInv, WorkSound
<1>6. /\ waiting \in Seq(Requests \cup {TimedOut}) /\ Len(waiting) \in Nat
      /\ waiting' \in Seq(Requests \cup {TimedOut}) /\ Len(waiting') = Len(waiting) + 1
      /\ \A i \in 1 .. Len(waiting) : waiting'[i] = waiting[i]
      /\ waiting'[Len(waiting) + 1] = r
  BY <1>3 DEF ClientsInv, Line
<1>7. Line(waiting', work')
  <2>1. \A i \in 1 .. Len(waiting) : waiting[i] # r
    BY <1>3 DEF ClientsInv, Line
  <2>2. \A i \in 1 .. Len(waiting') : waiting'[i] \in Requests => work'[waiting'[i]].at = "waiting"
    <3>1. SUFFICES ASSUME NEW i \in 1 .. Len(waiting'), waiting'[i] \in Requests
                   PROVE  work'[waiting'[i]].at = "waiting"
      OBVIOUS
    <3>2. CASE i = Len(waiting) + 1
      BY <1>2, <1>4, <1>6, <3>2
    <3>3. CASE i # Len(waiting) + 1
      <4>1. i \in 1 .. Len(waiting)
        BY <1>6, <3>3
      <4>2. QED
        BY <1>4, <1>6, <2>1, <3>1, <4>1 DEF ClientsInv, Line
    <3>4. QED
      BY <3>2, <3>3
  <2>3. \A i, j \in 1 .. Len(waiting') : waiting'[i] = waiting'[j] /\ waiting'[i] \in Requests => i = j
    <3>1. \A i \in 1 .. Len(waiting') : i \in 1 .. Len(waiting) \/ i = Len(waiting) + 1
      BY <1>6
    <3>2. QED
      BY <1>6, <2>1, <3>1 DEF ClientsInv, Line
  <2>4. \A q \in Requests : work'[q].at = "waiting" => \E i \in 1 .. Len(waiting') : waiting'[i] = q
    <3>1. SUFFICES ASSUME NEW q \in Requests, work'[q].at = "waiting" PROVE \E i \in 1 .. Len(waiting') : waiting'[i] = q
      OBVIOUS
    <3>2. CASE q = r
      <4>1. Len(waiting) + 1 \in 1 .. Len(waiting')
        BY <1>6
      <4>2. QED
        BY <1>6, <3>2, <4>1
    <3>3. CASE q # r
      <4>1. PICK i \in 1 .. Len(waiting) : waiting[i] = q
        BY <1>4, <3>1, <3>3 DEF ClientsInv, Line
      <4>2. i \in 1 .. Len(waiting')
        BY <1>6
      <4>3. QED
        BY <1>6, <4>1, <4>2
    <3>4. QED
      BY <3>2, <3>3
  <2>5. QED
    BY <1>6, <2>2, <2>3, <2>4 DEF Line
<1>8. Short(waiting', work')
  <2>1. Coming(work') = Coming(work) \ {r} /\ Coming(work) \in SUBSET Requests /\ r \in Coming(work)
    BY <1>2, <1>3, <1>4 DEF Coming
  <2>2. Cardinality(Coming(work')) = Cardinality(Coming(work)) - 1 /\ Cardinality(Coming(work)) \in Nat
    BY <2>1, OneMore, SomeRequests
  <2>3. MaxWaiting \in Nat /\ Len(waiting) + Cardinality(Coming(work)) <= MaxWaiting
    BY TenantClientsAssumption DEF ClientsInv, Short, TenantClientsAssumption
  <2>4. QED
    BY <1>6, <2>2, <2>3 DEF Short
<1>9. \A c \in Businesses : UsersOf(work', c) = UsersOf(work, c)
  BY <1>1, <1>2, <1>3, <1>4 DEF UsersOf
<1>10. EnoughWoken'
  <2>1. Busy' = Busy
    BY <1>3 DEF Busy
  <2>2. Awake(work') \in SUBSET Requests
    BY DEF Awake
  <2>3. MaxClients <= Cardinality(Busy) /\ Cardinality(Busy) \in Nat /\ MaxClients \in Nat
    BY <1>3, BusyCounted, TenantClientsAssumption DEF ClientsInv, TenantClientsAssumption
  <2>4. Cardinality(Awake(work')) \in Nat
    BY <2>2, SomeRequests
  <2>5. MaxClients <= Cardinality(Busy') + Cardinality(Awake(work'))
    BY <2>1, <2>3, <2>4
  <2>6. QED
    BY <2>5 DEF EnoughWoken
<1>11. KeptSound' /\ UsesCounted'
  BY <1>3, <1>9 DEF ClientsInv, KeptSound, UsesCounted, Busy
<1>12. QED
  BY <1>3, <1>5, <1>7, <1>8, <1>10, <1>11 DEF ClientsInv

LEMMA DeadlineKeeps ==
    ASSUME ClientsInv, NEW r \in Requests, Deadline(r)
    PROVE  ClientsInv'
<1> DEFINE v == [work[r] EXCEPT !.at = "woken", !.late = TRUE]
<1>1. work \in WorkType /\ work[r] \in Works /\ ~work[r].closed /\ ~work[r].release /\ work[r].at = "waiting"
  BY DEF ClientsInv, WorkSound, WorkType, Deadline, NoWork, Works
<1>2. /\ v \in Works /\ v.at = "woken" /\ ~v.release /\ ~v.closed /\ v.late /\ v.business = work[r].business
      /\ work' = [work EXCEPT ![r] = v]
  BY <1>1 DEF Deadline, Works, Stages, WorkType
<1>3. /\ waiting' = [i \in DOMAIN waiting |-> IF waiting[i] = r THEN TimedOut ELSE waiting[i]]
      /\ UNCHANGED <<kept, active, wasted>>
  BY DEF Deadline
<1> HIDE DEF v
<1>4. work' \in WorkType /\ work'[r] = v /\ \A q \in Requests \ {r} : work'[q] = work[q]
  BY <1>1, <1>2 DEF WorkType
<1>5. WorkSound(work')
  BY <1>2, <1>4 DEF ClientsInv, WorkSound
<1>6. /\ waiting \in Seq(Requests \cup {TimedOut}) /\ Len(waiting) \in Nat
      /\ DOMAIN waiting = 1 .. Len(waiting) /\ TimedOut \notin Requests
      /\ \A i \in 1 .. Len(waiting) : waiting[i] \in Requests \cup {TimedOut}
  BY TenantClientsAssumption DEF ClientsInv, Line, TenantClientsAssumption
<1>7. \A i \in 1 .. Len(waiting) : waiting'[i] = IF waiting[i] = r THEN TimedOut ELSE waiting[i]
  BY <1>3, <1>6
<1>8. waiting' \in Seq(Requests \cup {TimedOut}) /\ Len(waiting') = Len(waiting)
  <2>1. waiting' \in [1 .. Len(waiting) -> Requests \cup {TimedOut}]
    BY <1>3, <1>6
  <2>2. waiting' \in Seq(Requests \cup {TimedOut})
    BY <1>6, <2>1, SeqDef
  <2>3. Len(waiting') \in Nat /\ 1 .. Len(waiting') = 1 .. Len(waiting)
    BY <2>1, <2>2, LenProperties
  <2>4. QED
    BY <1>6, <2>2, <2>3
<1>9. Line(waiting', work')
  <2>1. \A i \in 1 .. Len(waiting') : waiting'[i] \in Requests => waiting'[i] = waiting[i] /\ waiting[i] # r
    BY <1>6, <1>7, <1>8
  <2>2. \A i \in 1 .. Len(waiting') : waiting'[i] \in Requests => work'[waiting'[i]].at = "waiting"
    BY <1>4, <1>8, <2>1 DEF ClientsInv, Line
  <2>3. \A i, j \in 1 .. Len(waiting') : waiting'[i] = waiting'[j] /\ waiting'[i] \in Requests => i = j
    BY <1>8, <2>1 DEF ClientsInv, Line
  <2>4. \A q \in Requests : work'[q].at = "waiting" => \E i \in 1 .. Len(waiting') : waiting'[i] = q
    BY <1>2, <1>4, <1>7, <1>8 DEF ClientsInv, Line
  <2>5. QED
    BY <1>8, <2>2, <2>3, <2>4 DEF Line
<1>10. Coming(work') = Coming(work) /\ Awake(work') = Awake(work)
  BY <1>1, <1>2, <1>4 DEF Coming, Awake
<1>11. \A c \in Businesses : UsersOf(work', c) = UsersOf(work, c)
  BY <1>1, <1>2, <1>4 DEF UsersOf
<1>12. EnoughWoken'
  BY <1>1, <1>3, <1>10 DEF ClientsInv, EnoughWoken, Busy
<1>13. KeptSound' /\ UsesCounted' /\ Short(waiting', work')
  BY <1>3, <1>8, <1>10, <1>11 DEF ClientsInv, KeptSound, UsesCounted, Busy, Short
<1>14. QED
  BY <1>3, <1>5, <1>9, <1>12, <1>13 DEF ClientsInv

LEMMA RefuseKeeps ==
    ASSUME ClientsInv, NEW r \in Requests, Refuse(r)
    PROVE  ClientsInv'
<1> DEFINE v == IF r \in Jobs \/ work[r].closed THEN NoWork ELSE [work[r] EXCEPT !.at = "refused"]
<1>1. /\ work \in WorkType /\ work[r] \in Works /\ ~work[r].closed /\ ~work[r].release
      /\ work[r].at \in {"asking", "woken"} /\ work[r].late
  BY DEF ClientsInv, WorkSound, WorkType, Refuse, Looking, NoWork, Works
<1>2. work' = [work EXCEPT ![r] = v]
  BY <1>1 DEF Refuse
<1>3. /\ v \in Works \cup {NoWork} /\ v.at \in {"none", "refused"} /\ ~v.release /\ ~v.closed
      /\ v.at = "refused" => r \notin Jobs
  BY <1>1 DEF Works, NoWork, Stages
<1>4. ~Free /\ UNCHANGED <<kept, active, waiting, wasted>>
  BY DEF Refuse
<1> HIDE DEF v
<1>5. work' \in WorkType /\ work'[r] = v /\ \A q \in Requests \ {r} : work'[q] = work[q]
  BY <1>1, <1>2, <1>3 DEF WorkType
<1>6. WorkSound(work')
  BY <1>3, <1>5 DEF ClientsInv, WorkSound
<1>7. Line(waiting, work')
  BY <1>1, <1>2, <1>3, StaysInLine DEF ClientsInv
<1>8. Coming(work') = Coming(work) /\ Awake(work') = Awake(work)
  BY <1>1, <1>3, <1>5 DEF Coming, Awake
<1>9. \A c \in Businesses : UsersOf(work', c) = UsersOf(work, c)
  BY <1>1, <1>3, <1>5 DEF UsersOf
<1>10. \A q \in Requests : work'[q].at = "waiting" => work[q].at = "waiting"
  BY <1>3, <1>5
<1>11. EnoughWoken'
  BY <1>4, <1>8, <1>10 DEF ClientsInv, EnoughWoken, Busy
<1>12. KeptSound' /\ UsesCounted' /\ Short(waiting', work')
  BY <1>4, <1>8, <1>9 DEF ClientsInv, KeptSound, UsesCounted, Busy, Short
<1>13. QED
  BY <1>4, <1>6, <1>7, <1>11, <1>12 DEF ClientsInv

LEMMA FinishKeeps ==
    ASSUME ClientsInv, NEW r \in Requests, Finish(r)
    PROVE  ClientsInv'
<1> DEFINE v == [work[r] EXCEPT !.at = "answered"]
<1>1. /\ work \in WorkType /\ work[r] \in Works /\ ~work[r].closed /\ work[r].release
      /\ work[r].at = "working" /\ r \notin Jobs
  BY DEF ClientsInv, WorkSound, WorkType, Finish, NoWork, Works
<1>2. /\ v \in Works /\ v.at = "answered" /\ v.release /\ ~v.closed /\ v.business = work[r].business
      /\ work' = [work EXCEPT ![r] = v]
  BY <1>1 DEF Finish, Works, Stages, WorkType
<1>3. UNCHANGED <<kept, active, waiting, wasted>>
  BY DEF Finish
<1> HIDE DEF v
<1>4. work' \in WorkType /\ work'[r] = v /\ \A q \in Requests \ {r} : work'[q] = work[q]
  BY <1>1, <1>2 DEF WorkType
<1>5. WorkSound(work')
  BY <1>1, <1>2, <1>4 DEF ClientsInv, WorkSound
<1>6. Line(waiting, work')
  BY <1>1, <1>2, StaysInLine DEF ClientsInv
<1>7. Coming(work') = Coming(work) /\ Awake(work') = Awake(work)
  BY <1>1, <1>2, <1>4 DEF Coming, Awake
<1>8. \A c \in Businesses : UsersOf(work', c) = UsersOf(work, c)
  BY <1>1, <1>2, <1>4 DEF UsersOf
<1>9. \A q \in Requests : work'[q].at = "waiting" => work[q].at = "waiting"
  BY <1>2, <1>4
<1>10. EnoughWoken'
  BY <1>3, <1>7, <1>9 DEF ClientsInv, EnoughWoken, Busy
<1>11. KeptSound' /\ UsesCounted' /\ Short(waiting', work')
  BY <1>3, <1>7, <1>8 DEF ClientsInv, KeptSound, UsesCounted, Busy, Short
<1>12. QED
  BY <1>3, <1>5, <1>6, <1>10, <1>11 DEF ClientsInv

\* One that used a client is through with it; nothing else has happened yet.
LEMMA LetGo ==
    ASSUME ClientsInv, NEW b \in Businesses, NEW r \in UsersOf(work, b)
    PROVE  LET w == [work EXCEPT ![r] = NoWork] IN
           /\ WorkSound(w) /\ Line(waiting, w) /\ Short(waiting, w)
           /\ UsersOf(w, b) = UsersOf(work, b) \ {r}
           /\ \A c \in Businesses \ {b} : UsersOf(w, c) = UsersOf(work, c)
           /\ Awake(w) = Awake(work)
           /\ \A q \in Requests : w[q].at = "waiting" <=> work[q].at = "waiting"
<1> DEFINE w == [work EXCEPT ![r] = NoWork]
<1>1. /\ r \in Requests /\ work \in WorkType /\ work[r].at \in {"working", "answered"}
      /\ work[r].business = b
  BY DEF UsersOf, ClientsInv, WorkSound
<1>2. NoWork.at = "none" /\ ~NoWork.release /\ ~NoWork.closed
  BY DEF NoWork
<1>3. w \in WorkType /\ w[r] = NoWork /\ \A q \in Requests \ {r} : w[q] = work[q]
  BY <1>1 DEF WorkType
<1> HIDE DEF w
<1>4. WorkSound(w)
  BY <1>2, <1>3 DEF ClientsInv, WorkSound
<1>5. Line(waiting, w)
  BY <1>1, <1>2, StaysInLine DEF ClientsInv, w
<1>6. Coming(w) = Coming(work) /\ Awake(w) = Awake(work)
  BY <1>1, <1>2, <1>3 DEF Coming, Awake
<1>7. /\ UsersOf(w, b) = UsersOf(work, b) \ {r}
      /\ \A c \in Businesses \ {b} : UsersOf(w, c) = UsersOf(work, c)
  BY <1>1, <1>2, <1>3 DEF UsersOf
<1>8. \A q \in Requests : w[q].at = "waiting" <=> work[q].at = "waiting"
  BY <1>1, <1>2, <1>3
<1>9. Short(waiting, w)
  BY <1>6 DEF ClientsInv, Short
<1>10. QED
  BY <1>4, <1>5, <1>6, <1>7, <1>8, <1>9 DEF w

\* What letting go leaves of the counts: one use less of `b`'s client.
LEMMA OneUseLess ==
    ASSUME ClientsInv, NEW b \in Businesses, NEW r \in UsersOf(work, b),
           active' = [active EXCEPT ![b] = active[b] - 1],
           \A c \in Businesses \ {b} : UsersOf(work', c) = UsersOf(work, c),
           UsersOf(work', b) = UsersOf(work, b) \ {r}
    PROVE  /\ active \in [Businesses -> Nat] /\ active' \in [Businesses -> Nat] /\ active[b] > 0
           /\ UsesCounted' /\ Busy' = IF LastUser(b) THEN Busy \ {b} ELSE Busy
<1>1. active \in [Businesses -> Nat] /\ active[b] = Cardinality(UsersOf(work, b))
  BY DEF ClientsInv, KeptSound, UsesCounted
<1>2. Cardinality(UsersOf(work', b)) = active[b] - 1 /\ Cardinality(UsersOf(work', b)) \in Nat
  <2>1. UsersOf(work, b) \in SUBSET Requests /\ UsersOf(work', b) \in SUBSET Requests /\ r \in Requests
    BY DEF UsersOf
  <2>2. QED
    BY <1>1, <2>1, OneMore, SomeRequests
<1>3. /\ active' \in [Businesses -> Nat] /\ active'[b] = active[b] - 1 /\ active[b] > 0
      /\ \A c \in Businesses \ {b} : active'[c] = active[c]
  BY <1>1, <1>2
<1>4. UsesCounted'
  BY <1>2, <1>3 DEF ClientsInv, UsesCounted
<1>5. Busy' = IF LastUser(b) THEN Busy \ {b} ELSE Busy
  <2>1. CASE LastUser(b)
    BY <1>1, <1>3, <2>1 DEF Busy, LastUser
  <2>2. CASE ~LastUser(b)
    <3>1. active[b] - 1 > 0
      BY <1>1, <1>3, <2>2 DEF LastUser
    <3>2. QED
      BY <1>1, <1>3, <2>2, <3>1 DEF Busy
  <2>3. QED
    BY <2>1, <2>2
<1>6. QED
  BY <1>1, <1>3, <1>4, <1>5

\* The client that comes idle is made up for by the one that is woken.
LEMMA ReleaseKeeps ==
    ASSUME ClientsInv, NEW b \in Businesses, NEW r \in UsersOf(work, b),
           Release(b, [work EXCEPT ![r] = NoWork]), kept' = kept
    PROVE  ClientsInv'
<1> DEFINE w == [work EXCEPT ![r] = NoWork]
<1>1. /\ WorkSound(w) /\ Line(waiting, w) /\ Short(waiting, w)
      /\ UsersOf(w, b) = UsersOf(work, b) \ {r}
      /\ \A c \in Businesses \ {b} : UsersOf(w, c) = UsersOf(work, c)
      /\ Awake(w) = Awake(work)
      /\ \A q \in Requests : w[q].at = "waiting" <=> work[q].at = "waiting"
  BY LetGo
<1>2. /\ active' = [active EXCEPT ![b] = active[b] - 1]
      /\ LastUser(b) => waiting' = Shifted(waiting) /\ work' = Woken(waiting, w)
                        /\ wasted' = (wasted \/ Lost(waiting))
      /\ ~LastUser(b) => work' = w /\ UNCHANGED <<waiting, wasted>>
  BY DEF Release
<1> HIDE DEF w
<1>3. wasted \in BOOLEAN /\ KeptSound /\ EnoughWoken
  BY DEF ClientsInv
<1>4. /\ IsFiniteSet(Busy) /\ Cardinality(Busy) \in Nat /\ MaxClients \in Nat
      /\ Awake(work) \in SUBSET Requests /\ Cardinality(Awake(work)) \in Nat
  BY <1>3, BusyCounted, SomeRequests, TenantClientsAssumption DEF Awake, TenantClientsAssumption
<1>5. CASE LastUser(b)
  <2>1. /\ WorkSound(work') /\ Line(waiting', work') /\ Short(waiting', work')
        /\ \A c \in Businesses : UsersOf(work', c) = UsersOf(w, c)
        /\ Cardinality(Awake(work')) >= Cardinality(Awake(w))
        /\ ~Lost(waiting) /\ (\E q \in Requests : w[q].at = "waiting") =>
              Cardinality(Awake(work')) = Cardinality(Awake(w)) + 1
        /\ \A q \in Requests : work'[q].at = "waiting" => w[q].at = "waiting"
    BY <1>1, <1>2, <1>5, WakeFirst
  <2>2. /\ active \in [Businesses -> Nat] /\ active' \in [Businesses -> Nat] /\ active[b] > 0
        /\ UsesCounted' /\ Busy' = Busy \ {b}
    BY <1>1, <1>2, <1>5, <2>1, OneUseLess
  <2>3. b \in Busy /\ Cardinality(Busy') = Cardinality(Busy) - 1
    <3>1. b \in Busy
      BY <2>2 DEF Busy
    <3>2. QED
      BY <1>4, <2>2, <3>1, FS_RemoveElement
  <2>4. KeptSound'
    <3>1. Busy' \subseteq ToSet(kept)
      BY <1>3, <2>2 DEF KeptSound
    <3>2. QED
      BY <1>3, <2>2, <3>1 DEF KeptSound
  <2>5. EnoughWoken'
    <3>1. SUFFICES ASSUME ~wasted', NEW q \in Requests, work'[q].at = "waiting"
                   PROVE  MaxClients <= Cardinality(Busy') + Cardinality(Awake(work'))
      BY DEF EnoughWoken
    <3>2. ~wasted /\ ~Lost(waiting) /\ w[q].at = "waiting" /\ work[q].at = "waiting"
      BY <1>1, <1>2, <1>5, <2>1, <3>1
    <3>3. MaxClients <= Cardinality(Busy) + Cardinality(Awake(work))
      BY <1>3, <3>2 DEF EnoughWoken
    <3>4. Cardinality(Awake(work')) = Cardinality(Awake(work)) + 1
      BY <1>1, <2>1, <3>2
    <3>5. QED
      BY <1>4, <2>3, <3>3, <3>4
  <2>6. wasted' \in BOOLEAN
    BY <1>2, <1>3, <1>5 DEF Lost
  <2>7. QED
    BY <2>1, <2>2, <2>4, <2>5, <2>6 DEF ClientsInv
<1>6. CASE ~LastUser(b)
  <2>1. /\ active \in [Businesses -> Nat] /\ active' \in [Businesses -> Nat]
        /\ UsesCounted' /\ Busy' = Busy
    BY <1>1, <1>2, <1>6, OneUseLess
  <2>2. KeptSound' /\ EnoughWoken'
    BY <1>1, <1>2, <1>3, <1>6, <2>1 DEF KeptSound, EnoughWoken
  <2>3. QED
    BY <1>1, <1>2, <1>3, <1>6, <2>1, <2>2 DEF ClientsInv
<1>7. QED
  BY <1>5, <1>6

LEMMA CloseKeeps ==
    ASSUME ~Aborts, ClientsInv, NEW r \in Requests, Close(r)
    PROVE  ClientsInv'
<1>1. /\ work \in WorkType /\ r \notin Jobs /\ work[r].at \in {"answered", "refused"}
      /\ work[r] \in Works /\ (work[r].release <=> work[r].at = "answered") /\ ~work[r].closed
  BY DEF ClientsInv, WorkSound, WorkType, Close, NoWork
<1> DEFINE w == [work EXCEPT ![r] = NoWork]
<1>2. /\ IF work[r].release THEN Release(work[r].business, w)
                            ELSE work' = w /\ UNCHANGED <<active, waiting, wasted>>
      /\ kept' = kept
  BY <1>1 DEF Close
<1>3. CASE work[r].release
  <2>1. work[r].business \in Businesses /\ r \in UsersOf(work, work[r].business)
    BY <1>1, <1>3 DEF UsersOf, Works
  <2>2. QED
    BY <1>2, <1>3, <2>1, ReleaseKeeps
<1>4. CASE ~work[r].release
  <2>1. work[r].at = "refused" /\ work' = w /\ UNCHANGED <<active, waiting, wasted, kept>>
    BY <1>1, <1>2, <1>4
  <2>2. work' \in WorkType /\ work'[r] = NoWork /\ \A q \in Requests \ {r} : work'[q] = work[q]
    BY <1>1, <2>1 DEF WorkType
  <2>3. NoWork.at = "none" /\ ~NoWork.release /\ ~NoWork.closed
    BY DEF NoWork
  <2>4. Line(waiting, work')
    BY <1>1, <2>1, <2>3, StaysInLine DEF ClientsInv
  <2>5. WorkSound(work')
    BY <2>2, <2>3 DEF ClientsInv, WorkSound
  <2>6. Coming(work') = Coming(work) /\ Awake(work') = Awake(work)
    BY <1>1, <2>1, <2>2, <2>3 DEF Coming, Awake
  <2>7. \A c \in Businesses : UsersOf(work', c) = UsersOf(work, c)
    BY <1>4, <2>1, <2>2, <2>3 DEF UsersOf
  <2>8. \A q \in Requests : work'[q].at = "waiting" => work[q].at = "waiting"
    BY <2>2, <2>3
  <2>9. EnoughWoken'
    BY <2>1, <2>6, <2>8 DEF ClientsInv, EnoughWoken, Busy
  <2>10. KeptSound' /\ UsesCounted' /\ Short(waiting', work')
    BY <2>1, <2>6, <2>7 DEF ClientsInv, KeptSound, UsesCounted, Busy, Short
  <2>11. QED
    BY <2>1, <2>4, <2>5, <2>9, <2>10 DEF ClientsInv
<1>5. QED
  BY <1>3, <1>4

LEMMA FinishJobKeeps ==
    ASSUME ClientsInv, NEW r \in Requests, FinishJob(r)
    PROVE  ClientsInv'
<1>1. work[r] \in Works /\ r \in Jobs /\ work[r].at = "working"
  BY DEF ClientsInv, WorkSound, WorkType, FinishJob, NoWork
<1>2. work[r].business \in Businesses /\ r \in UsersOf(work, work[r].business)
  BY <1>1 DEF UsersOf, Works
<1>3. QED
  BY <1>2, ReleaseKeeps DEF FinishJob

\* Its client goes with the business: two are woken, for the idle place and the empty one.
LEMMA FinishErasingKeeps ==
    ASSUME ClientsInv, NEW r \in Requests, FinishErasing(r)
    PROVE  ClientsInv'
<1> DEFINE b == work[r].business
<1>1. work[r] \in Works /\ r \in Jobs /\ work[r].at = "working"
  BY DEF ClientsInv, WorkSound, WorkType, FinishErasing, NoWork
<1>2. b \in Businesses /\ r \in UsersOf(work, b)
  BY <1>1 DEF UsersOf, Works
<1>3. CASE ~LastUser(b)
  BY <1>2, <1>3, ReleaseKeeps DEF FinishErasing
<1>4. CASE LastUser(b)
  <2> DEFINE w == [work EXCEPT ![r] = NoWork]
             rest == Shifted(waiting)
             n == Woken(waiting, w)
  <2>1. /\ active' = [active EXCEPT ![b] = 0] /\ kept' \in Dropping(PlaceOf(b))
        /\ waiting' = Shifted(rest) /\ work' = Woken(rest, n)
        /\ wasted' = (wasted \/ Lost(waiting) \/ Lost(rest))
    BY <1>4 DEF FinishErasing
  <2>2. /\ WorkSound(w) /\ Line(waiting, w) /\ Short(waiting, w)
        /\ UsersOf(w, b) = UsersOf(work, b) \ {r}
        /\ \A c \in Businesses \ {b} : UsersOf(w, c) = UsersOf(work, c)
        /\ Awake(w) = Awake(work)
        /\ \A q \in Requests : w[q].at = "waiting" <=> work[q].at = "waiting"
    BY <1>2, LetGo
  <2> HIDE DEF w, b
  <2>3. /\ WorkSound(n) /\ Line(rest, n) /\ Short(rest, n)
        /\ \A c \in Businesses : UsersOf(n, c) = UsersOf(w, c)
        /\ Cardinality(Awake(n)) >= Cardinality(Awake(w))
        /\ ~Lost(waiting) /\ (\E q \in Requests : w[q].at = "waiting") =>
              Cardinality(Awake(n)) = Cardinality(Awake(w)) + 1
        /\ \A q \in Requests : n[q].at = "waiting" => w[q].at = "waiting"
    BY <2>2, WakeFirst
  <2> HIDE DEF rest, n
  <2>4. /\ WorkSound(work') /\ Line(waiting', work') /\ Short(waiting', work')
        /\ \A c \in Businesses : UsersOf(work', c) = UsersOf(n, c)
        /\ Cardinality(Awake(work')) >= Cardinality(Awake(n))
        /\ \A q \in Requests : work'[q].at = "waiting" => n[q].at = "waiting"
    BY <2>1, <2>3, WakeFirst
  <2>5. /\ wasted \in BOOLEAN /\ KeptSound /\ EnoughWoken
        /\ IsFiniteSet(Busy) /\ Cardinality(Busy) \in Nat /\ MaxClients \in Nat
        /\ Awake(work) \in SUBSET Requests /\ Cardinality(Awake(work)) \in Nat
        /\ active \in [Businesses -> Nat] /\ active[b] = 1
    BY <1>4, BusyCounted, SomeRequests, TenantClientsAssumption
       DEF ClientsInv, KeptSound, Awake, TenantClientsAssumption, LastUser
  <2>6. /\ active' \in [Businesses -> Nat] /\ UsesCounted' /\ Busy' = Busy \ {b} /\ b \in Busy
    <3>1. active' = [active EXCEPT ![b] = active[b] - 1]
      BY <2>1, <2>5
    <3>2. UsersOf(work', b) = UsersOf(work, b) \ {r} /\ \A c \in Businesses \ {b} : UsersOf(work', c) = UsersOf(work, c)
      BY <1>2, <2>2, <2>3, <2>4
    <3>3. b \in Busy
      BY <1>2, <2>5 DEF Busy
    <3>4. QED
      BY <1>2, <1>4, <3>1, <3>2, <3>3, OneUseLess
  <2>7. Cardinality(Busy') = Cardinality(Busy) - 1
    BY <2>5, <2>6, FS_RemoveElement
  <2>8. KeptSound'
    <3>1. PICK i \in DOMAIN kept : kept[i] = b /\ kept' = RemoveAt(kept, i)
      BY <2>1 DEF Dropping, PlaceOf
    <3>2. /\ kept' \in Seq(Businesses) /\ Len(kept') = Len(kept) - 1
          /\ IsInjective(kept') /\ ToSet(kept') = ToSet(kept) \ {b}
      BY <2>5, <3>1, Dropped DEF KeptSound
    <3>3. Busy' \subseteq ToSet(kept')
      BY <2>5, <2>6, <3>2 DEF KeptSound
    <3>4. Len(kept') <= MaxClients
      BY <2>5, <3>2 DEF KeptSound
    <3>5. QED
      BY <2>6, <3>2, <3>3, <3>4 DEF KeptSound
  <2>9. EnoughWoken'
    <3>1. SUFFICES ASSUME ~wasted', NEW q \in Requests, work'[q].at = "waiting"
                   PROVE  MaxClients <= Cardinality(Busy') + Cardinality(Awake(work'))
      BY DEF EnoughWoken
    <3>2. ~wasted /\ ~Lost(waiting) /\ w[q].at = "waiting" /\ work[q].at = "waiting"
      BY <2>1, <2>2, <2>3, <2>4, <3>1
    <3>3. MaxClients <= Cardinality(Busy) + Cardinality(Awake(work))
      BY <2>5, <3>2 DEF EnoughWoken
    <3>4. Cardinality(Awake(n)) = Cardinality(Awake(work)) + 1
      BY <2>2, <2>3, <3>2
    <3>5. Cardinality(Awake(work')) \in Nat
      <4>1. Awake(work') \in SUBSET Requests
        BY DEF Awake
      <4>2. QED
        BY <4>1, SomeRequests
    <3>6. QED
      BY <2>4, <2>5, <2>7, <3>3, <3>4, <3>5
  <2>10. wasted' \in BOOLEAN
    BY <2>1, <2>5 DEF Lost
  <2>11. QED
    BY <2>4, <2>6, <2>8, <2>9, <2>10 DEF ClientsInv
<1>5. QED
  BY <1>3, <1>4

LEMMA ClientsStart ==
    ASSUME Init
    PROVE  ClientsInv
<1>1. /\ kept = << >> /\ active = [b \in Businesses |-> 0] /\ waiting = << >> /\ wasted = FALSE
      /\ work = [r \in Requests |-> NoWork]
  BY DEF Init
<1>2. NoWork.at = "none" /\ ~NoWork.release /\ ~NoWork.closed
  BY DEF NoWork
<1>3. work \in WorkType /\ \A r \in Requests : work[r] = NoWork
  BY <1>1 DEF WorkType
<1>4. WorkSound(work)
  BY <1>2, <1>3 DEF WorkSound
<1>5. Line(waiting, work)
  BY <1>1, <1>2, <1>3 DEF Line
<1>6. \A b \in Businesses : UsersOf(work, b) = {}
  BY <1>2, <1>3 DEF UsersOf
<1>7. Coming(work) = {}
  BY <1>2, <1>3 DEF Coming
<1>8. Cardinality({}) = 0
  BY FS_EmptySet
<1>9. KeptSound
  BY <1>1, TenantClientsAssumption DEF KeptSound, Busy, IsInjective, TenantClientsAssumption
<1>10. UsesCounted
  BY <1>1, <1>6, <1>8 DEF UsesCounted
<1>11. Short(waiting, work)
  <2>1. Len(waiting) = 0 /\ Cardinality(Coming(work)) = 0 /\ MaxWaiting \in Nat
    BY <1>1, <1>7, <1>8, TenantClientsAssumption DEF TenantClientsAssumption
  <2>2. QED
    BY <2>1 DEF Short
<1>12. EnoughWoken
  BY <1>2, <1>3 DEF EnoughWoken
<1>13. QED
  BY <1>1, <1>4, <1>5, <1>9, <1>10, <1>11, <1>12 DEF ClientsInv

LEMMA ClientsStep ==
    ASSUME Aborts = FALSE, ClientsInv, [Next]_vars
    PROVE  ClientsInv'
<1>1. ASSUME NEW r \in Requests, NEW b \in Businesses, Arrive(r, b) PROVE ClientsInv'
  BY <1>1, ArriveKeeps
<1>2. ASSUME NEW r \in Requests, Acquire(r) PROVE ClientsInv'
  BY <1>2, AcquireKeeps
<1>3. ASSUME NEW r \in Requests, Wait(r) PROVE ClientsInv'
  BY <1>3, WaitKeeps
<1>4. ASSUME NEW r \in Requests, Deadline(r) PROVE ClientsInv'
  BY <1>4, DeadlineKeeps
<1>5. ASSUME NEW r \in Requests, Refuse(r) PROVE ClientsInv'
  BY <1>5, RefuseKeeps
<1>6. ASSUME NEW r \in Requests, Finish(r) PROVE ClientsInv'
  BY <1>6, FinishKeeps
<1>7. ASSUME NEW r \in Requests, Close(r) PROVE ClientsInv'
  BY <1>7, CloseKeeps
<1>8. ASSUME NEW r \in Requests, FinishJob(r) PROVE ClientsInv'
  BY <1>8, FinishJobKeeps
<1>9. ASSUME NEW r \in Requests, FinishErasing(r) PROVE ClientsInv'
  BY <1>9, FinishErasingKeeps
<1>10. CASE UNCHANGED vars
  BY <1>10 DEF vars, ClientsInv, KeptSound, UsesCounted, EnoughWoken, Busy
<1>11. QED
  BY <1>1, <1>2, <1>3, <1>4, <1>5, <1>6, <1>7, <1>8, <1>9, <1>10 DEF Next

LEMMA ClientsAlways ==
    ASSUME Aborts = FALSE
    PROVE  Spec => []ClientsInv
<1>1. Init => ClientsInv
  BY ClientsStart
<1>2. ClientsInv /\ [Next]_vars => ClientsInv'
  BY ClientsStep
<1>3. QED
  BY <1>1, <1>2, PTL DEF Spec

\* Never more clients than the database has connections for, one to a business, and none closed
\* under a request that works with it, for every number of them (tenant-clients.ts acquire,
\* dropLeastRecentIdle), while no caller goes away before its answer.
THEOREM AtMostMaxClientsHolds ==
    ASSUME Aborts = FALSE
    PROVE  Spec => []AtMostMaxClients
<1>1. ASSUME ClientsInv PROVE AtMostMaxClients
  <2>1. /\ work \in WorkType /\ active \in [Businesses -> Nat] /\ wasted \in BOOLEAN
        /\ kept \in Seq(Businesses) /\ IsInjective(kept) /\ Len(kept) <= MaxClients
        /\ waiting \in Seq(Requests \cup {TimedOut})
    BY <1>1 DEF ClientsInv, WorkSound, KeptSound, Line
  <2>2. \A b \in Businesses : active[b] <= Cardinality(Requests) /\ Cardinality(Requests) \in Nat
    <3>1. SUFFICES ASSUME NEW b \in Businesses
                   PROVE  active[b] <= Cardinality(Requests) /\ Cardinality(Requests) \in Nat
      OBVIOUS
    <3>2. UsersOf(work, b) \in SUBSET Requests /\ Requests \in SUBSET Requests
      BY DEF UsersOf
    <3>3. active[b] = Cardinality(UsersOf(work, b))
      BY <1>1 DEF ClientsInv, UsesCounted
    <3>4. QED
      BY <3>2, <3>3, SomeRequests
  <2>3. active \in [Businesses -> 0 .. Cardinality(Requests)]
    <3>1. \A b \in Businesses : active[b] \in 0 .. Cardinality(Requests)
      BY <2>1, <2>2
    <3>2. QED
      BY <2>1, <3>1
  <2>4. Len(waiting) <= MaxWaiting
    <3>1. Coming(work) \in SUBSET Requests
      BY DEF Coming
    <3>2. Cardinality(Coming(work)) \in Nat /\ Len(waiting) \in Nat /\ MaxWaiting \in Nat
      BY <2>1, <3>1, SomeRequests, TenantClientsAssumption DEF TenantClientsAssumption
    <3>3. QED
      BY <1>1, <3>2 DEF ClientsInv, Short
  <2>5. \A r \in Requests : work[r] = NoWork \/ work[r] \in Works
    BY <2>1 DEF WorkType
  <2>6. ASSUME NEW r \in Requests, work[r].at = "working" PROVE Kept(work[r].business)
    <3> DEFINE b == work[r].business
    <3>1. b \in Businesses /\ r \in UsersOf(work, b)
      BY <1>1, <2>5, <2>6 DEF UsersOf, ClientsInv, WorkSound, Works, NoWork
    <3>2. UsersOf(work, b) \in SUBSET Requests
      BY DEF UsersOf
    <3> HIDE DEF b
    <3>3. Cardinality(UsersOf(work, b) \ {r}) = Cardinality(UsersOf(work, b)) - 1
          /\ Cardinality(UsersOf(work, b) \ {r}) \in Nat /\ Cardinality(UsersOf(work, b)) \in Nat
      BY <3>1, <3>2, OneMore, SomeRequests
    <3>4. active[b] > 0
      BY <1>1, <3>1, <3>3 DEF ClientsInv, UsesCounted
    <3>5. b \in ToSet(kept)
      BY <1>1, <3>1, <3>4 DEF ClientsInv, KeptSound, Busy
    <3>6. QED
      BY <2>1, <3>5 DEF Kept, Contains, ToSet, b
  <2>7. QED
    BY <2>1, <2>3, <2>4, <2>5, <2>6 DEF AtMostMaxClients, TypeOK
<1>2. QED
  BY <1>1, ClientsAlways, PTL

\* A client's count is the number of responses still to close and jobs still to end that use it
\* (tenant-clients.ts release, tenant-context.ts), for every number of them.
THEOREM EveryUseIsLetGoHolds ==
    ASSUME Aborts = FALSE
    PROVE  Spec => []EveryUseIsLetGo
<1>1. ClientsInv => EveryUseIsLetGo
  BY DEF ClientsInv, UsesCounted, UsersOf, EveryUseIsLetGo
<1>2. QED
  BY <1>1, ClientsAlways, PTL

\* Nobody waits beside a free place that no one was told of, unless a wake went to a request that
\* did not need it (tenant-clients.ts acquire, release), for every number of them.
THEOREM FreeMeansWokenHolds ==
    ASSUME Aborts = FALSE
    PROVE  Spec => []FreeMeansWoken
<1>1. ASSUME ClientsInv PROVE FreeMeansWoken
  <2>1. SUFFICES ASSUME Free, NEW q \in Requests, work[q].at = "waiting", ~wasted
                 PROVE  \E r \in Requests : work[r].at = "woken"
    BY <1>1 DEF FreeMeansWoken
  <2>2. MaxClients <= Cardinality(Busy) + Cardinality(Awake(work))
    BY <1>1, <2>1 DEF ClientsInv, EnoughWoken
  <2>3. Cardinality(Busy) < MaxClients /\ Cardinality(Busy) \in Nat /\ MaxClients \in Nat
    BY <1>1, <2>1, BusyCounted, TenantClientsAssumption DEF ClientsInv, TenantClientsAssumption
  <2>4. Awake(work) # {}
    BY <2>2, <2>3, FS_EmptySet
  <2>5. QED
    BY <2>4 DEF Awake
<1>2. QED
  BY <1>1, ClientsAlways, PTL
=============================================================================
