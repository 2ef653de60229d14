----------------------------- MODULE MoveOnline -----------------------------
(***************************************************************************)
(* Moving a shop's business from its computer to the hosted server.  The   *)
(* desktop app pauses the local API (LocalInstance MIGRATING), exports the *)
(* database, uploads it under an import id it keeps until the server says  *)
(* no, and archives the copy here once the server has a business.  The     *)
(* upload's answer may be lost, arrive from the proxy in front of the API, *)
(* or come while the server is still working; the app and the API may      *)
(* stop anywhere; a change here may have passed the guard before the       *)
(* pause; and the owner may cancel a move left unfinished.                 *)
(***************************************************************************)
EXTENDS Integers, FiniteSets, Sequences

CONSTANTS
    MaxImports, \* bound: import ids the app may choose
    MaxUploads, \* bound: uploads sent
    MaxWork     \* bound: changes carried out here

ASSUME MoveAssumption == MaxImports \in Nat

Imports == 1..MaxImports
NoImport == 0                       \* no import id

VARIABLES
    status,   \* LocalInstance.status
    mode,     \* the desktop app's config: works with the copy "here", or "online"
    pending,  \* config.pendingImportId
    registerOpen, \* a register is open here
    change,   \* a change here that passed the guard and has not committed yet
    work,     \* how many changes the copy here has taken
    move,     \* the app's move: how far it is, what it exported, its upload
    outcome,  \* how the last move ended
    uploads,  \* uploads sent: import id, changes in the bundle, how far the server is
    online,   \* the server's Business row per import id, with the changes it started with
    excuses   \* why the two copies may differ or both be in use

localCopy == <<status, registerOpen, change, work>>
moveVars == <<status, mode, pending, registerOpen, change, work, move, outcome, uploads, online, excuses>>

NoMove == [at |-> "idle", copy |-> 0, upload |-> 0]
NotThere == [status |-> "none", copy |-> 0]

MoveInit ==
    /\ status = "ACTIVE" /\ mode = "here" /\ pending = NoImport
    /\ registerOpen = FALSE /\ change = "none" /\ work = 0
    /\ move = NoMove /\ outcome = "nothing"
    /\ uploads = <<>>
    /\ online = [i \in Imports |-> NotThere]
    /\ excuses = {}

UnderWay(n) == uploads[n].at \in {"received", "unpacking", "loading"}
Sent(i) == \E n \in DOMAIN uploads : uploads[n].import = i
MayHave(i) == online[i].status \in {"ACTIVE", "DELETING"} \/ \E n \in DOMAIN uploads : uploads[n].import = i /\ UnderWay(n)

HasIt == pending # NoImport /\ online[pending].status = "ACTIVE"

-----------------------------------------------------------------------------
(* Work on the copy here.                                                  *)

\* Mutant of Ask: a route that changes something is let through while the business is moving.
AskWhenMoving(kind) ==
    /\ status # "ARCHIVED" /\ mode = "here" /\ change = "none" /\ work < MaxWork
    /\ change' = kind
    /\ UNCHANGED <<status, mode, pending, registerOpen, work, move, outcome, uploads, online, excuses>>

\* A request that changes something passes the guard while the copy is ACTIVE.
Ask(kind) ==
    /\ status = "ACTIVE" /\ mode = "here" /\ change = "none" /\ work < MaxWork
    /\ change' = kind
    /\ UNCHANGED <<status, mode, pending, registerOpen, work, move, outcome, uploads, online, excuses>>

\* Later it commits (a sale only at an open register), whatever the status is by then.
Commit ==
    /\ change # "none"
    /\ change = "sale" => registerOpen
    /\ change = "close" => registerOpen
    /\ change' = "none"
    /\ work' = work + 1
    /\ registerOpen' = (IF change \in {"open", "close"} THEN change = "open" ELSE registerOpen)
    /\ UNCHANGED <<status, mode, pending, move, outcome, uploads, online, excuses>>

Fail ==
    /\ change # "none"
    /\ change' = "none"
    /\ UNCHANGED <<status, mode, pending, registerOpen, work, move, outcome, uploads, online, excuses>>

-----------------------------------------------------------------------------
(* The move, as the desktop app runs it.                                   *)

At(step) == [move EXCEPT !.at = step]

\* The server is checked, the owner signed in, a backup made; then begin, which the guard
\* refuses unless the copy is ACTIVE and which wants every register closed.
BeginMove ==
    /\ move.at = "idle" /\ mode = "here"
    /\ \/ status = "ACTIVE" /\ ~registerOpen /\ move' = At("checked") /\ outcome' = "nothing"
       \/ status = "ACTIVE" /\ registerOpen /\ move' = NoMove /\ outcome' = "register open"
       \/ status # "ACTIVE" /\ move' = NoMove /\ outcome' = (IF HasIt THEN "locked, though online" ELSE "locked")
    /\ UNCHANGED <<localCopy, mode, pending, uploads, online, excuses>>

Pause ==
    /\ move.at = "checked"
    /\ status' = "MIGRATING"
    /\ move' = At("paused")
    /\ UNCHANGED <<mode, pending, registerOpen, change, work, outcome, uploads, online, excuses>>

\* Giving up before the server has it: the local abort, whose own failure is ignored.
Abort(why) ==
    /\ move' = NoMove /\ outcome' = why
    /\ status' \in (IF status = "ARCHIVED" THEN {status} ELSE {"ACTIVE", status})

Export ==
    /\ move.at = "paused"
    /\ \/ /\ ~registerOpen /\ status # "ARCHIVED"
          /\ move' = [move EXCEPT !.at = "exported", !.copy = work]
          /\ excuses' = IF change = "none" THEN excuses ELSE excuses \cup {"late"}
          /\ UNCHANGED <<status, outcome>>
       \/ Abort("failed") /\ UNCHANGED excuses
    /\ UNCHANGED <<mode, pending, registerOpen, change, work, uploads, online>>

Upload ==
    /\ move.at = "exported" /\ Len(uploads) < MaxUploads
    /\ \E i \in IF pending # NoImport THEN {pending} ELSE {j \in Imports : ~Sent(j)} :
          /\ pending' = i
          /\ uploads' = Append(uploads, [import |-> i, copy |-> move.copy, at |-> "received"])
    /\ move' = [move EXCEPT !.at = "waiting", !.upload = Len(uploads) + 1]
    /\ UNCHANGED <<localCopy, mode, outcome, online, excuses>>

AwaitingAnswer(answer) == move.at = "waiting" /\ uploads[move.upload].at \in answer

\* Mutant of Unanswered: a lost answer ends like a refusal.
UnansweredAborts ==
    /\ move.at = "waiting"
    /\ pending' = NoImport /\ Abort("unanswered")
    /\ UNCHANGED <<mode, registerOpen, change, work, uploads, online, excuses>>

\* No answer: the app stays paused and keeps the import id.
Unanswered ==
    /\ move.at = "waiting"
    /\ move' = NoMove /\ outcome' = "unanswered"
    /\ UNCHANGED <<localCopy, mode, pending, uploads, online, excuses>>

\* Any answer that is not OK: the API's refusal, or the proxy's when the API stopped, took too
\* long or lost its answer.  The import id is dropped and the copy here works on.
Refused ==
    /\ move.at = "waiting" /\ pending' = NoImport
    /\ Abort("refused")
    /\ excuses' = IF MayHave(uploads[move.upload].import) THEN excuses \cup {"misheard"} ELSE excuses
    /\ UNCHANGED <<mode, registerOpen, change, work, uploads, online>>

Accepted ==
    /\ AwaitingAnswer({"made"})
    /\ move' = At("finishing")
    /\ UNCHANGED <<localCopy, mode, pending, outcome, uploads, online, excuses>>

\* OK, but the answer breaks off before its body is read: this ends like a refusal (neither
\* uploaded nor uncertain is set yet), except that the import id is kept.
Unreadable ==
    /\ AwaitingAnswer({"made"})
    /\ Abort("unreadable")
    /\ excuses' = IF status' = "ACTIVE" THEN excuses \cup {"unread"} ELSE excuses
    /\ UNCHANGED <<mode, pending, registerOpen, change, work, uploads, online>>

\* complete at the local API; its failure leaves everything as it is.
Finish ==
    /\ move.at = "finishing"
    /\ \/ /\ status \in {"MIGRATING", "ARCHIVED"}
          /\ status' = "ARCHIVED" /\ pending' = NoImport
          /\ move' = At("switching") /\ outcome' = "moved"
       \/ /\ move' = NoMove /\ outcome' = "not finished"
          /\ UNCHANGED <<status, pending>>
    /\ UNCHANGED <<mode, registerOpen, change, work, uploads, online, excuses>>

\* From now on this computer works online: after the move, or at the next start.
SwitchToOnline ==
    /\ status = "ARCHIVED" /\ mode = "here" /\ move.at \in {"switching", "idle"}
    /\ mode' = "online" /\ pending' = NoImport
    /\ move' = NoMove
    /\ UNCHANGED <<localCopy, outcome, uploads, online, excuses>>

\* The owner cancels a move that shows as unfinished (after a reload also one still running),
\* and is warned of the upload.
Cancel ==
    /\ status = "MIGRATING" /\ mode = "here"
    /\ status' = "ACTIVE"
    /\ excuses' = IF Sent(pending) \/ move.at # "idle" THEN excuses \cup {"cancelled"} ELSE excuses
    /\ UNCHANGED <<mode, pending, registerOpen, change, work, move, outcome, uploads, online>>

\* The app and its API stop, wherever the move is.
AppStops ==
    /\ move.at # "idle" \/ change # "none"
    /\ move' = NoMove /\ change' = "none" /\ outcome' = "nothing"
    /\ UNCHANGED <<status, mode, pending, registerOpen, work, uploads, online, excuses>>

-----------------------------------------------------------------------------
(* The server.                                                             *)

Server(n, step) == uploads' = [uploads EXCEPT ![n].at = step]
OnlineRow(i, s, n) == online' = [online EXCEPT ![i] = [status |-> s, copy |-> n]]

\* A business made from this import already is the answer; one being made refuses; anything
\* else is removed, to be made again.
PreviousAttempt(n) ==
    LET i == uploads[n].import IN
    /\ uploads[n].at = "received"
    /\ \/ online[i].status = "none" /\ Server(n, "unpacking") /\ UNCHANGED online
       \/ online[i].status = "ACTIVE" /\ Server(n, "made") /\ UNCHANGED online
       \/ online[i].status = "PROVISIONING" /\ Server(n, "refused") /\ UNCHANGED online
       \/ online[i].status \in {"FAILED", "DELETING"} /\ Server(n, "unpacking") /\ OnlineRow(i, "none", 0)
    /\ UNCHANGED <<localCopy, mode, pending, move, outcome, excuses>>

\* The bundle is read and the business reserved; the import id is unique.
Reserve(n) ==
    LET i == uploads[n].import IN
    /\ uploads[n].at = "unpacking"
    /\ \/ online[i].status = "none" /\ Server(n, "loading") /\ OnlineRow(i, "PROVISIONING", 0)
       \/ Server(n, "refused") /\ UNCHANGED online
    /\ UNCHANGED <<localCopy, mode, pending, move, outcome, excuses>>

\* Its schema is made and the rows loaded, then it is activated; or all of it is discarded.
Load(n) ==
    LET i == uploads[n].import IN
    /\ uploads[n].at = "loading"
    /\ \/ Server(n, "made") /\ OnlineRow(i, "ACTIVE", uploads[n].copy)
       \/ Server(n, "refused") /\ OnlineRow(i, "FAILED", 0)
    /\ UNCHANGED <<localCopy, mode, pending, move, outcome, excuses>>

\* The API stops: what it was making stays PROVISIONING, and nobody is answered.
ApiStops ==
    /\ \E n \in DOMAIN uploads : UnderWay(n) \/ uploads[n].at = "made"
    /\ uploads' = [n \in DOMAIN uploads |->
                     IF uploads[n].at = "refused" THEN uploads[n] ELSE [uploads[n] EXCEPT !.at = "gone"]]
    /\ UNCHANGED <<localCopy, mode, pending, move, outcome, online, excuses>>

\* The owner deletes the online business: locked, then erased and its import id forgotten,
\* unless they keep it after all.
DeleteOnline(i) ==
    /\ \/ online[i].status = "ACTIVE" /\ OnlineRow(i, "DELETING", online[i].copy) /\ UNCHANGED excuses
       \/ online[i].status = "DELETING" /\ OnlineRow(i, "ACTIVE", online[i].copy) /\ UNCHANGED excuses
       \/ online[i].status = "DELETING" /\ OnlineRow(i, "none", 0) /\ excuses' = excuses \cup {"erased"}
    /\ UNCHANGED <<localCopy, mode, pending, move, outcome, uploads>>

ServerStep == \E n \in DOMAIN uploads : PreviousAttempt(n) \/ Reserve(n) \/ Load(n)

MoveNext ==
    \/ \E kind \in {"work", "open", "sale", "close"} : Ask(kind)
    \/ Commit \/ Fail
    \/ BeginMove \/ Pause \/ Export \/ Upload \/ Unanswered \/ Refused \/ Accepted
    \/ Unreadable \/ Finish \/ SwitchToOnline \/ Cancel \/ AppStops
    \/ ServerStep \/ ApiStops \/ \E i \in Imports : DeleteOnline(i)

MoveSpec == MoveInit /\ [][MoveNext]_moveVars

-----------------------------------------------------------------------------
\* Once the copy here is archived, the business online started with every change made here,
\* unless one had passed the guard before the pause, or the owner cancelled an upload that
\* may have arrived, or deleted what the upload made, or the server's OK could not be read: then
\* the copy here works on, and a later move takes what was uploaded for all of it.
EverythingMoved ==
    status = "ARCHIVED" /\ excuses \cap {"late", "cancelled", "erased", "unread"} = {} =>
        \E i \in Imports : online[i].status \in {"ACTIVE", "DELETING"} /\ online[i].copy = work

\* The business is in use in one place: here or online, and online once.  It takes a refusal
\* that was none (the proxy's, or of an attempt still running), an OK that could not be read or a
\* cancelled upload to split it.
OneBusiness ==
    excuses \cap {"misheard", "cancelled", "unread"} = {} =>
        /\ Cardinality({i \in Imports : online[i].status = "ACTIVE"}) <= 1
        /\ status = "ACTIVE" => \A i \in Imports : online[i].status # "ACTIVE"

\* A business that moves online is moved whole, and is in use in one place.
MovedOnce == EverythingMoved /\ OneBusiness

\* What move-online.ts says: once the server has the business, a retry finishes the move.
RetryFinishes == outcome # "locked, though online"

=============================================================================
