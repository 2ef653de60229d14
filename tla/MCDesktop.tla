----------------------------- MODULE MCDesktop -----------------------------
(***************************************************************************)
(* Three parts of the desktop app that are never at work together, each    *)
(* checked alone in one run: selling on at the fallback counter, moving    *)
(* the business online, and backups of an offline business.  `part` says   *)
(* which one a behaviour is of; the others rest in their first state.      *)
(***************************************************************************)
EXTENDS Fallback, MoveOnline, Backups, TLC

VARIABLE part

DesktopInit ==
    /\ Init /\ MoveInit /\ BackupsInit
    /\ part \in {"fallback", "move", "backups"}

SellingOn == part = "fallback" /\ Next /\ UNCHANGED <<moveVars, backupVars, part>>
Moving == part = "move" /\ MoveNext /\ UNCHANGED <<vars, backupVars, part>>
BackingUp == part = "backups" /\ BackupsNext /\ UNCHANGED <<vars, moveVars, part>>

DesktopNext == SellingOn \/ Moving \/ BackingUp

BillSymmetry == Permutations(Bills)
=============================================================================
