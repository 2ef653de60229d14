------------------------------ MODULE Backups ------------------------------
(***************************************************************************)
(* Backups of an offline business and restoring one.  The desktop app runs *)
(* one operation at a time and the API's backup tool does the work: rows   *)
(* in one snapshot, then the uploads, then a file renamed into place.  A   *)
(* restore backs up first, stops the API, builds a database beside the     *)
(* live one and swaps both databases and both uploads folders by renaming. *)
(* Any step may fail and the app may stop after any of them.  A database   *)
(* is the set of changes it holds; a change's uploaded file is never       *)
(* removed by the app, so a folder is the set of changes with their files. *)
(***************************************************************************)
EXTENDS Integers, FiniteSets

CONSTANTS
    KeepDays,   \* days of backups kept
    MaxChanges, \* bound: changes made
    MaxBackups, \* bound: backups taken
    LastDate    \* bound: the last day

ASSUME BackupsAssumption == {KeepDays, MaxBackups} \subseteq Nat

VARIABLES
    date,
    api,      \* the API runs
    live,     \* the live database
    built,    \* <database>_restore
    aside,    \* <database>_before_restore
    uploadFolders,  \* the uploads folders: in use, restored ones waiting, ones replaced
    folder,   \* backups kept here: number, day, rows, files
    copies,   \* backups copied to the second folder: number, day
    job,      \* what the app does now: kind, step, backup to restore, rows it read
    report,   \* how the last restore ended
    made,     \* changes ever made
    replaced, \* history: what the last restore's own backup read, and when
    mishaps   \* history: stops and failures between two renames

backupVars == <<date, api, live, built, aside, uploadFolders, folder, copies, job, report, made, replaced, mishaps>>

NoDatabase == {0}
NoFolder == {0}
NoFile == [n |-> 0]
NoJob == [kind |-> "none", step |-> "none", file |-> NoFile, rows |-> {}]
NoneReplaced == [rows |-> {}, date |-> 0]

BackupsInit ==
    /\ date = 1 /\ api = FALSE
    /\ live = {1} /\ built = NoDatabase /\ aside = NoDatabase /\ made = 1
    /\ uploadFolders = [used |-> {1}, waiting |-> NoFolder, before |-> NoFolder]
    /\ folder = {} /\ copies = {} /\ job = NoJob /\ report = "none"
    /\ replaced = NoneReplaced /\ mishaps = {}

Free == job = NoJob
Doing(kind, step) == job.kind \in kind /\ job.step = step
GoesTo(step) == job' = [job EXCEPT !.step = step]
data == <<live, built, aside, uploadFolders>>
stored == <<folder, copies>>
history == <<made, replaced, mishaps>>

\* Everyday work through the API, also while a backup reads.
Change ==
    /\ api /\ made < MaxChanges
    /\ made' = made + 1
    /\ live' = live \cup {made + 1}
    /\ uploadFolders' = [uploadFolders EXCEPT !.used = @ \cup {made + 1}]
    /\ UNCHANGED <<date, api, built, aside, stored, job, report, replaced, mishaps>>

NextDate ==
    /\ date < LastDate
    /\ date' = date + 1
    /\ UNCHANGED <<api, data, stored, job, report, history>>

-----------------------------------------------------------------------------
(* Taking backups.                                                         *)

\* The last KeepDays days, and the newest however old.
Kept(files) == {b \in files : b.date > date - KeepDays \/ \A c \in files : c.n <= b.n}

TodayHasOne == \E b \in folder : b.date = date

\* Started by the clock every hour ("daily", skipped when there is one of today), by an admin
\* ("manual"), before moving online, or by the start of the app: skipped the same way, unless
\* migrations are about to run.
BeginBackup(kind) ==
    /\ Free /\ (kind = "start") = ~api
    /\ \/ /\ kind # "manual" /\ TodayHasOne
          /\ folder' = Kept(folder) /\ job' = [NoJob EXCEPT !.kind = kind, !.step = "taken"]
       \/ /\ kind = "daily" => ~TodayHasOne
          /\ UNCHANGED folder /\ job' = [NoJob EXCEPT !.kind = kind, !.step = "read"]
    /\ UNCHANGED <<date, api, data, copies, report, history>>

\* All rows in one RepeatableRead transaction; there may be no database to read.
ReadRows ==
    /\ job.step = "read" /\ live # NoDatabase
    /\ job' = [job EXCEPT !.step = "write", !.rows = live]
    /\ replaced' = IF job.kind = "restore" THEN [rows |-> live, date |-> date] ELSE replaced
    /\ UNCHANGED <<date, api, data, stored, report, made, mishaps>>

\* The uploads as they are now, the file renamed into place, old backups removed.
WriteFile ==
    /\ job.step = "write"
    /\ \E n \in 1 .. MaxBackups :
          /\ \A b \in folder : b.n < n
          /\ n = 1 \/ \E b \in folder : b.n = n - 1
          /\ folder' = Kept(folder \cup {[n |-> n, date |-> date, rows |-> job.rows, files |-> uploadFolders.used]})
    /\ GoesTo(IF job.kind = "restore" THEN "stop" ELSE "taken")
    /\ UNCHANGED <<date, api, data, copies, report, history>>

\* Then a copy in the second folder, when the drive is there; also of the newest, the next hour.
CopyOffsite ==
    /\ folder # {}
    /\ LET latest == CHOOSE b \in folder : \A c \in folder : c.n <= b.n
       IN  copies' = Kept(copies \cup {[n |-> latest.n, date |-> latest.date]})
    /\ \/ Free /\ api /\ UNCHANGED job
       \/ Doing({"daily", "manual"}, "taken") /\ job' = NoJob
       \/ Doing({"start"}, "taken") /\ GoesTo("migrate")
    /\ UNCHANGED <<date, api, data, folder, report, history>>

\* A backup that fails, or whose copy does: the app carries on.
BackupDone ==
    /\ job.kind \in {"daily", "manual", "start"} /\ job.step # "migrate"
    /\ job' = IF job.kind = "start" THEN [job EXCEPT !.step = "migrate"] ELSE NoJob
    /\ UNCHANGED <<date, api, data, stored, report, history>>

-----------------------------------------------------------------------------
(* Restoring.                                                              *)

\* Mutant of BeginRestore: the data here is not backed up first.
BeginRestoreAtOnce(b) ==
    /\ Free /\ api
    /\ job' = [NoJob EXCEPT !.kind = "restore", !.step = "stop", !.file = b]
    /\ report' = "running"
    /\ replaced' = [rows |-> live, date |-> date]
    /\ UNCHANGED <<date, api, data, stored, made, mishaps>>

\* A backup of the list, by name; the data here is backed up first.
BeginRestore(b) ==
    /\ Free /\ api
    /\ job' = [NoJob EXCEPT !.kind = "restore", !.step = "read", !.file = b]
    /\ report' = "running"
    /\ UNCHANGED <<date, api, data, stored, history>>

StopApi ==
    /\ Doing({"restore"}, "stop")
    /\ api' = FALSE
    /\ GoesTo("unpack")
    /\ UNCHANGED <<date, data, stored, report, history>>

\* The backup, which must still be there, is unpacked beside the uploads and checked: of a
\* version this app knows, every table and file as its checksum says (or RestoreFails).
Unpack ==
    /\ Doing({"restore"}, "unpack") /\ job.file \in folder
    /\ uploadFolders' = [uploadFolders EXCEPT !.waiting = job.file.files]
    /\ GoesTo("build")
    /\ UNCHANGED <<date, api, live, built, aside, stored, report, history>>

\* A database is built and loaded from it; one set aside by an earlier restore goes.
Build ==
    /\ Doing({"restore"}, "build")
    /\ built' = job.file.rows
    /\ aside' = NoDatabase
    /\ GoesTo("set aside")
    /\ UNCHANGED <<date, api, live, uploadFolders, stored, report, history>>

SetAside ==
    /\ Doing({"restore"}, "set aside")
    /\ live # NoDatabase
    /\ aside' = live /\ live' = NoDatabase
    /\ GoesTo("swap")
    /\ UNCHANGED <<date, api, built, uploadFolders, stored, report, history>>

SwapIn ==
    /\ Doing({"restore"}, "swap")
    /\ live' = built /\ built' = NoDatabase
    /\ GoesTo("drop")
    /\ UNCHANGED <<date, api, aside, uploadFolders, stored, report, history>>

DropAside ==
    /\ Doing({"restore"}, "drop")
    /\ aside' = NoDatabase
    /\ GoesTo("uploadFolders")
    /\ UNCHANGED <<date, api, live, built, uploadFolders, stored, report, history>>

\* The uploads in use are renamed away, over nothing, ...
SetUploadsAside ==
    /\ Doing({"restore"}, "uploadFolders")
    /\ uploadFolders' = [uploadFolders EXCEPT !.used = NoFolder, !.before = IF uploadFolders.used = NoFolder THEN NoFolder ELSE uploadFolders.used]
    /\ GoesTo("uploadFolders in")
    /\ UNCHANGED <<date, api, live, built, aside, stored, report, history>>

\* ... and the restored ones take their place.
SwapUploads ==
    /\ Doing({"restore"}, "uploadFolders in")
    /\ uploadFolders' = [used |-> uploadFolders.waiting, waiting |-> NoFolder, before |-> NoFolder]
    /\ job' = [job EXCEPT !.step = "migrate"]
    /\ report' = "done"
    /\ UNCHANGED <<date, api, live, built, aside, stored, history>>

Halfway == CASE job.step = "swap" -> {"between the databases"}
             [] job.step \in {"drop", "uploadFolders", "uploadFolders in"} -> {"before the uploadFolders"}
             [] OTHER -> {}

\* A step fails: the second rename is undone; what was being restored is removed; whatever
\* happened, the API is started again.  (That undoing may fail too is left out: the rows are then
\* where a stop between the renames leaves them.)
RestoreFails ==
    /\ job.kind = "restore" /\ job.step # "migrate"
    /\ IF job.step = "swap" THEN live' = aside /\ aside' = NoDatabase ELSE UNCHANGED <<live, aside>>
    /\ built' = NoDatabase
    /\ uploadFolders' = [uploadFolders EXCEPT !.waiting = NoFolder]
    /\ job' = IF job.step \in {"read", "write", "stop"} THEN NoJob ELSE [job EXCEPT !.step = "migrate"]
    /\ report' = IF job.step = "read" \/ replaced.rows \subseteq live' THEN "failed, nothing changed" ELSE "failed, data changed"
    /\ mishaps' = mishaps \cup (Halfway \ {"between the databases"})
    /\ UNCHANGED <<date, api, stored, made, replaced>>

\* Migrations, which make the live database when there is none, then the API.
StartApi ==
    /\ job.step = "migrate"
    /\ live' = IF live = NoDatabase THEN {} ELSE live
    /\ api' = TRUE /\ job' = NoJob
    /\ UNCHANGED <<date, built, aside, uploadFolders, stored, report, history>>

\* The computer or the app stops.
Stop ==
    /\ api \/ ~Free
    /\ api' = FALSE /\ job' = NoJob
    /\ report' = IF report = "running" THEN "none" ELSE report
    /\ mishaps' = mishaps \cup Halfway
    /\ UNCHANGED <<date, data, stored, made, replaced>>

BackupsNext ==
    \/ Change \/ NextDate
    \/ \E kind \in {"daily", "manual", "start"} : BeginBackup(kind)
    \/ ReadRows \/ WriteFile \/ CopyOffsite \/ BackupDone
    \/ \E b \in folder : BeginRestore(b)
    \/ StopApi \/ Unpack \/ Build \/ SetAside \/ SwapIn \/ DropAside \/ SetUploadsAside \/ SwapUploads
    \/ RestoreFails \/ StartApi \/ Stop

BackupsSpec == BackupsInit /\ [][BackupsNext]_backupVars

-----------------------------------------------------------------------------
\* What the last restore backed up before it replaced anything can be had for as long as
\* backups are kept, whatever fails or stops; a working business has its database and the
\* uploads it refers to, unless the app stopped between the two renames of the databases or
\* before the uploads were swapped.
BusinessKept ==
    /\ \/ replaced = NoneReplaced \/ date - replaced.date >= KeepDays
       \/ replaced.rows \subseteq live
       \/ \E b \in folder : b.rows = replaced.rows
    /\ api => /\ live # NoDatabase
              /\ "between the databases" \notin mishaps => 1 \in live
              /\ mishaps = {} => live \subseteq uploadFolders.used

\* What backups.ts says: "a failed restore changes nothing".  Once the databases are swapped,
\* failing to drop the old one or to rename a folder leaves the restored rows in place.
FailedRestoreChangesNothing == report # "failed, data changed"
============================================================================
