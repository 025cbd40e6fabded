----------------------------- MODULE LiveDatabase -----------------------------
(***************************************************************************)
(* The database file under backups and restores: CreateAndSend             *)
(* (internal/backup/backup.go), Backup and Restore (internal/db/backup.go),*)
(* doRestore (internal/bot/admin.go), Open (internal/db/db.go), beside the *)
(* statements of handlers and jobs, with failing files and crashes.        *)
(*                                                                         *)
(* The rows are a set of transactions.  The handle has one connection,     *)
(* which a statement keeps from Begin to Commit or Abort.  db.Close does   *)
(* not wait for it: it goes on, on the file that Restore overwrites.       *)
(***************************************************************************)
EXTENDS Integers, FiniteSetsExt

CONSTANTS
    Txs,       \* transactions of the program, each committed at most once
    Jobs,      \* calls of CreateAndSend, by the cron entry or the menu
    Restores,  \* calls of doRestore, by administrators' dialogues
    Admins,    \* the recipients of a backup
    Keep,      \* setting backup_keep
    MaxMinute  \* bound: minutes explored

Free == "free"

ASSUME DatabaseAssumption ==
    /\ Keep \in Nat \ {0} /\ MaxMinute \in Nat
    /\ IsFiniteSet(Admins) /\ Restores \cap Jobs = {} /\ Free \notin Restores \cup Jobs

Minutes == 0 .. MaxMinute

\* A file is missing, cut off (which SQLite and gunzip notice), damaged (pages or rows
\* that do not belong together, which they may not notice), or a whole database.
NoFile == [is |-> "none", rows |-> {}]
Part == [is |-> "part", rows |-> {}]
Damaged == [is |-> "damaged", rows |-> {}]
Whole(rows) == [is |-> "whole", rows |-> rows]

\* What a file may be that is there; an administrator may send any as a backup.
Documents == {Part, Damaged} \cup {Whole(rows) : rows \in SUBSET Txs}
Files == Documents \cup {NoFile}

VARIABLES
    disk,    \* the live database file
    handle,  \* Store.db: "open", "closed", or "down" when Open failed at the start
    lock,    \* Store.mu: Free or the restore or the backup that holds it
    open,    \* statements on the connection of the handle, at most one
    stray,   \* statements on a closed handle, whose file is still in place
    ghost,   \* statements on a closed handle, whose file was overwritten
    raw, gz, \* the backup directory, by the minute in the name
    inbox,   \* the rows of the whole databases the administrators got
    job,     \* the locals of each backup
    res,     \* the locals of each restore
    tmp,     \* restores whose download is in restore-tmp
    acked,   \* history: statements reported as done to the program since the last restore
    torn,    \* history: the live file was left cut or damaged
    now      \* the minute

statementVars == <<open, stray, ghost>>
backupVars == <<raw, gz, job, inbox>>
restoreVars == <<res, tmp>>
vars == <<disk, handle, lock, statementVars, backupVars, restoreVars, acked, torn, now>>

\* "marred" is history: another backup of the same minute ran beside this one, or the live
\* file was damaged when it was taken.
NoJob == [at |-> "idle", min |-> 0, file |-> NoFile, todo |-> {}, marred |-> FALSE]
JobOver == [NoJob EXCEPT !.at = "over"]
NoRestore == [at |-> "idle", file |-> NoFile]
RestoreOver == [NoRestore EXCEPT !.at = "over"]
Begun(call) == call.at \notin {"idle", "over"}

TypeOK ==
    /\ disk \in Documents /\ handle \in {"open", "closed", "down"}
    /\ lock \in Restores \cup Jobs \cup {Free}
    /\ open \subseteq Txs /\ stray \subseteq Txs /\ ghost \subseteq Txs
    /\ raw \in [Minutes -> Files] /\ gz \in [Minutes -> Files]
    /\ inbox \subseteq SUBSET Txs
    /\ job \in [Jobs -> [at : {"idle", "snapshot", "vacuum", "gzip", "zipping", "send",
                               "over"}, min : Minutes, file : Files, todo : SUBSET Admins, marred : BOOLEAN]]
    /\ res \in [Restores -> [at : {"idle", "check", "lock", "copy", "copying", "reopen", "cleanup",
                                   "over"}, file : Files]]
    /\ tmp \subseteq Restores /\ acked \subseteq Txs
    /\ torn \in BOOLEAN /\ now \in Minutes
    /\ \A r \in Restores : res[r].at \in {"copy", "copying", "reopen"} <=> lock = r
    /\ \A b \in Jobs : job[b].at = "vacuum" <=> lock = b
    /\ \A b \in Jobs : job[b].at = "zipping" => job[b].file \in Documents

Init ==
    /\ disk = Whole({}) /\ handle = "open" /\ lock = Free
    /\ open = {} /\ stray = {} /\ ghost = {}
    /\ raw = [m \in Minutes |-> NoFile] /\ gz = raw
    /\ inbox = {} /\ tmp = {} /\ acked = {}
    /\ job = [b \in Jobs |-> NoJob]
    /\ res = [r \in Restores |-> NoRestore]
    /\ torn = FALSE /\ now = 0

(***************************************************************************)
(* Statements of handlers and jobs.                                        *)
(***************************************************************************)

\* On a closed handle a statement is an error.
Begin(x) ==
    /\ handle = "open" /\ open = {}
    /\ x \notin disk.rows \cup stray \cup ghost
    /\ open' = {x}
    /\ UNCHANGED <<disk, handle, lock, stray, ghost, backupVars, restoreVars, acked, torn, now>>

WithRow(file, x) == IF file.is = "whole" THEN Whole(file.rows \cup {x}) ELSE file

Commit(x) ==
    /\ x \in open
    /\ open' = open \ {x}
    /\ disk' = WithRow(disk, x) /\ acked' = acked \cup {x}
    /\ UNCHANGED <<handle, lock, stray, ghost, backupVars, restoreVars, torn, now>>

Abort(x) ==
    /\ x \in open
    /\ open' = open \ {x}
    /\ UNCHANGED <<disk, handle, lock, stray, ghost, backupVars, restoreVars, acked, torn, now>>

\* The connection of a closed handle writes to the file it has open, and closes.
StrayEnds(x) ==
    /\ x \in stray
    /\ stray' = stray \ {x}
    /\ \/ disk' = WithRow(disk, x) /\ acked' = acked \cup {x}
       \/ UNCHANGED <<disk, acked>>
    /\ UNCHANGED <<handle, lock, open, ghost, backupVars, restoreVars, torn, now>>

\* The same once that file was overwritten: the statement is lost, whatever it reports,
\* and its pages may go into the file that was put in its place.
GhostEnds(x) ==
    /\ x \in ghost
    /\ ghost' = ghost \ {x}
    /\ \/ disk' = Damaged /\ torn' = TRUE
       \/ UNCHANGED <<disk, torn>>
    /\ UNCHANGED <<handle, lock, open, stray, backupVars, restoreVars, acked, now>>

(***************************************************************************)
(* CreateAndSend.                                                          *)
(***************************************************************************)

\* Mutant of the next definition: the name has no minutes.
HourOnly(m) == 0

\* The time in the name of a backup.
Stamp(m) == m

\* Backups of one minute share their files; nothing keeps them apart.
BackupStart(b) ==
    /\ job[b].at = "idle"
    /\ LET Same == {c \in Jobs : Begun(job[c]) /\ job[c].min = now} IN
       job' = [c \in Jobs |->
                 CASE c = b -> [NoJob EXCEPT !.at = "snapshot", !.min = now, !.marred = Same # {}]
                   [] c \in Same -> [job[c] EXCEPT !.marred = TRUE]
                   [] OTHER -> job[c]]
    /\ UNCHANGED <<disk, handle, lock, statementVars, raw, gz, inbox, restoreVars,
                   acked, torn, now>>

\* The deferred removal of the raw snapshot.
BackupEnds(b) ==
    /\ job' = [job EXCEPT ![b] = JobOver]
    /\ raw' = [raw EXCEPT ![Stamp(job[b].min)] = NoFile]

\* Backup under the lock: the old file is removed, and VACUUM INTO creates a new one.
SnapshotStart(b) ==
    /\ job[b].at = "snapshot" /\ lock = Free
    /\ lock' = b
    /\ raw' = [raw EXCEPT ![Stamp(job[b].min)] = IF handle = "open" THEN Part ELSE NoFile]
    /\ job' = [job EXCEPT ![b].at = "vacuum"]
    /\ UNCHANGED <<disk, handle, statementVars, gz, inbox, restoreVars,
                   acked, torn, now>>

Fill(file, contents) == IF file = NoFile THEN NoFile ELSE contents

\* VACUUM INTO takes its turn on the connection, and fails on a closed handle; after an
\* error the file stays, for the removal is not yet deferred.
SnapshotEnd(b) ==
    LET f == Stamp(job[b].min) IN
    /\ job[b].at = "vacuum"
    /\ lock' = Free
    /\ \/ /\ handle = "open" /\ open = {}
          /\ raw' = [raw EXCEPT ![f] = Fill(@, disk)]
          /\ job' = [job EXCEPT ![b].at = "gzip", ![b].marred = @ \/ disk.is # "whole"]
       \/ job' = [job EXCEPT ![b] = JobOver] /\ UNCHANGED raw
    /\ UNCHANGED <<disk, handle, statementVars, gz, inbox, restoreVars, acked, torn, now>>

\* gzipFile opens the snapshot, creates the compressed file and fills it.
GzipStart(b) ==
    LET f == Stamp(job[b].min) IN
    /\ job[b].at = "gzip"
    /\ \/ /\ raw[f] # NoFile
          /\ gz' = [gz EXCEPT ![f] = Part]
          /\ job' = [job EXCEPT ![b].at = "zipping", ![b].file = raw[f]]
          /\ UNCHANGED raw
       \/ BackupEnds(b) /\ UNCHANGED gz
    /\ UNCHANGED <<disk, handle, lock, statementVars, inbox, restoreVars,
                   acked, torn, now>>

\* The compressed file holds what was read, a snapshot in the making perhaps to its end;
\* two backups that write to it at once leave it broken.  One that was pruned meanwhile
\* stays away.  An error leaves it as it is.
GzipEnd(b) ==
    LET f == Stamp(job[b].min) IN
    /\ job[b].at = "zipping"
    /\ \/ /\ \E file \in {job[b].file}
                  \cup (IF job[b].file = Part THEN {raw[f]} \ {NoFile} ELSE {})
                  \cup (IF job[b].marred THEN {Part} ELSE {}) :
                gz' = [gz EXCEPT ![f] = Fill(@, file)]
          /\ job' = [job EXCEPT ![b] = [@ EXCEPT !.at = "send", !.file = NoFile, !.todo = Admins]]
          /\ UNCHANGED raw
       \/ BackupEnds(b) /\ UNCHANGED gz
    /\ UNCHANGED <<disk, handle, lock, statementVars, inbox, restoreVars,
                   acked, torn, now>>

\* A file another backup has pruned meanwhile cannot be sent.
Send(b, a) ==
    LET f == gz[Stamp(job[b].min)] IN
    /\ job[b].at = "send" /\ a \in job[b].todo
    /\ inbox' = IF f.is = "whole" THEN inbox \cup {f.rows} ELSE inbox
    /\ job' = [job EXCEPT ![b].todo = @ \ {a}]
    /\ UNCHANGED <<disk, handle, lock, statementVars, raw, gz, restoreVars,
                   acked, torn, now>>

SendFails(b, a) ==
    /\ job[b].at = "send" /\ a \in job[b].todo
    /\ job' = [job EXCEPT ![b].todo = @ \ {a}]
    /\ UNCHANGED <<disk, handle, lock, statementVars, raw, gz, inbox,
                   restoreVars, acked, torn, now>>

Stored == {m \in Minutes : gz[m].is # "none"}

\* Mutant of the next definition: the names are sorted the other way round.
Newest == {m \in Stored : Cardinality({n \in Stored : n < m}) >= Keep}

\* The files prune removes: all but the last Keep of the sorted names.
Superfluous == {m \in Stored : Cardinality({n \in Stored : n > m}) >= Keep}

Prune(b) ==
    /\ job[b].at = "send" /\ job[b].todo = {}
    /\ gz' = [m \in Minutes |-> IF m \in Superfluous THEN NoFile ELSE gz[m]]
    /\ BackupEnds(b)
    /\ UNCHANGED <<disk, handle, lock, statementVars, inbox, restoreVars,
                   acked, torn, now>>

(***************************************************************************)
(* doRestore and Restore.                                                  *)
(***************************************************************************)

GoTo(r, place) == res' = [res EXCEPT ![r].at = place]
ToCleanup(r) == res' = [res EXCEPT ![r] = [NoRestore EXCEPT !.at = "cleanup"]]

\* A download that fails has no effect: nothing is to be removed before it succeeds.
\* Bound: the documents of restores that overlap have different names.
Download(r, f) ==
    /\ res[r].at = "idle"
    /\ res' = [res EXCEPT ![r] = [at |-> "check", file |-> f]]
    /\ tmp' = tmp \cup {r}
    /\ UNCHANGED <<disk, handle, lock, statementVars, backupVars, acked, torn, now>>

\* gunzip and validateSQLite open the file, unless it was removed meanwhile, is cut off
\* or cannot be read.
ValidateSQLite(r) ==
    /\ res[r].at = "check"
    /\ \/ r \in tmp /\ res[r].file.is # "part" /\ GoTo(r, "lock")
       \/ ToCleanup(r)
    /\ UNCHANGED <<disk, handle, lock, statementVars, backupVars, tmp, acked, torn, now>>

\* Mutant of the next definition: the handle stays open.
LeftOpen == handle

Closed == "closed"

\* Mutant of the next definition: Restore does not take the lock.
CloseUnlocked(r) ==
    /\ res[r].at = "lock"
    /\ lock' = r /\ handle' = Closed
    /\ stray' = stray \cup open /\ open' = {}
    /\ GoTo(r, "copy")
    /\ UNCHANGED <<disk, ghost, backupVars, tmp, acked, torn, now>>

\* db.Close, which waits for no statement, and the removal of the -wal and -shm files.
CloseLive(r) ==
    /\ res[r].at = "lock" /\ lock = Free
    /\ lock' = r /\ handle' = Closed
    /\ stray' = stray \cup open /\ open' = {}
    /\ GoTo(r, "copy")
    /\ UNCHANGED <<disk, ghost, backupVars, tmp, acked, torn, now>>

\* Mutant of the next definition: the live file is truncated first.
TruncateFirst(r) == Part

\* What copyFile leaves of the live file when the source does not open.
Untouched(r) == disk

\* copyFile opens the source, then truncates the live file.  If either fails, always
\* without the source, Restore returns: the lock is free, and the handle closed.
OpenSource(r) ==
    /\ res[r].at = "copy"
    /\ \/ /\ r \in tmp
          /\ disk' = Part /\ acked' = {} /\ ghost' = ghost \cup stray /\ stray' = {}
          /\ GoTo(r, "copying") /\ UNCHANGED lock
       \/ disk' = Untouched(r) /\ lock' = Free /\ ToCleanup(r)
          /\ UNCHANGED <<acked, stray, ghost>>
    /\ UNCHANGED <<handle, open, backupVars, tmp, torn, now>>

\* The copy is the file, unless a statement left over from the old one spoilt it.
CopyEnd(r) ==
    /\ res[r].at = "copying"
    /\ \/ /\ disk' \in {res[r].file} \cup ({disk} \ {Part})
          /\ torn' = (disk'.is # "whole")
          /\ res' = [res EXCEPT ![r] = [NoRestore EXCEPT !.at = "reopen"]] /\ UNCHANGED lock
       \/ torn' = TRUE /\ lock' = Free /\ ToCleanup(r) /\ UNCHANGED disk
    /\ UNCHANGED <<handle, statementVars, backupVars, tmp, acked, now>>

\* The new handle, the schema and the default settings.  Without an answer to its
\* Ping the old handle stays, which is closed.
Reopen(r) ==
    /\ res[r].at = "reopen"
    /\ handle' \in {"open", handle} /\ lock' = Free
    /\ ToCleanup(r)
    /\ UNCHANGED <<disk, statementVars, backupVars, tmp, acked, torn, now>>

\* The deferred RemoveAll takes the whole directory.  AddAdmin, before it, is a
\* statement like any other.
Cleanup(r) ==
    /\ res[r].at = "cleanup"
    /\ tmp' = {} /\ res' = [res EXCEPT ![r] = RestoreOver]
    /\ UNCHANGED <<disk, handle, lock, statementVars, backupVars, acked, torn, now>>

(***************************************************************************)
(* The clock; crash and start.                                             *)
(***************************************************************************)

NextMinute ==
    /\ now < MaxMinute /\ now' = now + 1
    /\ UNCHANGED <<disk, handle, lock, statementVars, backupVars, restoreVars, acked, torn>>

\* The file a start finds: that of the stop, less the -wal of statements that Restore has
\* left open.  One that was cut to nothing is taken for a new database.
Found ==
    {disk} \cup (IF stray # {} THEN {Damaged} ELSE {})
      \cup (IF disk = Part /\ handle # "down" THEN {Whole({})} ELSE {})

\* Open after a crash: one that was cut elsewhere stops the program at once.
Crash ==
    /\ disk' \in Found
    /\ handle' \in (IF disk'.is = "part" THEN {} ELSE {"open"})
                     \cup (IF disk'.is = "whole" THEN {} ELSE {"down"})
    /\ torn' = (disk'.is # "whole")
    /\ lock' = Free /\ open' = {} /\ stray' = {} /\ ghost' = {}
    /\ job' = [b \in Jobs |-> IF job[b].at = "idle" THEN NoJob ELSE JobOver]
    /\ res' = [r \in Restores |-> IF res[r].at = "idle" THEN NoRestore ELSE RestoreOver]
    /\ UNCHANGED <<raw, gz, inbox, tmp, acked, now>>

StatementStep(x) == Begin(x) \/ Commit(x) \/ Abort(x) \/ StrayEnds(x) \/ GhostEnds(x)

BackupStep(b) ==
    \/ BackupStart(b) \/ SnapshotStart(b) \/ SnapshotEnd(b) \/ GzipStart(b) \/ GzipEnd(b)
    \/ \E a \in Admins : Send(b, a) \/ SendFails(b, a)
    \/ Prune(b)

RestoreStep(r) ==
    \/ \E f \in Documents : Download(r, f)
    \/ ValidateSQLite(r) \/ CloseLive(r) \/ OpenSource(r) \/ CopyEnd(r)
    \/ Reopen(r) \/ Cleanup(r)

Next ==
    \/ /\ handle # "down"
       /\ \/ \E x \in Txs : StatementStep(x)
          \/ \E b \in Jobs : BackupStep(b)
          \/ \E r \in Restores : RestoreStep(r)
    \/ NextMinute \/ Crash

Spec == Init /\ [][Next]_vars

(***************************************************************************)
(* Properties.                                                             *)
(***************************************************************************)

\* "A consistent snapshot" (db/backup.go:10): while a backup sends its file, the file is a
\* whole database or was pruned, whatever other backups and restores do meanwhile.  Only a
\* backup of the same minute, which writes to the same file (backup.go:25), or a live file
\* that was damaged before, mars it.
SentWhole ==
    \A b \in Jobs : job[b].at = "send" /\ ~job[b].marred =>
        gz[Stamp(job[b].min)].is \in {"none", "whole"}

\* Restore leaves the live file whole, the old one or the new one, when it lets go of the
\* lock; only an error or a crash in the middle of the copy, a document that is itself
\* damaged, or a statement that was open at db.Close tears it.
LiveFileWhole == lock \notin Restores /\ ~torn => disk.is = "whole"

\* A statement on the handle in service that reported success after the live file was
\* last overwritten is in it, and so is one that Restore left open, if it came in time.
AckedKept == ~torn => acked \subseteq disk.rows

\* prune keeps the newest backups (backup.go:20): a file goes only if Keep newer ones stay.
PruneKeepsNewest ==
    [][\A m \in Stored : gz'[m].is = "none" =>
          Cardinality({n \in Minutes : n > m /\ gz'[n].is # "none"}) >= Keep]_vars

(***************************************************************************)
(* Backup and restore implement the snapshot store.                        *)
(***************************************************************************)

WholeRows(file) == {file[m].rows : m \in {n \in Minutes : file[n].is = "whole"}}

\* The copies kept: snapshots, compressed ones, and those being compressed.
Kept ==
    WholeRows(raw) \cup WholeRows(gz)
      \cup {job[b].file.rows : b \in {c \in Jobs : job[c].file.is = "whole"}}

\* What the live file holds, and whether it takes statements.
Content == IF disk.is = "whole" THEN {disk.rows} ELSE {}
Serving == handle = "open" /\ disk.is = "whole"

Snapshots == INSTANCE SnapshotStore WITH
    Writes <- Txs, content <- Content, serving <- Serving, left <- stray \cup ghost,
    copies <- Kept, given <- inbox

\* "A consistent snapshot" (db/backup.go:10) and "swaps it in" (db/backup.go:21) as a
\* specification: whatever overlaps, fails or crashes, a whole backup that is sent is
\* what the database held at one moment, the file is overwritten only out of service,
\* and a statement that was open then is all that can spoil it.
ImplementsSnapshots == Snapshots!StoreSpec
=============================================================================
