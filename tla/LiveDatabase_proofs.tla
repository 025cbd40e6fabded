-------------------------- MODULE LiveDatabase_proofs --------------------------
(***************************************************************************)
(* What backups and restores guarantee for any number of calls, minutes,   *)
(* administrators and statements.                                          *)
(***************************************************************************)
EXTENDS DatabaseInv, FiniteSetTheorems, WellFoundedInduction, TLAPS

USE DEF vars, statementVars, backupVars, restoreVars

(***************************************************************************)
(* The locals of calls.                                                    *)
(***************************************************************************)

JobPlaces == {"idle", "snapshot", "vacuum", "gzip", "zipping", "send", "over"}
JobLocal == [at : JobPlaces, min : Minutes, file : Files, todo : SUBSET Admins, marred : BOOLEAN]
ResPlaces == {"idle", "check", "lock", "copy", "copying", "reopen", "cleanup", "over"}
ResLocal == [at : ResPlaces, file : Files]

LEMMA LocalType ==
    TypeOK => job \in [Jobs -> JobLocal] /\ res \in [Restores -> ResLocal]
BY DEF TypeOK, JobLocal, JobPlaces, ResLocal, ResPlaces

LEMMA FileKinds ==
    /\ NoFile.is = "none" /\ Part.is = "part" /\ Damaged.is = "damaged"
    /\ Part.rows = {}
    /\ \A S : Whole(S).is = "whole" /\ Whole(S).rows = S
    /\ \A f \in Documents : f.is \in {"part", "damaged", "whole"} /\ f.rows \in SUBSET Txs
    /\ \A f \in Documents : f.is = "part" => f = Part
BY DEF NoFile, Part, Damaged, Whole, Documents

LEMMA ConstantTypes ==
    /\ Minutes \subseteq Nat /\ 0 \in Minutes
    /\ NoJob \in JobLocal /\ NoRestore \in ResLocal
    /\ JobOver \in JobLocal /\ JobOver.at = "over"
    /\ RestoreOver \in ResLocal /\ RestoreOver.at = "over"
    /\ NoFile \in Files /\ Documents \subseteq Files
    /\ Part \in Documents /\ Damaged \in Documents
    /\ \A S \in SUBSET Txs : Whole(S) \in Documents
<1>1. NoFile \in Files /\ Documents \subseteq Files
  BY DEF Files
<1>2. Minutes \subseteq Nat /\ 0 \in Minutes
  BY DatabaseAssumption DEF Minutes
<1>3. Part \in Documents /\ Damaged \in Documents /\ \A S \in SUBSET Txs : Whole(S) \in Documents
  BY DEF Documents
<1> QED
  BY <1>1, <1>2, <1>3
  DEF NoJob, JobOver, JobLocal, JobPlaces, NoRestore, RestoreOver, ResLocal, ResPlaces

\* The other backups go on as they were; they may be marred.
OtherJobs(b) ==
    \A c \in Jobs \ {b} :
        /\ job'[c].at = job[c].at /\ job'[c].min = job[c].min /\ job'[c].file = job[c].file
        /\ job[c].marred => job'[c].marred
OtherRestores(r) == \A q \in Restores \ {r} : res'[q] = res[q]

\* A backup that starts mars those of its minute.
Starts(b) ==
    /\ job[b].at = "idle" /\ job'[b].at = "snapshot" /\ job'[b].min = now
    /\ job'[b].file = NoFile
    /\ \A c \in Jobs \ {b} :
         Begun(job[c]) /\ job[c].min = now => job'[b].marred /\ job'[c].marred
    /\ UNCHANGED <<raw, gz, inbox, lock>>

LEMMA StartLocal ==
    ASSUME TypeOK, NEW b \in Jobs, BackupStart(b)
    PROVE  job' \in [Jobs -> JobLocal] /\ OtherJobs(b) /\ Starts(b)
<1>1. job \in [Jobs -> JobLocal] /\ now \in Minutes /\ NoFile \in Files
  BY LocalType, ConstantTypes DEF TypeOK
<1> DEFINE Same == {c \in Jobs : Begun(job[c]) /\ job[c].min = now}
           New == [NoJob EXCEPT !.at = "snapshot", !.min = now, !.marred = Same # {}]
<1>2. /\ New \in JobLocal /\ New.at = "snapshot" /\ New.min = now /\ New.file = NoFile
      /\ New.marred = (Same # {})
  BY <1>1 DEF NoJob, JobLocal, JobPlaces
<1>3. \A c \in Jobs : LET M == [job[c] EXCEPT !.marred = TRUE] IN
         /\ M \in JobLocal /\ M.at = job[c].at /\ M.min = job[c].min /\ M.file = job[c].file
         /\ M.marred
  BY <1>1 DEF JobLocal
<1> HIDE DEF New
<1>4. job' = [c \in Jobs |-> CASE c = b -> New
                               [] c \in Same -> [job[c] EXCEPT !.marred = TRUE]
                               [] OTHER -> job[c]]
  BY DEF BackupStart, New
<1>5. b \notin Same /\ job'[b] = New
  <2>1. b \notin Same
    BY DEF BackupStart, Begun
  <2> QED
    BY <1>4, <2>1
<1>6. \A c \in Jobs \ {b} : job'[c] = IF c \in Same THEN [job[c] EXCEPT !.marred = TRUE] ELSE job[c]
  BY <1>4
<1>7. job' \in [Jobs -> JobLocal]
  BY <1>1, <1>2, <1>3, <1>4
<1>8. OtherJobs(b)
  BY <1>3, <1>6 DEF OtherJobs
<1>9. Starts(b)
  BY <1>2, <1>3, <1>5, <1>6 DEF BackupStart, Starts
<1> QED
  BY <1>7, <1>8, <1>9

\* A backup that starts, or goes on at another place, or ends.
LEMMA JobStep ==
    ASSUME TypeOK, NEW b \in Jobs, BackupStep(b)
    PROVE  job' \in [Jobs -> JobLocal] /\ OtherJobs(b)
<1>0. /\ job \in [Jobs -> JobLocal] /\ JobOver \in JobLocal /\ NoFile \in Files
      /\ raw[Stamp(job[b].min)] \in Files
  BY LocalType, ConstantTypes DEF TypeOK, JobLocal, Stamp
<1> USE <1>0 DEF OtherJobs
<1>1. CASE BackupStart(b)
  BY <1>1, StartLocal
<1>2. CASE SnapshotStart(b)
  BY <1>2 DEF SnapshotStart, JobLocal, JobPlaces
<1>3. CASE BackupEnds(b) \/ job' = [job EXCEPT ![b] = JobOver]
  BY <1>3 DEF BackupEnds
<1>4. CASE SnapshotEnd(b)
  <2>1. CASE job' = [job EXCEPT ![b].at = "gzip", ![b].marred = @ \/ disk.is # "whole"]
    BY <2>1 DEF JobLocal, JobPlaces
  <2> QED
    BY <1>3, <1>4, <2>1 DEF SnapshotEnd
<1>5. CASE GzipStart(b)
  <2>1. CASE job' = [job EXCEPT ![b].at = "zipping", ![b].file = raw[Stamp(job[b].min)]]
    BY <2>1 DEF JobLocal, JobPlaces
  <2> QED
    BY <1>3, <1>5, <2>1 DEF GzipStart
<1>6. CASE GzipEnd(b)
  <2>1. CASE job' = [job EXCEPT ![b] = [@ EXCEPT !.at = "send", !.file = NoFile, !.todo = Admins]]
    BY <2>1 DEF JobLocal, JobPlaces
  <2> QED
    BY <1>3, <1>6, <2>1 DEF GzipEnd
<1>7. CASE Prune(b)
  BY <1>3, <1>7 DEF Prune
<1>8. ASSUME NEW a \in Admins, Send(b, a) \/ SendFails(b, a)
      PROVE  job' \in [Jobs -> JobLocal] /\ OtherJobs(b)
  BY <1>8 DEF Send, SendFails, JobLocal, JobPlaces
<1> QED
  BY <1>1, <1>2, <1>4, <1>5, <1>6, <1>7, <1>8 DEF BackupStep

(***************************************************************************)
(* Types, in parts.                                                        *)
(***************************************************************************)

DirTyped ==
    /\ raw \in [Minutes -> Files] /\ gz \in [Minutes -> Files] /\ inbox \subseteq SUBSET Txs
ZipTyped == \A b \in Jobs : job[b].at = "zipping" => job[b].file \in Documents
FilesTyped == DirTyped /\ ZipTyped
LiveTyped ==
    /\ disk \in Documents /\ handle \in {"open", "closed", "down"}
    /\ open \subseteq Txs /\ stray \subseteq Txs /\ ghost \subseteq Txs
    /\ acked \subseteq Txs /\ torn \in BOOLEAN
LockTyped ==
    /\ lock \in Restores \cup Jobs \cup {Free} /\ tmp \subseteq Restores
    /\ \A r \in Restores : res[r].at \in {"copy", "copying", "reopen"} <=> lock = r
    /\ \A b \in Jobs : job[b].at = "vacuum" <=> lock = b

LEMMA TypeSplit ==
    TypeOK <=> /\ LiveTyped /\ LockTyped /\ FilesTyped /\ now \in Minutes
               /\ job \in [Jobs -> JobLocal] /\ res \in [Restores -> ResLocal]
BY DEF TypeOK, LiveTyped, LockTyped, FilesTyped, DirTyped, ZipTyped, JobLocal, JobPlaces, ResLocal, ResPlaces

LEMMA TypeSplitNext ==
    ASSUME LiveTyped', LockTyped', FilesTyped', now' \in Minutes,
           job' \in [Jobs -> JobLocal], res' \in [Restores -> ResLocal]
    PROVE  TypeOK'
BY DEF TypeOK, LiveTyped, LockTyped, FilesTyped, DirTyped, ZipTyped, JobLocal, JobPlaces, ResLocal, ResPlaces

\* The lock is nobody's, a backup's or a restore's, and no two of these are the same.
LEMMA Holders ==
    /\ \A r \in Restores : r # Free /\ r \notin Jobs
    /\ \A b \in Jobs : b # Free /\ b \notin Restores
    /\ Free \notin Restores /\ Free \notin Jobs
BY DatabaseAssumption

(***************************************************************************)
(* Files of the backup directory.                                          *)
(***************************************************************************)

LEMMA BackupLeaves ==
    ASSUME NEW b \in Jobs, BackupStep(b)
    PROVE  UNCHANGED <<disk, handle, statementVars, restoreVars, acked, torn, now>>
BY DEF BackupStep, BackupStart, SnapshotStart, SnapshotEnd, GzipStart, GzipEnd, Send, SendFails, Prune

LEMMA FillType ==
    ASSUME NEW f \in Files, NEW g \in Files PROVE Fill(f, g) \in {NoFile, g} /\ Fill(f, g) \in Files
BY ConstantTypes DEF Fill

LEMMA DirStep ==
    ASSUME TypeOK, NEW b \in Jobs, BackupStep(b)
    PROVE  DirTyped'
<1> USE DEF DirTyped
<1>0. /\ DirTyped /\ job \in [Jobs -> JobLocal] /\ disk \in Files
      /\ Stamp(job[b].min) \in Minutes /\ Part \in Files /\ NoFile \in Files
      /\ job[b].file \in Files
  BY TypeSplit, ConstantTypes DEF FilesTyped, LiveTyped, JobLocal, Stamp
<1>1. CASE BackupStart(b)
  BY <1>0, <1>1 DEF BackupStart
<1>2. CASE SnapshotStart(b)
  BY <1>0, <1>2 DEF SnapshotStart
<1>3. CASE SnapshotEnd(b)
  <2>1. Fill(raw[Stamp(job[b].min)], disk) \in Files
    BY <1>0, FillType
  <2> QED
    BY <1>0, <1>3, <2>1 DEF SnapshotEnd
<1>4. CASE GzipStart(b)
  BY <1>0, <1>4 DEF GzipStart, BackupEnds
<1>5. CASE GzipEnd(b)
  <2>1. CASE BackupEnds(b) /\ UNCHANGED <<gz, inbox>>
    BY <1>0, <2>1 DEF BackupEnds
  <2>2. ASSUME NEW file \in Files, UNCHANGED <<raw, inbox>>,
               gz' = [gz EXCEPT ![Stamp(job[b].min)] = Fill(@, file)]
        PROVE  DirTyped'
    <3>1. Fill(gz[Stamp(job[b].min)], file) \in Files
      BY <1>0, FillType
    <3> QED
      BY <1>0, <2>2, <3>1
  <2> QED
    BY <1>0, <1>5, <2>1, <2>2 DEF GzipEnd
<1>6. CASE Prune(b)
  BY <1>0, <1>6 DEF Prune, BackupEnds
<1>7. ASSUME NEW a \in Admins, Send(b, a) \/ SendFails(b, a) PROVE DirTyped'
  <2>1. gz[Stamp(job[b].min)].is = "whole" => gz[Stamp(job[b].min)].rows \in SUBSET Txs
    BY <1>0, FileKinds DEF Files
  <2> QED
    BY <1>0, <1>7, <2>1 DEF Send, SendFails
<1> QED
  BY <1>1, <1>2, <1>3, <1>4, <1>5, <1>6, <1>7 DEF BackupStep

LEMMA ZipStep ==
    ASSUME TypeOK, NEW b \in Jobs, BackupStep(b)
    PROVE  ZipTyped'
<1>0. /\ DirTyped /\ ZipTyped /\ job \in [Jobs -> JobLocal] /\ Stamp(job[b].min) \in Minutes
      /\ JobOver.at = "over" /\ OtherJobs(b)
  BY TypeSplit, ConstantTypes, JobStep DEF FilesTyped, JobLocal, Stamp
<1> SUFFICES job'[b].at = "zipping" => job'[b].file \in Documents
  BY <1>0 DEF ZipTyped, OtherJobs
<1>1. CASE BackupStart(b)
  BY <1>1, StartLocal DEF Starts
<1>2. CASE SnapshotStart(b) \/ SnapshotEnd(b)
  BY <1>0, <1>2 DEF SnapshotStart, SnapshotEnd, JobLocal
<1>3. CASE GzipStart(b)
  <2>1. raw[Stamp(job[b].min)] # NoFile => raw[Stamp(job[b].min)] \in Documents
    BY <1>0 DEF DirTyped, Files
  <2> QED
    BY <1>0, <1>3, <2>1 DEF GzipStart, BackupEnds, JobLocal
<1>4. CASE GzipEnd(b) \/ Prune(b)
  <2>1. CASE GzipEnd(b)
    BY <1>0, <2>1, ZenonT(40) DEF GzipEnd, BackupEnds, JobLocal
  <2>2. CASE Prune(b)
    BY <1>0, <2>2 DEF Prune, BackupEnds, JobLocal
  <2> QED
    BY <1>4, <2>1, <2>2
<1>5. ASSUME NEW a \in Admins, Send(b, a) \/ SendFails(b, a) PROVE job'[b].at = "send"
  BY <1>0, <1>5 DEF Send, SendFails, JobLocal
<1> QED
  BY <1>1, <1>2, <1>3, <1>4, <1>5 DEF BackupStep

\* The places of a backup, and what becomes of the lock.
LEMMA BackupLock ==
    ASSUME TypeOK, NEW b \in Jobs, BackupStep(b)
    PROVE  \/ job[b].at # "vacuum" /\ job'[b].at # "vacuum" /\ UNCHANGED lock
           \/ job[b].at = "snapshot" /\ lock = Free /\ job'[b].at = "vacuum" /\ lock' = b
           \/ job[b].at = "vacuum" /\ job'[b].at # "vacuum" /\ lock' = Free
<1>0. job \in [Jobs -> JobLocal] /\ JobOver.at = "over"
  BY LocalType, ConstantTypes
<1>1. CASE BackupStart(b)
  BY <1>1, StartLocal DEF Starts
<1>2. CASE SnapshotStart(b)
  BY <1>0, <1>2 DEF SnapshotStart, JobLocal
<1>3. CASE SnapshotEnd(b)
  BY <1>0, <1>3 DEF SnapshotEnd, JobLocal
<1>4. CASE GzipStart(b) \/ GzipEnd(b) \/ Prune(b)
  <2>1. CASE GzipStart(b)
    BY <1>0, <2>1 DEF GzipStart, BackupEnds, JobLocal
  <2>2. CASE GzipEnd(b)
    BY <1>0, <2>2, ZenonT(40) DEF GzipEnd, BackupEnds, JobLocal
  <2>3. CASE Prune(b)
    BY <1>0, <2>3 DEF Prune, BackupEnds, JobLocal
  <2> QED
    BY <1>4, <2>1, <2>2, <2>3
<1>5. ASSUME NEW a \in Admins, Send(b, a) \/ SendFails(b, a)
      PROVE  job[b].at = "send" /\ job'[b].at = "send" /\ UNCHANGED lock
  BY <1>0, <1>5 DEF Send, SendFails, JobLocal
<1> QED
  BY <1>1, <1>2, <1>3, <1>4, <1>5 DEF BackupStep

LEMMA BackupType == ASSUME TypeOK, NEW b \in Jobs, BackupStep(b) PROVE TypeOK'
<1>1. LiveTyped /\ LockTyped /\ now \in Minutes /\ res \in [Restores -> ResLocal]
  BY TypeSplit
<1>2. LiveTyped' /\ now' \in Minutes /\ res' \in [Restores -> ResLocal]
  BY <1>1, BackupLeaves DEF LiveTyped
<1>3. LockTyped'
  <2>1. UNCHANGED <<res, tmp>> /\ OtherJobs(b)
    BY BackupLeaves, JobStep
  <2>2. lock' \in Restores \cup Jobs \cup {Free}
    BY <1>1, BackupLock DEF LockTyped
  <2>3. \A r \in Restores : res'[r].at \in {"copy", "copying", "reopen"} <=> lock' = r
    BY <1>1, <2>1, BackupLock, Holders DEF LockTyped
  <2>4. \A c \in Jobs : job'[c].at = "vacuum" <=> lock' = c
    <3> SUFFICES ASSUME NEW c \in Jobs PROVE job'[c].at = "vacuum" <=> lock' = c
      OBVIOUS
    <3>1. CASE c = b
      BY <1>1, <3>1, BackupLock, Holders DEF LockTyped
    <3>2. CASE c # b
      BY <1>1, <2>1, <3>2, BackupLock, Holders DEF LockTyped, OtherJobs
    <3> QED
      BY <3>1, <3>2
  <2> QED
    BY <1>1, <2>1, <2>2, <2>3, <2>4 DEF LockTyped
<1> QED
  BY <1>2, <1>3, DirStep, ZipStep, JobStep, TypeSplitNext DEF FilesTyped

(***************************************************************************)
(* Restores.                                                               *)
(***************************************************************************)

LEMMA RestoreLeaves ==
    ASSUME NEW r \in Restores, RestoreStep(r)
    PROVE  UNCHANGED <<backupVars, now>>
BY DEF RestoreStep, Download, ValidateSQLite, CloseLive, OpenSource, CopyEnd, Reopen, Cleanup

LEMMA GoToEffect ==
    ASSUME TypeOK, NEW r \in Restores, NEW place \in ResPlaces, GoTo(r, place)
    PROVE  /\ res' \in [Restores -> ResLocal] /\ OtherRestores(r)
           /\ res'[r].at = place /\ res'[r].file = res[r].file
BY LocalType DEF GoTo, ResLocal, OtherRestores

LEMMA DropsFile ==
    ASSUME TypeOK, NEW r \in Restores, NEW place \in ResPlaces,
           res' = [res EXCEPT ![r] = [NoRestore EXCEPT !.at = place]]
    PROVE  res' \in [Restores -> ResLocal] /\ OtherRestores(r) /\ res'[r].at = place
BY LocalType, ConstantTypes DEF OtherRestores, NoRestore, ResLocal

\* The places from which a restore holds the lock.
Swapping == {"copy", "copying", "reopen"}

\* What a step of a restore does to its locals and the live file, by where it stands.
Prepares(r) ==
    /\ res[r].at \notin Swapping /\ res'[r].at \notin Swapping
    /\ res'[r].at \in {"check", "lock"} => res'[r].file \in Documents
    /\ res'[r].at = "lock" => res'[r].file.is # "part"
    /\ UNCHANGED <<disk, handle, lock, statementVars, acked, torn>>
Closes(r) ==
    /\ res[r].at = "lock" /\ lock = Free /\ lock' = r /\ handle' = "closed"
    /\ stray' = stray \cup open /\ open' = {}
    /\ res'[r].at = "copy" /\ res'[r].file = res[r].file
    /\ UNCHANGED <<disk, ghost, acked, torn>>
Truncates(r) ==
    /\ res[r].at = "copy" /\ disk' = Part /\ acked' = {}
    /\ ghost' = ghost \cup stray /\ stray' = {}
    /\ res'[r].at = "copying" /\ res'[r].file = res[r].file
    /\ UNCHANGED <<handle, lock, open, torn>>
Fills(r) ==
    /\ res[r].at = "copying" /\ res'[r].at = "reopen"
    /\ disk' \in {res[r].file} \cup ({disk} \ {Part}) /\ torn' = (disk'.is # "whole")
    /\ UNCHANGED <<handle, lock, statementVars, acked>>
Leaves(r) ==
    /\ res[r].at \in Swapping /\ lock' = Free /\ res'[r].at = "cleanup"
    /\ \/ res[r].at = "copy" /\ UNCHANGED <<handle, torn>>
       \/ res[r].at = "copying" /\ torn' = TRUE /\ UNCHANGED handle
       \/ res[r].at = "reopen" /\ handle' \in {"open", handle} /\ UNCHANGED torn
    /\ UNCHANGED <<disk, statementVars, acked>>

RestoreEffect(r) ==
    /\ res' \in [Restores -> ResLocal] /\ OtherRestores(r) /\ tmp' \subseteq Restores
    /\ Prepares(r) \/ Closes(r) \/ Truncates(r) \/ Fills(r) \/ Leaves(r)

LEMMA RestoreStepEffect ==
    ASSUME TypeOK, RestoreKnows, NEW r \in Restores, RestoreStep(r)
    PROVE  RestoreEffect(r)
<1> USE DEF RestoreEffect, Swapping
<1>0. tmp \subseteq Restores
  BY DEF TypeOK
<1>1. ASSUME NEW f \in Documents, Download(r, f) PROVE RestoreEffect(r)
  <2>1. /\ res' \in [Restores -> ResLocal] /\ OtherRestores(r)
        /\ res'[r].at = "check" /\ res'[r].file = f
    BY <1>1, LocalType, ConstantTypes DEF Download, ResLocal, ResPlaces, OtherRestores
  <2> QED
    BY <1>0, <1>1, <2>1 DEF Download, Prepares
<1>2. CASE ValidateSQLite(r)
  <2>1. CASE GoTo(r, "lock") /\ res[r].file.is # "part"
    BY <1>0, <1>2, <2>1, GoToEffect DEF ValidateSQLite, Prepares, ResPlaces, RestoreKnows
  <2>2. CASE ToCleanup(r)
    BY <1>0, <1>2, <2>2, DropsFile DEF ValidateSQLite, ToCleanup, Prepares, ResPlaces
  <2> QED
    BY <1>2, <2>1, <2>2 DEF ValidateSQLite
<1>3. CASE CloseLive(r)
  BY <1>0, <1>3, GoToEffect DEF CloseLive, Closes, ResPlaces, Closed
<1>4. CASE OpenSource(r)
  <2>1. CASE GoTo(r, "copying") /\ disk' = Part /\ acked' = {} /\ ghost' = ghost \cup stray
             /\ stray' = {} /\ UNCHANGED lock
    BY <1>0, <1>4, <2>1, GoToEffect DEF OpenSource, Truncates, ResPlaces
  <2>2. CASE ToCleanup(r) /\ disk' = disk /\ lock' = Free /\ UNCHANGED <<acked, stray, ghost>>
    BY <1>0, <1>4, <2>2, DropsFile DEF OpenSource, ToCleanup, Leaves, ResPlaces
  <2> QED
    BY <1>4, <2>1, <2>2 DEF OpenSource, Untouched
<1>5. CASE CopyEnd(r)
  <2>1. CASE /\ disk' \in {res[r].file} \cup ({disk} \ {Part}) /\ torn' = (disk'.is # "whole")
             /\ res' = [res EXCEPT ![r] = [NoRestore EXCEPT !.at = "reopen"]] /\ UNCHANGED lock
    BY <1>0, <1>5, <2>1, DropsFile DEF CopyEnd, Fills, ResPlaces
  <2>2. CASE ToCleanup(r) /\ torn' = TRUE /\ lock' = Free /\ UNCHANGED disk
    BY <1>0, <1>5, <2>2, DropsFile DEF CopyEnd, ToCleanup, Leaves, ResPlaces
  <2> QED
    BY <1>5, <2>1, <2>2 DEF CopyEnd
<1>6. CASE Reopen(r)
  BY <1>0, <1>6, DropsFile DEF Reopen, ToCleanup, Leaves, ResPlaces
<1>7. CASE Cleanup(r)
  <2>1. res' = [res EXCEPT ![r] = [NoRestore EXCEPT !.at = "over"]]
    BY <1>7 DEF Cleanup, RestoreOver
  <2> QED
    BY <1>0, <1>7, <2>1, DropsFile DEF Cleanup, Prepares, ResPlaces
<1> QED
  BY <1>1, <1>2, <1>3, <1>4, <1>5, <1>6, <1>7 DEF RestoreStep

LEMMA RestoreType ==
    ASSUME TypeOK, RestoreKnows, NEW r \in Restores, RestoreStep(r)
    PROVE  TypeOK'
<1>1. /\ LiveTyped /\ LockTyped /\ FilesTyped /\ now \in Minutes
      /\ job \in [Jobs -> JobLocal] /\ res \in [Restores -> ResLocal]
  BY TypeSplit
<1>2. FilesTyped' /\ now' \in Minutes /\ job' \in [Jobs -> JobLocal] /\ UNCHANGED job
  BY <1>1, RestoreLeaves DEF FilesTyped, DirTyped, ZipTyped
<1>3. RestoreEffect(r)
  BY RestoreStepEffect
<1>4. LiveTyped'
  <2>1. res[r].at = "copying" => res[r].file \in Documents
    BY ConstantTypes DEF RestoreKnows
  <2>2. Part \in Documents
    BY ConstantTypes
  <2> QED
    BY <1>1, <1>3, <2>1, <2>2
    DEF LiveTyped, RestoreEffect, Prepares, Closes, Truncates, Fills, Leaves
<1>5. LockTyped'
  <2>1. lock' \in Restores \cup Jobs \cup {Free} /\ tmp' \subseteq Restores
    BY <1>1, <1>3 DEF LockTyped, RestoreEffect, Prepares, Closes, Truncates, Fills, Leaves
  <2>2. ASSUME NEW q \in Restores PROVE res'[q].at \in Swapping <=> lock' = q
    <3>1. CASE q = r
      BY <1>1, <1>3, <3>1, Holders
      DEF LockTyped, RestoreEffect, Prepares, Closes, Truncates, Fills, Leaves, Swapping
    <3>2. CASE q # r
      <4>1. res'[q] = res[q]
        BY <1>3, <3>2 DEF RestoreEffect, OtherRestores
      <4> QED
        BY <1>1, <1>3, <3>2, <4>1, DatabaseAssumption
        DEF LockTyped, RestoreEffect, Prepares, Closes, Truncates, Fills, Leaves, Swapping
    <3> QED
      BY <3>1, <3>2
  <2>3. ASSUME NEW b \in Jobs PROVE job'[b].at = "vacuum" <=> lock' = b
    BY <1>1, <1>2, <1>3, Holders
    DEF LockTyped, RestoreEffect, Prepares, Closes, Truncates, Fills, Leaves, Swapping
  <2> QED
    BY <2>1, <2>2, <2>3 DEF LockTyped, Swapping
<1> QED
  BY <1>2, <1>3, <1>4, <1>5, TypeSplitNext DEF RestoreEffect

(***************************************************************************)
(* The live file.                                                          *)
(***************************************************************************)

LiveKnows == HandleKept /\ RestoreKnows /\ AckedKept /\ LiveFileWhole

\* What RestoreKnows says of one restore.
Knows(r) ==
    /\ res[r].at \in {"check", "lock", "copy", "copying"} => res[r].file \in Documents
    /\ res[r].at \in {"lock", "copy", "copying"} => res[r].file.is # "part"
    /\ res[r].at = "copy" /\ ~torn => disk.is = "whole"
    /\ res[r].at = "copying" => disk \in {Part, Damaged} /\ stray = {} /\ acked = {}
    /\ res[r].at = "reopen" =>
          /\ disk.is # "part" /\ stray = {} /\ acked = {}
          /\ ~torn => disk.is = "whole"

LEMMA KnowsOfEach == RestoreKnows <=> \A r \in Restores : Knows(r)
BY DEF RestoreKnows, Knows

LEMMA LiveRestore ==
    ASSUME TypeOK, LiveKnows, NEW r \in Restores, RestoreStep(r)
    PROVE  LiveKnows'
<1>1. /\ LiveTyped /\ LockTyped /\ res \in [Restores -> ResLocal]
      /\ HandleKept /\ RestoreKnows /\ AckedKept /\ LiveFileWhole
  BY TypeSplit DEF LiveKnows
<1>2. RestoreEffect(r) /\ Knows(r)
  BY <1>1, RestoreStepEffect, KnowsOfEach
<1>3. res[r].at \in Swapping => lock = r /\ handle = "closed" /\ open = {}
  BY <1>1, Holders DEF LockTyped, HandleKept, Swapping
<1>4. res[r].at \notin Swapping => lock # r
  BY <1>1 DEF LockTyped, Swapping
<1>5. CASE Prepares(r)
  <2>1. HandleKept' /\ AckedKept' /\ LiveFileWhole'
    BY <1>1, <1>5 DEF Prepares, HandleKept, AckedKept, LiveFileWhole
  <2>2. ASSUME NEW q \in Restores PROVE Knows(q)'
    BY <1>1, <1>2, <1>5, KnowsOfEach DEF Prepares, Knows, RestoreEffect, OtherRestores, Swapping
  <2> QED
    BY <2>1, <2>2, KnowsOfEach DEF LiveKnows, RestoreKnows, Knows
<1>6. CASE Closes(r)
  <2>1. HandleKept' /\ AckedKept'
    BY <1>1, <1>6 DEF Closes, HandleKept, AckedKept
  <2>2. LiveFileWhole' /\ (~torn => disk.is = "whole")
    BY <1>1, <1>6, Holders DEF Closes, LiveFileWhole
  <2>3. ASSUME NEW q \in Restores PROVE Knows(q)'
    <3>1. CASE q = r
      BY <1>2, <1>6, <2>2, <3>1 DEF Closes, Knows
    <3>2. CASE q # r
      <4>1. res'[q] = res[q] /\ res[q].at \notin Swapping
        BY <1>1, <1>2, <1>6, <3>2, Holders
        DEF Closes, RestoreEffect, OtherRestores, LockTyped, Swapping
      <4> QED
        BY <1>1, <1>6, <4>1, KnowsOfEach DEF Closes, Knows, Swapping
    <3> QED
      BY <3>1, <3>2
  <2> QED
    BY <2>1, <2>2, <2>3, KnowsOfEach DEF LiveKnows, RestoreKnows, Knows
<1>7. CASE Truncates(r) \/ Fills(r) \/ Leaves(r)
  <2>0. res[r].at \in Swapping
    BY <1>7 DEF Truncates, Fills, Leaves, Swapping
  <2>1. HandleKept'
    <3>0. /\ handle = "closed" /\ open = {} /\ stray \cap ghost = {}
          /\ torn => disk.is # "whole"
          /\ disk.is = "part" => acked = {}
      BY <1>1, <1>3, <2>0 DEF HandleKept
    <3>1. CASE Truncates(r)
      BY <3>0, <3>1, FileKinds DEF Truncates, HandleKept
    <3>2. CASE Fills(r)
      BY <1>2, <3>0, <3>2 DEF Fills, HandleKept, Knows
    <3>3. CASE Leaves(r) /\ res[r].at # "reopen"
      <4>1. res[r].at = "copying" => disk.is # "whole"
        BY <1>2, FileKinds DEF Knows
      <4> QED
        BY <1>1, <3>0, <3>3, <4>1, Holders DEF Leaves, HandleKept
    <3>4. CASE Leaves(r) /\ res[r].at = "reopen"
      <4>1. disk.is \in {"whole", "damaged"} /\ stray = {}
        BY <1>1, <1>2, <3>4, FileKinds DEF Knows, LiveTyped
      <4> QED
        BY <3>0, <3>4, <4>1, Holders DEF Leaves, HandleKept
    <3> QED
      BY <1>7, <3>1, <3>2, <3>3, <3>4
  <2>2. AckedKept'
    BY <1>1, <1>2, <1>7 DEF Truncates, Fills, Leaves, AckedKept, Knows
  <2>3. LiveFileWhole'
    BY <1>1, <1>2, <1>3, <1>7, <2>0, Holders
    DEF Truncates, Fills, Leaves, LiveFileWhole, Knows, Swapping
  <2>4. ASSUME NEW q \in Restores PROVE Knows(q)'
    <3>1. CASE q = r
      BY <1>2, <1>7, <3>1, FileKinds DEF Truncates, Fills, Leaves, Knows
    <3>2. CASE q # r
      <4>1. res'[q] = res[q] /\ res[q].at \notin Swapping
        BY <1>1, <1>2, <1>3, <2>0, <3>2 DEF RestoreEffect, OtherRestores, LockTyped, Swapping
      <4> QED
        BY <1>1, <4>1, KnowsOfEach DEF Knows, Swapping
    <3> QED
      BY <3>1, <3>2
  <2> QED
    BY <2>1, <2>2, <2>3, <2>4, KnowsOfEach DEF LiveKnows, RestoreKnows, Knows
<1> QED
  BY <1>2, <1>5, <1>6, <1>7 DEF RestoreEffect

\* Statements: on the handle, on a closed one, and on a file that was overwritten.
LEMMA LiveStatement ==
    ASSUME TypeOK, LiveKnows, NEW x \in Txs, StatementStep(x)
    PROVE  TypeOK' /\ LiveKnows'
<1>1. /\ LiveTyped /\ LockTyped /\ FilesTyped /\ now \in Minutes
      /\ job \in [Jobs -> JobLocal] /\ res \in [Restores -> ResLocal]
      /\ HandleKept /\ RestoreKnows /\ AckedKept /\ LiveFileWhole
  BY TypeSplit DEF LiveKnows
<1>2. UNCHANGED <<handle, lock, backupVars, restoreVars, now>>
  BY DEF StatementStep, Begin, Commit, Abort, StrayEnds, GhostEnds
<1>3. LockTyped' /\ FilesTyped'
  BY <1>1, <1>2 DEF LockTyped, FilesTyped, DirTyped, ZipTyped
<1>4. LiveTyped' /\ LiveKnows' => TypeOK' /\ LiveKnows'
  BY <1>1, <1>2, <1>3, TypeSplitNext
<1>5. \A f \in Documents :
         /\ WithRow(f, x) \in Documents /\ WithRow(f, x).is = f.is
         /\ f.is # "whole" => WithRow(f, x) = f
         /\ f.is = "whole" => WithRow(f, x).rows = f.rows \cup {x}
  BY FileKinds, ConstantTypes DEF WithRow
<1>6. CASE Begin(x) \/ Abort(x)
  <2>1. LiveTyped'
    BY <1>1, <1>6 DEF Begin, Abort, LiveTyped
  <2>2. HandleKept'
    BY <1>1, <1>6 DEF Begin, Abort, HandleKept
  <2>3. RestoreKnows' /\ AckedKept' /\ LiveFileWhole'
    BY <1>1, <1>6 DEF Begin, Abort, RestoreKnows, AckedKept, LiveFileWhole
  <2> QED
    BY <1>4, <2>1, <2>2, <2>3 DEF LiveKnows
<1>7. ASSUME disk' = WithRow(disk, x), acked' = acked \cup {x}, UNCHANGED <<ghost, torn>>,
             \/ x \in open /\ open' = open \ {x} /\ UNCHANGED stray
             \/ x \in stray /\ stray' = stray \ {x} /\ UNCHANGED open
      PROVE  LiveTyped' /\ LiveKnows'
  <2>1. LiveTyped'
    BY <1>1, <1>2, <1>5, <1>7 DEF LiveTyped
  <2>2. /\ disk'.is = disk.is
        /\ disk.is # "whole" => disk' = disk
        /\ disk.is = "whole" => disk'.rows = disk.rows \cup {x}
    BY <1>1, <1>5, <1>7 DEF LiveTyped
  <2>3. \A r \in Restores : res[r].at \notin {"copying", "reopen"}
    <3>1. CASE x \in open
      BY <1>1, <3>1 DEF HandleKept, LockTyped
    <3>2. CASE x \in stray
      BY <1>1, <3>2 DEF RestoreKnows
    <3> QED
      BY <1>7, <3>1, <3>2
  <2>4. disk.is = "whole" \/ torn
    <3>1. CASE x \in open
      <4>1. lock \notin Restores
        BY <1>1, <3>1 DEF HandleKept
      <4> QED
        BY <1>1, <4>1 DEF LiveFileWhole
    <3>2. CASE lock \in Restores
      BY <1>1, <2>3, <3>2 DEF LockTyped, RestoreKnows
    <3> QED
      BY <1>1, <3>2 DEF LiveFileWhole
  <2>5. disk.is # "part"
    BY <1>1, <1>7 DEF HandleKept
  <2>6. HandleKept'
    BY <1>1, <1>2, <1>7, <2>2, <2>5 DEF HandleKept
  <2>7. AckedKept'
    BY <1>1, <1>7, <2>2, <2>4 DEF AckedKept
  <2>8. LiveFileWhole'
    BY <1>1, <1>2, <1>7, <2>2 DEF LiveFileWhole
  <2>9. RestoreKnows'
    BY <1>1, <1>2, <1>7, <2>2, <2>3 DEF RestoreKnows
  <2> QED
    BY <2>1, <2>6, <2>7, <2>8, <2>9 DEF LiveKnows
<1>8. CASE StrayEnds(x) /\ UNCHANGED <<disk, acked>>
  <2>1. LiveTyped'
    BY <1>1, <1>8 DEF StrayEnds, LiveTyped
  <2>2. HandleKept'
    BY <1>1, <1>8 DEF StrayEnds, HandleKept
  <2>3. RestoreKnows' /\ AckedKept' /\ LiveFileWhole'
    BY <1>1, <1>8 DEF StrayEnds, RestoreKnows, AckedKept, LiveFileWhole
  <2> QED
    BY <1>4, <2>1, <2>2, <2>3 DEF LiveKnows
<1>9. CASE GhostEnds(x)
  <2>1. LiveTyped'
    BY <1>1, <1>9, ConstantTypes DEF GhostEnds, LiveTyped
  <2>2. HandleKept'
    BY <1>1, <1>9, FileKinds DEF GhostEnds, HandleKept
  <2>3. RestoreKnows' /\ AckedKept' /\ LiveFileWhole'
    BY <1>1, <1>9, FileKinds DEF GhostEnds, RestoreKnows, AckedKept, LiveFileWhole
  <2> QED
    BY <1>4, <2>1, <2>2, <2>3 DEF LiveKnows
<1>10. CASE Commit(x) \/ (StrayEnds(x) /\ ~UNCHANGED <<disk, acked>>)
  BY <1>4, <1>7, <1>10 DEF Commit, StrayEnds
<1> QED
  BY <1>6, <1>8, <1>9, <1>10 DEF StatementStep

LEMMA CrashStep ==
    ASSUME TypeOK, LiveKnows, Crash
    PROVE  TypeOK' /\ LiveKnows' /\ BackupKnows' /\ SentWhole'
<1>1. /\ LiveTyped /\ LockTyped /\ FilesTyped /\ now \in Minutes
      /\ HandleKept /\ AckedKept
  BY TypeSplit DEF LiveKnows
<1>2. /\ job' \in [Jobs -> JobLocal] /\ res' \in [Restores -> ResLocal]
      /\ \A b \in Jobs : job'[b].at \in {"idle", "over"}
      /\ \A r \in Restores : res'[r].at \in {"idle", "over"}
      /\ lock' = Free /\ open' = {} /\ stray' = {} /\ ghost' = {}
      /\ torn' = (disk'.is # "whole")
      /\ UNCHANGED <<raw, gz, inbox, tmp, acked, now>>
  BY ConstantTypes DEF Crash, NoJob, NoRestore
<1>3. disk' \in {disk, Damaged} \/ (disk = Part /\ disk' = Whole({}))
  BY DEF Crash, Found
<1>4. disk' \in Documents /\ (disk'.is = "whole" => acked \subseteq disk'.rows)
  <2>1. CASE disk' = disk
    BY <1>1, <2>1 DEF LiveTyped, AckedKept, HandleKept
  <2>2. CASE disk' = Damaged
    BY <2>2, ConstantTypes, FileKinds
  <2>3. CASE disk = Part /\ disk' = Whole({})
    BY <1>1, <2>3, ConstantTypes, FileKinds DEF HandleKept
  <2> QED
    BY <1>3, <2>1, <2>2, <2>3
<1>5. handle' \in {"open", "down"} /\ (handle' = "open" => disk'.is # "part")
  BY DEF Crash
<1>6. LiveTyped' /\ LockTyped' /\ FilesTyped'
  <2>1. LiveTyped'
    BY <1>1, <1>2, <1>4, <1>5 DEF LiveTyped
  <2>2. LockTyped'
    BY <1>1, <1>2, Holders DEF LockTyped
  <2> QED
    BY <1>1, <1>2, <2>1, <2>2 DEF FilesTyped, DirTyped, ZipTyped
<1>7. HandleKept'
  <2>1. disk'.is \in {"part", "damaged", "whole"}
    BY <1>4, FileKinds
  <2>2. disk'.is = "part" => disk' = disk
    BY <1>3, FileKinds
  <2> QED
    BY <1>1, <1>2, <1>5, <2>1, <2>2, Holders DEF HandleKept
<1>8. RestoreKnows' /\ AckedKept' /\ LiveFileWhole'
  BY <1>2, <1>4 DEF RestoreKnows, AckedKept, LiveFileWhole
<1>9. BackupKnows' /\ SentWhole'
  BY <1>2 DEF BackupKnows, SentWhole, Begun
<1> QED
  BY <1>1, <1>2, <1>6, <1>7, <1>8, <1>9, TypeSplitNext DEF LiveKnows

LEMMA MinuteStep ==
    ASSUME TypeOK, NextMinute
    PROVE  /\ TypeOK'
           /\ UNCHANGED <<disk, handle, lock, statementVars, backupVars, restoreVars, acked, torn>>
<1>1. now' \in Minutes
  BY DatabaseAssumption DEF NextMinute, TypeOK, Minutes
<1> QED
  BY <1>1 DEF NextMinute, TypeOK

(***************************************************************************)
(* Backups.                                                                *)
(***************************************************************************)

\* Nobody else makes a backup of its minute.
Alone(b) == \A c \in Jobs : Begun(job[c]) /\ job[c].min = job[b].min => c = b

\* Its files are what they should be where it stands.
FilesOk(b) ==
    /\ job[b].at = "gzip" => raw[Stamp(job[b].min)].is \in {"none", "whole"}
    /\ job[b].at = "zipping" => job[b].file.is = "whole"
    /\ job[b].at = "send" => gz[Stamp(job[b].min)].is \in {"none", "whole"}

JobOk(b) == Begun(job[b]) /\ ~job[b].marred => Alone(b) /\ FilesOk(b)

LEMMA OkOfEach == BackupKnows /\ SentWhole <=> \A b \in Jobs : JobOk(b)
BY DEF BackupKnows, SentWhole, JobOk, Alone, FilesOk, Begun

\* What a step of a backup that has begun does to its own locals.
GoesOn(b) ==
    /\ Begun(job[b])
    /\ Begun(job'[b]) => job'[b].min = job[b].min /\ (job[b].marred => job'[b].marred)

\* What a step of a backup does to the files of other minutes.
OtherFiles(b) ==
    \A m \in Minutes \ {Stamp(job[b].min)} : raw'[m] = raw[m] /\ gz'[m] \in {gz[m], NoFile}

LEMMA FillKind == \A f, g : Fill(f, g) = NoFile \/ Fill(f, g) = g
BY DEF Fill

LEMMA BackupEffect ==
    ASSUME TypeOK, NEW b \in Jobs, BackupStep(b), ~BackupStart(b)
    PROVE  GoesOn(b) /\ OtherFiles(b) /\ (~job[b].marred /\ FilesOk(b) /\ Begun(job'[b])
                                          /\ ~job'[b].marred => FilesOk(b)')
<1> USE DEF GoesOn, OtherFiles, FilesOk, Begun
<1> DEFINE f == Stamp(job[b].min)
<1>0. /\ FilesTyped /\ job \in [Jobs -> JobLocal] /\ f \in Minutes
      /\ JobOver.at = "over" /\ NoFile.is = "none" /\ Part.is = "part"
  BY TypeSplit, ConstantTypes, FileKinds DEF JobLocal, Stamp
<1>1. CASE SnapshotStart(b)
  BY <1>0, <1>1 DEF SnapshotStart, JobLocal, FilesTyped, DirTyped
<1>2. CASE job[b].at = "vacuum" /\ job' = [job EXCEPT ![b] = JobOver] /\ UNCHANGED <<raw, gz>>
  BY <1>0, <1>2 DEF JobLocal
<1>3. CASE Begun(job[b]) /\ BackupEnds(b) /\ (UNCHANGED gz \/ Prune(b))
  <2>1. job'[b] = JobOver /\ \A m \in Minutes \ {f} : raw'[m] = raw[m]
    BY <1>0, <1>3 DEF BackupEnds, FilesTyped, DirTyped
  <2>2. \A m \in Minutes : gz'[m] \in {gz[m], NoFile}
    BY <1>3 DEF Prune
  <2> QED
    BY <1>0, <1>3, <2>1, <2>2
<1>4. CASE SnapshotEnd(b)
  <2>1. CASE /\ raw' = [raw EXCEPT ![f] = Fill(@, disk)]
             /\ job' = [job EXCEPT ![b].at = "gzip", ![b].marred = @ \/ disk.is # "whole"]
    <3>1. /\ job[b].at = "vacuum" /\ UNCHANGED gz /\ job'[b].at = "gzip"
          /\ job'[b].min = job[b].min /\ job'[b].marred = (job[b].marred \/ disk.is # "whole")
      BY <1>0, <1>4, <2>1 DEF SnapshotEnd, JobLocal
    <3>2. /\ raw'[f] = Fill(raw[f], disk) /\ \A m \in Minutes \ {f} : raw'[m] = raw[m]
      BY <1>0, <2>1 DEF FilesTyped, DirTyped
    <3>3. disk.is = "whole" => raw'[f].is \in {"none", "whole"}
      BY <1>0, <3>2, FillKind
    <3> QED
      BY <1>0, <3>1, <3>2, <3>3
  <2> QED
    BY <1>2, <1>4, <2>1 DEF SnapshotEnd
<1>5. CASE GzipStart(b)
  <2>1. CASE /\ raw[f] # NoFile /\ gz' = [gz EXCEPT ![f] = Part] /\ UNCHANGED raw
             /\ job' = [job EXCEPT ![b].at = "zipping", ![b].file = raw[f]]
    <3>1. /\ job[b].at = "gzip" /\ job'[b].at = "zipping" /\ job'[b].min = job[b].min
          /\ job'[b].marred = job[b].marred /\ job'[b].file = raw[f]
      BY <1>0, <1>5, <2>1 DEF GzipStart, JobLocal
    <3>2. \A m \in Minutes \ {f} : gz'[m] = gz[m]
      BY <1>0, <2>1 DEF FilesTyped, DirTyped
    <3>3. raw[f].is \in {"none", "whole"} => raw[f].is = "whole"
      BY <1>0, <2>1, FileKinds DEF FilesTyped, DirTyped, Files
    <3> QED
      BY <2>1, <3>1, <3>2, <3>3
  <2> QED
    BY <1>3, <1>5, <2>1 DEF GzipStart
<1>6. CASE GzipEnd(b)
  <2>1. ASSUME NEW file \in {job[b].file}
                  \cup (IF job[b].file = Part THEN {raw[f]} \ {NoFile} ELSE {})
                  \cup (IF job[b].marred THEN {Part} ELSE {}),
               gz' = [gz EXCEPT ![f] = Fill(@, file)], UNCHANGED raw,
               job' = [job EXCEPT ![b] = [@ EXCEPT !.at = "send", !.file = NoFile, !.todo = Admins]]
        PROVE  GoesOn(b) /\ OtherFiles(b) /\ (~job[b].marred /\ FilesOk(b) => FilesOk(b)')
    <3>1. /\ job[b].at = "zipping" /\ job'[b].at = "send" /\ job'[b].min = job[b].min
          /\ job'[b].marred = job[b].marred
      BY <1>0, <1>6, <2>1 DEF GzipEnd, JobLocal
    <3>2. gz'[f] = Fill(gz[f], file) /\ \A m \in Minutes \ {f} : gz'[m] = gz[m]
      BY <1>0, <2>1 DEF FilesTyped, DirTyped
    <3>3. ~job[b].marred /\ job[b].file.is = "whole" => gz'[f].is \in {"none", "whole"}
      BY <1>0, <2>1, <3>2, FillKind
    <3> QED
      BY <2>1, <3>1, <3>2, <3>3
  <2> QED
    BY <1>3, <1>6, <2>1 DEF GzipEnd
<1>7. CASE Prune(b)
  BY <1>3, <1>7 DEF Prune
<1>8. ASSUME NEW a \in Admins, Send(b, a) \/ SendFails(b, a)
      PROVE  GoesOn(b) /\ OtherFiles(b) /\ (FilesOk(b) => FilesOk(b)')
  BY <1>0, <1>8 DEF Send, SendFails, JobLocal
<1> QED
  BY <1>1, <1>4, <1>5, <1>6, <1>7, <1>8 DEF BackupStep

LEMMA BackupKnowsStep ==
    ASSUME TypeOK, BackupKnows, SentWhole, NEW b \in Jobs, BackupStep(b)
    PROVE  BackupKnows' /\ SentWhole'
<1>0. /\ \A c \in Jobs : JobOk(c)
      /\ job \in [Jobs -> JobLocal] /\ job' \in [Jobs -> JobLocal] /\ OtherJobs(b)
  BY OkOfEach, JobStep, LocalType
<1> SUFFICES ASSUME NEW c \in Jobs, Begun(job'[c]), ~job'[c].marred
             PROVE  Alone(c)' /\ FilesOk(c)'
  BY DEF BackupKnows, SentWhole, Alone, FilesOk, Begun
<1>1. CASE BackupStart(b)
  <2>1. Starts(b)
    BY <1>1, StartLocal
  <2>2. CASE c = b
    BY <1>0, <2>1, <2>2 DEF Starts, OtherJobs, Alone, FilesOk, Begun
  <2>3. CASE c # b
    <3>1. Begun(job[c]) /\ ~job[c].marred /\ job'[c].min = job[c].min /\ job[c].min # now
      BY <1>0, <2>1, <2>3 DEF Starts, OtherJobs, Begun
    <3>2. Alone(c) /\ FilesOk(c)
      BY <1>0, <3>1 DEF JobOk
    <3>3. Alone(c)'
      BY <1>0, <2>1, <3>1, <3>2 DEF Starts, OtherJobs, Alone, Begun
    <3>4. FilesOk(c)'
      BY <1>0, <2>1, <2>3, <3>2 DEF Starts, OtherJobs, FilesOk
    <3> QED
      BY <3>3, <3>4
  <2> QED
    BY <2>2, <2>3
<1>2. CASE ~BackupStart(b)
  <2>1. /\ GoesOn(b) /\ OtherFiles(b)
        /\ ~job[b].marred /\ FilesOk(b) /\ Begun(job'[b]) /\ ~job'[b].marred => FilesOk(b)'
    BY <1>2, BackupEffect
  <2>2. Begun(job[c]) /\ ~job[c].marred /\ job'[c].min = job[c].min
    BY <1>0, <2>1 DEF GoesOn, OtherJobs, Begun
  <2>3. Alone(c) /\ FilesOk(c)
    BY <1>0, <2>2 DEF JobOk
  <2>4. Alone(c)'
    <3> SUFFICES ASSUME NEW d \in Jobs, Begun(job'[d]), job'[d].min = job'[c].min PROVE d = c
      BY DEF Alone
    <3>1. Begun(job[d]) /\ job[d].min = job'[d].min
      BY <1>0, <2>1 DEF GoesOn, OtherJobs, Begun
    <3> QED
      BY <2>2, <2>3, <3>1 DEF Alone
  <2>5. FilesOk(c)'
    <3>1. CASE c = b
      BY <2>1, <2>2, <2>3, <3>1
    <3>2. CASE c # b
      <4>1. job[b].min # job[c].min /\ job[c].min \in Minutes
        BY <1>0, <2>1, <2>3, <3>2 DEF Alone, GoesOn, JobLocal
      <4>2. /\ raw'[Stamp(job[c].min)] = raw[Stamp(job[c].min)]
            /\ gz'[Stamp(job[c].min)] \in {gz[Stamp(job[c].min)], NoFile}
        BY <2>1, <4>1 DEF OtherFiles, Stamp
      <4> QED
        BY <1>0, <2>2, <2>3, <3>2, <4>2, FileKinds DEF OtherJobs, FilesOk
    <3> QED
      BY <3>1, <3>2
  <2> QED
    BY <2>4, <2>5
<1> QED
  BY <1>1, <1>2

(***************************************************************************)
(* Pruning.                                                                *)
(***************************************************************************)

Above(m) == {n \in Stored : n > m}

LEMMA AboveFinite == \A m : IsFiniteSet(Above(m)) /\ Above(m) \subseteq Minutes
<1>1. IsFiniteSet(Minutes)
  BY DatabaseAssumption, FS_Interval DEF Minutes
<1> QED
  BY <1>1, FS_Subset DEF Above, Stored

\* The newest of the files that go has nothing but files that stay above it.
LEMMA NewestGone ==
    ASSUME NEW m \in Superfluous
    PROVE  \E k \in Superfluous : k >= m /\ Above(k) \cap Superfluous = {}
<1> DEFINE Gone == {k \in Superfluous : k >= m}
           Tails == {Above(k) : k \in Gone}
<1>0. Superfluous \subseteq Stored /\ Stored \subseteq Nat
  <2>1. Superfluous \subseteq Stored
    BY DEF Superfluous
  <2>2. Stored \subseteq Minutes
    BY DEF Stored
  <2> QED
    BY <2>1, <2>2, ConstantTypes
<1>1. Superfluous \subseteq Stored /\ Stored \subseteq Nat /\ m \in Gone
  BY <1>0
<1>2. Tails # {} /\ Tails \subseteq FiniteSubsetsOf(Minutes)
  BY <1>1, AboveFinite DEF FiniteSubsetsOf
<1>3. PICK A \in Tails : \A B \in Tails : ~ (<<B, A>> \in StrictSubsetOrdering(Minutes))
  BY <1>2, FS_StrictSubsetOrderingWellFounded, WFMin, Zenon
<1>4. PICK k \in Gone : A = Above(k)
  OBVIOUS
<1>5. ASSUME NEW j \in Above(k) \cap Superfluous PROVE FALSE
  <2>1. j \in Gone /\ j > k
    BY <1>1, <1>5 DEF Above
  <2>2. Above(j) \subseteq Above(k) /\ j \in Above(k) \ Above(j)
    <3>1. j \in Nat /\ k \in Nat
      BY <1>1, <2>1
    <3>2. ASSUME NEW n \in Above(j) PROVE n \in Above(k)
      BY <1>0, <2>1, <3>1 DEF Above
    <3>3. j \in Above(k) /\ j \notin Above(j)
      BY <1>5, <3>1 DEF Above
    <3> QED
      BY <3>2, <3>3
  <2>3. <<Above(j), Above(k)>> \in StrictSubsetOrdering(Minutes)
    BY <2>2, AboveFinite DEF StrictSubsetOrdering
  <2> QED
    BY <1>3, <1>4, <2>1, <2>3
<1> QED
  BY <1>4, <1>5

Spared == \A m \in Stored : gz'[m].is = "none" =>
             Cardinality({n \in Minutes : n > m /\ gz'[n].is # "none"}) >= Keep

LEMMA PruneSpares == ASSUME TypeOK, NEW b \in Jobs, Prune(b) PROVE Spared
<1>1. gz' = [m \in Minutes |-> IF m \in Superfluous THEN NoFile ELSE gz[m]]
  BY DEF Prune
<1> SUFFICES ASSUME NEW m \in Stored, gz'[m].is = "none"
             PROVE  Cardinality({n \in Minutes : n > m /\ gz'[n].is # "none"}) >= Keep
  BY DEF Spared
<1> DEFINE Staying == {n \in Minutes : n > m /\ gz'[n].is # "none"}
<1>2. m \in Superfluous
  BY <1>1 DEF Stored
<1>3. PICK k \in Superfluous : k >= m /\ Above(k) \cap Superfluous = {}
  BY <1>2, NewestGone
<1>4. k \in Minutes /\ m \in Minutes /\ Minutes \subseteq Nat
  BY ConstantTypes DEF Superfluous, Stored
<1>5. Above(k) \subseteq Staying
  <2> SUFFICES ASSUME NEW n \in Above(k) PROVE n \in Staying
    OBVIOUS
  <2>1. n \in Stored /\ n > k /\ n \notin Superfluous
    BY <1>3 DEF Above
  <2>2. n \in Minutes /\ gz[n].is # "none" /\ gz'[n] = gz[n]
    BY <1>1, <2>1 DEF Stored
  <2>3. n > m
    BY <1>3, <1>4, <2>1, <2>2
  <2> QED
    BY <2>2, <2>3
<1>6. Cardinality(Above(k)) >= Keep
  BY DEF Above, Superfluous
<1>7. IsFiniteSet(Staying)
  <2>1. IsFiniteSet(Minutes) /\ Staying \subseteq Minutes
    BY DatabaseAssumption, FS_Interval DEF Minutes
  <2> QED
    BY <2>1, FS_Subset
<1> HIDE DEF Staying
<1>8. /\ Cardinality(Above(k)) <= Cardinality(Staying)
      /\ Cardinality(Above(k)) \in Nat /\ Cardinality(Staying) \in Nat
  BY <1>5, <1>7, AboveFinite, FS_Subset, FS_CardinalityType
<1>9. Cardinality(Staying) >= Keep
  BY <1>6, <1>8, DatabaseAssumption
<1> QED
  BY <1>9 DEF Staying

\* No other step removes a compressed file.
LEMMA OthersSpare ==
    ASSUME TypeOK, [Next]_vars, \A b \in Jobs : ~Prune(b)
    PROVE  Spared
<1>1. CASE gz' = gz
  BY <1>1 DEF Spared, Stored
<1>2. ASSUME NEW b \in Jobs, GzipStart(b) \/ GzipEnd(b) PROVE Spared
  <2>1. /\ gz \in [Minutes -> Files] /\ Part.is # "none" /\ Stamp(job[b].min) \in Minutes
        /\ raw \in [Minutes -> Files]
        /\ job[b].at = "zipping" => job[b].file \in Documents
    BY TypeSplit, FileKinds DEF FilesTyped, DirTyped, ZipTyped, JobLocal, Stamp
  <2>2. CASE GzipStart(b)
    BY <2>1, <2>2 DEF GzipStart, Spared, Stored
  <2>3. ASSUME NEW file \in Documents, gz' = [gz EXCEPT ![Stamp(job[b].min)] = Fill(@, file)]
        PROVE  Spared
    <3>1. file.is # "none" /\ NoFile.is = "none"
      BY FileKinds
    <3>2. \A m \in Stored : gz'[m].is # "none"
      BY <2>1, <2>3, <3>1 DEF Stored, Fill
    <3> QED
      BY <3>2 DEF Spared
  <2>4. CASE GzipEnd(b) /\ ~UNCHANGED gz
    <3>1. raw[Stamp(job[b].min)] # NoFile => raw[Stamp(job[b].min)] \in Documents
      BY <2>1 DEF Files
    <3>2. Part \in Documents
      BY ConstantTypes
    <3> QED
      BY <2>1, <2>3, <2>4, <3>1, <3>2 DEF GzipEnd
  <2> QED
    BY <1>1, <1>2, <2>2, <2>4
<1> QED
  BY <1>1, <1>2
  DEF Next, StatementStep, Begin, Commit, Abort, StrayEnds, GhostEnds, BackupStep, BackupStart,
      SnapshotStart, SnapshotEnd, Send, SendFails, RestoreStep, Download, ValidateSQLite,
      CloseLive, OpenSource, CopyEnd, Reopen, Cleanup, NextMinute, Crash

(***************************************************************************)
(* The theorems.                                                           *)
(***************************************************************************)

\* The properties of the database file are inductive only together.
Sound == LiveKnows /\ BackupKnows /\ SentWhole

LEMMA DatabaseInit == Init => TypeOK /\ Sound
<1> SUFFICES ASSUME Init PROVE TypeOK /\ Sound
  OBVIOUS
<1> USE DEF Init
<1>1. /\ job \in [Jobs -> JobLocal] /\ res \in [Restores -> ResLocal]
      /\ \A b \in Jobs : job[b].at = "idle"
      /\ \A r \in Restores : res[r].at = "idle"
      /\ disk \in Documents /\ disk.is = "whole"
  BY ConstantTypes, FileKinds DEF NoJob, NoRestore
<1>2. LiveTyped /\ LockTyped /\ FilesTyped /\ now \in Minutes
  BY <1>1, ConstantTypes, Holders
  DEF LiveTyped, LockTyped, FilesTyped, DirTyped, ZipTyped
<1>3. HandleKept /\ RestoreKnows /\ AckedKept /\ LiveFileWhole
  BY <1>1, Holders DEF HandleKept, RestoreKnows, AckedKept, LiveFileWhole
<1>4. BackupKnows /\ SentWhole
  BY <1>1 DEF BackupKnows, SentWhole, Begun
<1> QED
  BY <1>1, <1>2, <1>3, <1>4, TypeSplit DEF Sound, LiveKnows

LEMMA DatabaseStep == TypeOK /\ Sound /\ [Next]_vars => TypeOK' /\ Sound'
<1> SUFFICES ASSUME TypeOK, Sound, [Next]_vars PROVE TypeOK' /\ Sound'
  OBVIOUS
<1>0. /\ LiveKnows /\ BackupKnows /\ SentWhole
      /\ HandleKept /\ RestoreKnows /\ AckedKept /\ LiveFileWhole
  BY DEF Sound, LiveKnows
<1> SUFFICES TypeOK' /\ LiveKnows' /\ BackupKnows' /\ SentWhole'
  BY DEF Sound
<1>1. ASSUME NEW x \in Txs, StatementStep(x)
      PROVE  TypeOK' /\ LiveKnows' /\ BackupKnows' /\ SentWhole'
  <2>1. UNCHANGED backupVars
    BY <1>1 DEF StatementStep, Begin, Commit, Abort, StrayEnds, GhostEnds
  <2> QED
    BY <1>0, <1>1, <2>1, LiveStatement DEF BackupKnows, SentWhole
<1>2. ASSUME NEW b \in Jobs, BackupStep(b)
      PROVE  TypeOK' /\ LiveKnows' /\ BackupKnows' /\ SentWhole'
  <2>1. UNCHANGED <<disk, handle, open, stray, ghost, res, acked, torn>>
    BY <1>2, BackupLeaves
  <2>2. lock' \in Restores <=> lock \in Restores
    <3>1. lock' = lock \/ (lock = Free /\ lock' = b) \/ (lock = b /\ lock' = Free)
      BY <1>2, BackupLock, TypeSplit DEF LockTyped
    <3> QED
      BY <3>1, Holders
  <2>3. LiveKnows'
    BY <1>0, <2>1, <2>2 DEF LiveKnows, HandleKept, RestoreKnows, AckedKept, LiveFileWhole
  <2> QED
    BY <1>0, <1>2, <2>3, BackupType, BackupKnowsStep
<1>3. ASSUME NEW r \in Restores, RestoreStep(r)
      PROVE  TypeOK' /\ LiveKnows' /\ BackupKnows' /\ SentWhole'
  <2>1. BackupKnows' /\ SentWhole'
    BY <1>0, <1>3, RestoreLeaves DEF BackupKnows, SentWhole
  <2> QED
    BY <1>0, <1>3, <2>1, RestoreType, LiveRestore
<1>4. CASE NextMinute
  BY <1>0, <1>4, MinuteStep
  DEF LiveKnows, HandleKept, RestoreKnows, AckedKept, LiveFileWhole, BackupKnows, SentWhole
<1>5. CASE Crash
  BY <1>0, <1>5, CrashStep
<1>6. CASE UNCHANGED vars
  BY <1>0, <1>6
  DEF TypeOK, LiveKnows, HandleKept, RestoreKnows, AckedKept, LiveFileWhole, BackupKnows, SentWhole
<1> QED
  BY <1>1, <1>2, <1>3, <1>4, <1>5, <1>6 DEF Next

LEMMA DatabaseAlways == Spec => [](TypeOK /\ Sound)
BY DatabaseInit, DatabaseStep, PTL DEF Spec

\* TypeOK: files, calls and the lock keep their shapes; in particular the lock is held by
\* the one restore between closing the handle and opening it, or by the one backup that
\* takes its snapshot (db/backup.go:13 and :26).
THEOREM DatabaseTypeCorrect == Spec => []TypeOK
BY DatabaseAlways, PTL

\* DatabaseInv: at every place of backups and restores, the live file, the handle and the
\* files of the backup directory are what the properties rest on.
THEOREM DatabaseInvariant == Spec => []DatabaseInv
<1>1. Sound => DatabaseInv
  BY DEF Sound, LiveKnows, DatabaseInv
<1> QED
  BY <1>1, DatabaseAlways, PTL

\* SentWhole: whatever restores, statements and backups of other minutes do, and even if
\* backups of its own minute were made before or after it, a backup sends a whole database;
\* only one that runs beside it in its minute (backup.go:25), or a live file that was
\* damaged when the snapshot was taken, mars it.
THEOREM BackupsWhole == Spec => []SentWhole
<1>1. Sound => SentWhole
  BY DEF Sound
<1> QED
  BY <1>1, DatabaseAlways, PTL

\* LiveFileWhole: a restore that was not cut in the middle of its copy leaves a whole
\* database, the old one or the new one, unless the document was damaged or a statement
\* was open at db.Close (db/backup.go:29).
THEOREM RestoreKeepsWhole == Spec => []LiveFileWhole
<1>1. Sound => LiveFileWhole
  BY DEF Sound, LiveKnows
<1> QED
  BY <1>1, DatabaseAlways, PTL

\* AckedKept: what the handle in service reported as written since the last restore is in
\* the live file, and so is what a closed one reported in time.
THEOREM AckedNeverLost == Spec => []AckedKept
<1>1. Sound => AckedKept
  BY DEF Sound, LiveKnows
<1> QED
  BY <1>1, DatabaseAlways, PTL

\* PruneKeepsNewest: a backup is removed only if Keep newer ones stay (backup.go:70).
THEOREM PruningKeepsNewest == Spec => PruneKeepsNewest
<1>1. TypeOK /\ [Next]_vars => [Spared]_vars
  BY PruneSpares, OthersSpare
<1> QED
  BY <1>1, DatabaseTypeCorrect, PTL DEF Spec, PruneKeepsNewest, Spared

(***************************************************************************)
(* Backup and restore implement the snapshot store.                        *)
(***************************************************************************)

SnapStep == [Snapshots!StoreNext]_(Snapshots!store)

LEMMA WholeRowsOf ==
    ASSUME NEW F, NEW S
    PROVE  S \in WholeRows(F) <=> \E m \in Minutes : F[m].is = "whole" /\ S = F[m].rows
BY DEF WholeRows

Read == {job[b].file.rows : b \in {c \in Jobs : job[c].file.is = "whole"}}

LEMMA KeptParts ==
    /\ Kept = (WholeRows(raw) \cup WholeRows(gz)) \cup Read
    /\ Kept' = (WholeRows(raw') \cup WholeRows(gz')) \cup Read'
BY DEF Kept, Read, WholeRows

\* A file has nothing in it that is not kept, or is the same as before.
OldCopy(new, old) == new = old \/ new.is # "whole" \/ new.rows \in Kept

\* Copies come from the snapshot, from the compressed file and from memory; a step
\* that fills a file with a copy there is, or removes it, makes no new one.
LEMMA KeptShrinks ==
    ASSUME \A m \in Minutes : OldCopy(raw'[m], raw[m]),
           \A m \in Minutes : OldCopy(gz'[m], gz[m]),
           \A c \in Jobs : OldCopy(job'[c].file, job[c].file)
    PROVE  Kept' \subseteq Kept
<1> USE DEF OldCopy
<1> SUFFICES ASSUME NEW S \in Kept' PROVE S \in Kept
  OBVIOUS
<1>1. CASE S \in WholeRows(raw')
  <2>1. PICK m \in Minutes : raw'[m].is = "whole" /\ S = raw'[m].rows
    BY <1>1, WholeRowsOf
  <2>2. CASE raw'[m] = raw[m]
    BY <2>1, <2>2, WholeRowsOf, KeptParts
  <2> QED
    BY <2>1, <2>2
<1>2. CASE S \in WholeRows(gz')
  <2>1. PICK m \in Minutes : gz'[m].is = "whole" /\ S = gz'[m].rows
    BY <1>2, WholeRowsOf
  <2>2. CASE gz'[m] = gz[m]
    BY <2>1, <2>2, WholeRowsOf, KeptParts
  <2> QED
    BY <2>1, <2>2
<1>3. CASE S \in Read'
  <2>1. PICK c \in Jobs : job'[c].file.is = "whole" /\ S = job'[c].file.rows
    BY <1>3 DEF Read
  <2>2. CASE job'[c].file = job[c].file
    BY <2>1, <2>2, KeptParts DEF Read
  <2> QED
    BY <2>1, <2>2
<1> QED
  BY <1>1, <1>2, <1>3, KeptParts

Left == stray \cup ghost

LEMMA Discards ==
    ASSUME UNCHANGED <<Content, Serving, Left, inbox>>, Kept' \subseteq Kept
    PROVE  SnapStep
BY DEF SnapStep, Snapshots!StoreNext, Snapshots!Discard, Left

LEMMA SameCopies ==
    ASSUME UNCHANGED <<raw, gz, job>>
    PROVE  Kept' = Kept
BY DEF Kept, WholeRows

LEMMA BackupSnap ==
    ASSUME TypeOK, NEW b \in Jobs, BackupStep(b)
    PROVE  SnapStep
<1> DEFINE f == Stamp(job[b].min)
<1>0. /\ DirTyped /\ job \in [Jobs -> JobLocal] /\ f \in Minutes
      /\ OtherJobs(b) /\ UNCHANGED <<disk, handle, stray, ghost>>
      /\ \A c \in Jobs \ {b} : OldCopy(job'[c].file, job[c].file)
  BY TypeSplit, JobStep, BackupLeaves DEF FilesTyped, JobLocal, Stamp, OtherJobs, OldCopy
<1>1. /\ UNCHANGED <<Content, Serving, Left>> /\ NoFile.is = "none" /\ Part.is = "part"
      /\ JobOver.file = NoFile
  BY <1>0, FileKinds DEF Content, Serving, Left, JobOver, NoJob
<1>2. /\ \A m \in Minutes : raw[m].is = "whole" => raw[m].rows \in Kept
      /\ \A m \in Minutes : gz[m].is = "whole" => gz[m].rows \in Kept
      /\ job[b].file.is = "whole" => job[b].file.rows \in Kept
  BY KeptParts, WholeRowsOf DEF Read
<1>3. ASSUME UNCHANGED inbox, OldCopy(job'[b].file, job[b].file),
             \A m \in Minutes : OldCopy(raw'[m], raw[m]),
             \A m \in Minutes : OldCopy(gz'[m], gz[m])
      PROVE  SnapStep
  <2>1. Kept' \subseteq Kept
    BY <1>0, <1>3, KeptShrinks
  <2> QED
    BY <1>1, <1>3, <2>1, Discards
<1>4. CASE BackupStart(b)
  BY <1>1, <1>3, <1>4, StartLocal DEF Starts, OldCopy
<1>5. CASE SnapshotStart(b)
  BY <1>0, <1>1, <1>3, <1>5 DEF SnapshotStart, OldCopy, JobLocal, DirTyped
<1>6. ASSUME job' = [job EXCEPT ![b] = JobOver], raw' = raw \/ raw' = [raw EXCEPT ![f] = NoFile],
             gz' = gz \/ Prune(b), UNCHANGED inbox
      PROVE  SnapStep
  <2>1. job'[b].file = NoFile
    BY <1>0, <1>1, <1>6
  <2>2. \A m \in Minutes : OldCopy(raw'[m], raw[m]) /\ OldCopy(gz'[m], gz[m])
    BY <1>0, <1>1, <1>6 DEF OldCopy, DirTyped, Prune
  <2> QED
    BY <1>1, <1>3, <1>6, <2>1, <2>2 DEF OldCopy
<1>7. CASE SnapshotEnd(b) /\ ~(job' = [job EXCEPT ![b] = JobOver] /\ UNCHANGED raw)
  <2>1. /\ handle = "open" /\ raw' = [raw EXCEPT ![f] = Fill(@, disk)]
        /\ job'[b].file = job[b].file /\ UNCHANGED <<gz, inbox>>
    BY <1>0, <1>7 DEF SnapshotEnd, JobLocal
  <2>2. raw'[f] = Fill(raw[f], disk) /\ \A m \in Minutes \ {f} : raw'[m] = raw[m]
    BY <1>0, <2>1 DEF DirTyped
  <2>3. CASE raw'[f] = NoFile \/ disk.is # "whole"
    BY <1>1, <1>3, <2>1, <2>2, <2>3, FillKind DEF OldCopy
  <2>4. CASE raw'[f] # NoFile /\ disk.is = "whole"
    <3>1. raw'[f] = disk /\ Content = {disk.rows} /\ Serving
      BY <2>1, <2>2, <2>4, FillKind DEF Content, Serving
    <3>2. disk.rows \in WholeRows(raw')
      BY <1>0, <2>4, <3>1, WholeRowsOf
    <3>3. ASSUME NEW S \in WholeRows(raw') PROVE S \in WholeRows(raw) \cup {disk.rows}
      <4>1. PICK m \in Minutes : raw'[m].is = "whole" /\ S = raw'[m].rows
        BY <3>3, WholeRowsOf
      <4> QED
        BY <2>2, <3>1, <4>1, WholeRowsOf
    <3>4. Read' \subseteq Read
      BY <1>0, <2>1 DEF Read, OtherJobs
    <3>5. Content \subseteq Kept' /\ Kept' \subseteq Kept \cup Content
      BY <2>1, <3>1, <3>2, <3>3, <3>4, KeptParts
    <3>6. Snapshots!Copy
      BY <1>1, <2>1, <3>1, <3>5 DEF Snapshots!Copy, Left
    <3> QED
      BY <3>6 DEF SnapStep, Snapshots!StoreNext
  <2> QED
    BY <2>3, <2>4
<1>8. CASE SnapshotEnd(b)
  BY <1>6, <1>7, <1>8 DEF SnapshotEnd
<1>9. CASE GzipStart(b)
  <2>1. CASE /\ gz' = [gz EXCEPT ![f] = Part] /\ UNCHANGED <<raw, inbox>>
             /\ job' = [job EXCEPT ![b].at = "zipping", ![b].file = raw[f]]
    <3>1. OldCopy(job'[b].file, job[b].file)
      BY <1>0, <1>2, <2>1 DEF OldCopy, JobLocal
    <3>2. \A m \in Minutes : OldCopy(gz'[m], gz[m])
      BY <1>0, <1>1, <2>1 DEF OldCopy, DirTyped
    <3> QED
      BY <1>3, <2>1, <3>1, <3>2 DEF OldCopy
  <2> QED
    BY <1>6, <1>9, <2>1 DEF GzipStart, BackupEnds
<1>10. CASE GzipEnd(b)
  <2>1. ASSUME NEW file, file.is = "whole" => file.rows \in Kept,
               gz' = [gz EXCEPT ![f] = Fill(@, file)], UNCHANGED <<raw, inbox>>,
               job' = [job EXCEPT ![b] = [@ EXCEPT !.at = "send", !.file = NoFile, !.todo = Admins]]
        PROVE  SnapStep
    <3>1. job'[b].file = NoFile
      BY <1>0, <2>1 DEF JobLocal
    <3>2. gz'[f] = Fill(gz[f], file) /\ \A m \in Minutes \ {f} : gz'[m] = gz[m]
      BY <1>0, <2>1 DEF DirTyped
    <3>3. \A m \in Minutes : OldCopy(gz'[m], gz[m])
      BY <1>1, <2>1, <3>2, FillKind DEF OldCopy
    <3> QED
      BY <1>1, <1>3, <2>1, <3>1, <3>3 DEF OldCopy
  <2>2. \A file \in {job[b].file}
                  \cup (IF job[b].file = Part THEN {raw[f]} \ {NoFile} ELSE {})
                  \cup (IF job[b].marred THEN {Part} ELSE {}) :
          file.is = "whole" => file.rows \in Kept
    BY <1>0, <1>1, <1>2
  <2> QED
    BY <1>6, <1>10, <2>1, <2>2 DEF GzipEnd, BackupEnds
<1>11. CASE Prune(b)
  BY <1>6, <1>11 DEF Prune, BackupEnds
<1>12. ASSUME NEW a \in Admins, Send(b, a) \/ SendFails(b, a) PROVE SnapStep
  <2>1. UNCHANGED <<raw, gz>> /\ job'[b].file = job[b].file
    BY <1>0, <1>12 DEF Send, SendFails, JobLocal
  <2>2. CASE UNCHANGED inbox
    BY <1>3, <2>1, <2>2 DEF OldCopy
  <2>3. CASE inbox' = inbox \cup {gz[f].rows} /\ gz[f].is = "whole"
    <3>1. gz[f].rows \in Kept /\ gz[f].rows \in SUBSET Txs
      BY <1>0, <1>2, <2>3, FileKinds DEF DirTyped, Files
    <3>2. Kept' = Kept
      <4>1. Read' = Read
        BY <1>0, <2>1 DEF Read, OtherJobs
      <4> QED
        BY <2>1, <4>1, KeptParts
    <3>3. Snapshots!HandOut(gz[f].rows)
      BY <1>1, <2>3, <3>1, <3>2 DEF Snapshots!HandOut, Left
    <3> QED
      BY <3>1, <3>3 DEF SnapStep, Snapshots!StoreNext
  <2> QED
    BY <1>12, <2>2, <2>3 DEF Send, SendFails
<1> QED
  BY <1>4, <1>5, <1>8, <1>9, <1>10, <1>11, <1>12 DEF BackupStep

LEMMA RestoreSnap ==
    ASSUME TypeOK, LiveKnows, NEW r \in Restores, RestoreStep(r)
    PROVE  SnapStep
<1>1. /\ RestoreEffect(r) /\ UNCHANGED <<raw, gz, job, inbox>>
      /\ LiveTyped /\ LockTyped /\ HandleKept /\ Knows(r)
  BY RestoreStepEffect, RestoreLeaves, TypeSplit, KnowsOfEach DEF LiveKnows
<1>2. Kept' = Kept
  BY <1>1, SameCopies
<1>3. res[r].at \in Swapping => handle = "closed"
  BY <1>1 DEF LockTyped, HandleKept, Swapping
<1> USE DEF SnapStep, Snapshots!StoreNext
<1>4. CASE Prepares(r)
  BY <1>1, <1>2, <1>4, Discards DEF Prepares, Content, Serving, Left
<1>5. CASE Closes(r)
  <2>1. /\ Content' = Content /\ Serving' = FALSE
        /\ Left \subseteq Left' /\ Left' \subseteq Txs
    BY <1>1, <1>5 DEF Closes, Content, Serving, Left, LiveTyped
  <2>2. Snapshots!Stop
    BY <1>1, <1>2, <2>1 DEF Snapshots!Stop, Left
  <2> QED
    BY <2>2
<1>6. CASE Truncates(r)
  <2>1. Content' = {} /\ ~Serving /\ Serving' = FALSE /\ Left' = Left
    BY <1>3, <1>6, FileKinds DEF Truncates, Content, Serving, Left, Swapping
  <2>2. Snapshots!Clear
    BY <1>1, <1>2, <2>1 DEF Snapshots!Clear, Left, Serving
  <2> QED
    BY <2>2
<1>7. CASE Fills(r)
  <2>1. Content = {} /\ ~Serving /\ Serving' = FALSE /\ Left' = Left /\ handle = "closed"
    BY <1>1, <1>3, <1>7, FileKinds DEF Fills, Content, Serving, Left, Swapping, Knows
  <2>2. CASE disk'.is = "whole"
    <3>1. disk' = res[r].file /\ res[r].file.rows \in SUBSET Txs
      BY <1>1, <1>7, <2>2, FileKinds DEF Fills, Knows
    <3>2. Content' = {res[r].file.rows}
      BY <2>2, <3>1 DEF Content
    <3>3. Snapshots!Install(res[r].file.rows)
      BY <1>1, <1>2, <2>1, <3>2 DEF Snapshots!Install, Left, Serving
    <3> QED
      BY <3>1, <3>3
  <2>3. CASE disk'.is # "whole"
    BY <1>1, <1>2, <2>1, <2>3, Discards DEF Content, Serving
  <2> QED
    BY <2>2, <2>3
<1>8. CASE Leaves(r)
  <2>1. UNCHANGED <<disk, stray, ghost>> /\ Content' = Content /\ Left' = Left
    BY <1>8 DEF Leaves, Content, Left
  <2>2. CASE handle' = handle \/ disk.is # "whole"
    BY <1>1, <1>2, <2>1, <2>2, Discards DEF Serving
  <2>3. CASE handle' = "open" /\ disk.is = "whole"
    <3>1. Content # {} /\ Serving' = TRUE
      BY <2>1, <2>3 DEF Content, Serving
    <3>2. Snapshots!Serve
      BY <1>1, <1>2, <2>1, <3>1 DEF Snapshots!Serve, Left
    <3> QED
      BY <3>2
  <2> QED
    BY <1>8, <2>2, <2>3 DEF Leaves
<1> QED
  BY <1>1, <1>4, <1>5, <1>6, <1>7, <1>8 DEF RestoreEffect

LEMMA StatementSnap ==
    ASSUME TypeOK, LiveKnows, NEW x \in Txs, StatementStep(x)
    PROVE  SnapStep
<1> USE DEF SnapStep, Snapshots!StoreNext
<1>1. LiveTyped /\ HandleKept
  BY TypeSplit DEF LiveKnows
<1>2. UNCHANGED <<raw, gz, job, inbox, handle>> /\ Kept' = Kept
  <2>1. UNCHANGED <<raw, gz, job, inbox, handle>>
    BY DEF StatementStep, Begin, Commit, Abort, StrayEnds, GhostEnds
  <2> QED
    BY <2>1, SameCopies
<1>3. CASE Begin(x) \/ Abort(x)
  BY <1>2, <1>3, Discards DEF Begin, Abort, Content, Serving, Left
<1>4. /\ disk.is # "whole" => WithRow(disk, x) = disk
      /\ disk.is = "whole" => WithRow(disk, x) = Whole(disk.rows \cup {x})
  BY DEF WithRow
<1>5. CASE Commit(x)
  <2>1. CASE disk.is # "whole"
    BY <1>2, <1>4, <1>5, <2>1, Discards DEF Commit, Content, Serving, Left
  <2>2. CASE disk.is = "whole"
    <3>1. /\ Serving /\ Serving' = Serving /\ Left' = Left
          /\ Content = {disk.rows} /\ Content' = {disk.rows \cup {x}}
      BY <1>1, <1>2, <1>4, <1>5, <2>2, FileKinds DEF Commit, HandleKept, Content, Serving, Left
    <3>2. Snapshots!Write(x)
      BY <1>2, <3>1 DEF Snapshots!Write, Left
    <3> QED
      BY <3>2
  <2> QED
    BY <2>1, <2>2
<1>6. CASE StrayEnds(x)
  <2>1. x \in Left /\ Left' = Left \ {x} /\ ~Serving /\ Serving' = Serving
    BY <1>1, <1>2, <1>6 DEF StrayEnds, HandleKept, Left, Serving
  <2>2. CASE disk' = disk
    <3>1. Content' = Content
      BY <2>2 DEF Content
    <3>2. Snapshots!LateEnds(x)
      BY <1>2, <2>1, <3>1 DEF Snapshots!LateEnds, Left, Serving
    <3> QED
      BY <3>2
  <2>3. CASE disk' # disk
    <3>1. disk.is = "whole" /\ disk' = Whole(disk.rows \cup {x})
      BY <1>4, <1>6, <2>3 DEF StrayEnds
    <3>2. Content = {disk.rows} /\ Content' = {disk.rows \cup {x}}
      BY <3>1, FileKinds DEF Content
    <3>3. Snapshots!LateEnds(x)
      BY <1>2, <2>1, <3>2 DEF Snapshots!LateEnds, Left, Serving
    <3> QED
      BY <3>3
  <2> QED
    BY <2>2, <2>3
<1>7. CASE GhostEnds(x)
  <2>1. x \in Left /\ Left' = Left \ {x}
    BY <1>1, <1>7 DEF GhostEnds, HandleKept, Left
  <2>2. UNCHANGED <<Content, Serving>> \/ (Content' = {} /\ Serving' = FALSE)
    BY <1>2, <1>7, FileKinds DEF GhostEnds, Content, Serving
  <2>3. Snapshots!LateEnds(x)
    BY <1>2, <2>1, <2>2 DEF Snapshots!LateEnds, Snapshots!Spoil, Left, Serving
  <2> QED
    BY <2>3
<1> QED
  BY <1>3, <1>5, <1>6, <1>7 DEF StatementStep

LEMMA CrashSnap ==
    ASSUME TypeOK, LiveKnows, Crash
    PROVE  SnapStep
<1> USE DEF SnapStep, Snapshots!StoreNext
<1>1. LiveTyped /\ HandleKept /\ JobOver.file = NoFile /\ NoJob.file = NoFile
  BY TypeSplit DEF LiveKnows, JobOver, NoJob
<1>2. UNCHANGED <<raw, gz, inbox>> /\ stray' = {} /\ ghost' = {} /\ Left' = {}
  BY DEF Crash, Left
<1>3. Kept' \subseteq Kept
  <2>1. \A c \in Jobs : job'[c].file = NoFile
    BY <1>1 DEF Crash
  <2> QED
    BY <1>2, <2>1, KeptShrinks, FileKinds DEF OldCopy
<1>4. Serving' = (Content' # {})
  BY DEF Crash, Serving, Content
<1>5. disk' = disk \/ (stray # {} /\ disk' = Damaged) \/ (disk = Part /\ disk' = Whole({}))
  BY DEF Crash, Found
<1>6. \/ Content' = Content
      \/ Left # {} /\ Content' = {}
      \/ Content = {} /\ Content' = {{}}
  <2>1. CASE disk' = disk
    BY <2>1 DEF Content
  <2>2. CASE stray # {} /\ disk' = Damaged
    BY <2>2, FileKinds DEF Content, Left
  <2>3. CASE disk = Part /\ disk' = Whole({})
    BY <2>3, FileKinds DEF Content
  <2> QED
    BY <1>5, <2>1, <2>2, <2>3
<1>7. Snapshots!Restart
  BY <1>2, <1>3, <1>4, <1>6 DEF Snapshots!Restart, Snapshots!Spoil, Left, Content, Serving
<1> QED
  BY <1>7

LEMMA SnapFirst == Init => Snapshots!StoreInit
<1> SUFFICES ASSUME Init PROVE Snapshots!StoreInit
  OBVIOUS
<1>1. /\ disk.is = "whole" /\ disk.rows = {} /\ handle = "open" /\ inbox = {}
      /\ stray = {} /\ ghost = {}
      /\ \A m \in Minutes : raw[m].is = "none" /\ gz[m].is = "none"
      /\ \A b \in Jobs : job[b].file.is = "none"
  BY FileKinds DEF Init, NoJob
<1> QED
  BY <1>1 DEF Snapshots!StoreInit, Content, Serving, Kept, WholeRows

LEMMA SnapStepOf == TypeOK /\ Sound /\ [Next]_vars => [Snapshots!StoreNext]_(Snapshots!store)
<1> SUFFICES ASSUME TypeOK, Sound, [Next]_vars PROVE SnapStep
  BY DEF SnapStep
<1>1. LiveKnows
  BY DEF Sound
<1>2. CASE NextMinute \/ UNCHANGED vars
  <2>1. UNCHANGED <<disk, handle, stray, ghost, raw, gz, job, inbox>>
    BY <1>2 DEF NextMinute
  <2>2. Kept' = Kept
    BY <2>1, SameCopies
  <2> QED
    BY <2>1, <2>2, Discards DEF Content, Serving, Left
<1> QED
  BY <1>1, <1>2, BackupSnap, RestoreSnap, StatementSnap, CrashSnap DEF Next

\* ImplementsSnapshots: every step of backups, restores, statements, the clock and a
\* crash is a step of the snapshot store or none, for any number of calls: a whole backup
\* that is sent is what the database held at one moment ("a consistent snapshot",
\* db/backup.go:10), and what is swapped in (db/backup.go:21) is there undamaged until a
\* statement that was open when the handle was closed, or a restart, spoils it.
THEOREM BackupsImplementSnapshots == Spec => ImplementsSnapshots
<1>1. TypeOK /\ Sound /\ [Next]_vars => [Snapshots!StoreNext]_(Snapshots!store)
  BY SnapStepOf
<1> QED
  BY <1>1, SnapFirst, DatabaseAlways, PTL DEF Spec, ImplementsSnapshots, Snapshots!StoreSpec
=============================================================================
