------------------------------ MODULE DatabaseInv ------------------------------
(***************************************************************************)
(* What the properties of the database file rest on: who may write to it,  *)
(* what is in it at each place of a restore, and which files of the backup *)
(* directory are whole, however backups and restores overlap.              *)
(***************************************************************************)
EXTENDS LiveDatabase

\* While a restore is between closing the handle and reopening it, nobody writes but the
\* statements it left open; a handle in service has a file that is all there.
HandleKept ==
    /\ lock \in Restores => handle = "closed"
    /\ open # {} => handle = "open"
    /\ stray # {} => handle = "closed" /\ disk.is # "part"
    /\ open \cap (stray \cup ghost) = {} /\ stray \cap ghost = {}
    /\ handle = "open" => disk.is \in {"whole", "damaged"}
    /\ disk.is = "part" => acked = {}
    /\ torn => disk.is # "whole"

\* What a restore has made of the live file at each place.
RestoreKnows ==
    \A r \in Restores :
        /\ res[r].at \in {"check", "lock", "copy", "copying"} => res[r].file \in Documents
        /\ res[r].at \in {"lock", "copy", "copying"} => res[r].file.is # "part"
        /\ res[r].at = "copy" /\ ~torn => disk.is = "whole"
        /\ res[r].at = "copying" => disk \in {Part, Damaged} /\ stray = {} /\ acked = {}
        /\ res[r].at = "reopen" =>
              /\ disk.is # "part" /\ stray = {} /\ acked = {}
              /\ ~torn => disk.is = "whole"

\* Unless backups of its minute overlap, a backup is alone with its files, and they are
\* in parts only while it fills them.
BackupKnows ==
    \A b \in Jobs : Begun(job[b]) /\ ~job[b].marred =>
        /\ \A c \in Jobs : Begun(job[c]) /\ job[c].min = job[b].min => c = b
        /\ job[b].at = "gzip" => raw[Stamp(job[b].min)].is \in {"none", "whole"}
        /\ job[b].at = "zipping" => job[b].file.is = "whole"

\* The invariant behind the properties of the database file.
DatabaseInv == HandleKept /\ RestoreKnows /\ BackupKnows
=============================================================================
