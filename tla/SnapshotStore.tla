------------------------------ MODULE SnapshotStore ------------------------------
(***************************************************************************)
(* What backup and restore promise, without files, goroutines, names or a  *)
(* lock: a database that is in service or not, copies of it, and copies    *)
(* handed out.  A copy is what the database held at one moment, and what   *)
(* is handed out is such a copy.  While the database is overwritten, with  *)
(* what an administrator brings, it is out of service and takes no writes, *)
(* and it goes into service only when whole.  Only writes that were under  *)
(* way when it went out of service, and a restart, can spoil it later.     *)
(***************************************************************************)
CONSTANT Writes   \* what may be written, each at most once

VARIABLES
    content,  \* {S} when S is written in the database; {} while it is overwritten or spoilt
    serving,  \* it takes writes
    left,     \* writes that were under way when it went out of service
    copies,   \* copies kept
    given     \* copies handed out

store == <<content, serving, left, copies, given>>

StoreInit ==
    /\ content = {{}} /\ serving = TRUE
    /\ left = {} /\ copies = {} /\ given = {}

Write(x) ==
    /\ serving
    /\ \E S \in content : content' = {S \cup {x}}
    /\ UNCHANGED <<serving, left, copies, given>>

\* A copy is made, in place of others or beside them.
Copy ==
    /\ serving /\ content # {}
    /\ content \subseteq copies' /\ copies' \subseteq copies \cup content
    /\ UNCHANGED <<content, serving, left, given>>

Discard ==
    /\ copies' \subseteq copies
    /\ UNCHANGED <<content, serving, left, given>>

HandOut(S) ==
    /\ S \in copies
    /\ given' = given \cup {S}
    /\ UNCHANGED <<content, serving, left, copies>>

Stop ==
    /\ serving' = FALSE
    /\ left \subseteq left' /\ left' \subseteq Writes
    /\ UNCHANGED <<content, copies, given>>

Clear ==
    /\ ~serving
    /\ content' = {}
    /\ UNCHANGED <<serving, left, copies, given>>

Install(S) ==
    /\ ~serving /\ content = {}
    /\ content' = {S}
    /\ UNCHANGED <<serving, left, copies, given>>

Serve ==
    /\ content # {}
    /\ serving' = TRUE
    /\ UNCHANGED <<content, left, copies, given>>

Spoil == content' = {} /\ serving' = FALSE

\* A write that was left under way is lost, is in time, or spoils what is there now.
LateEnds(x) ==
    /\ x \in left /\ left' = left \ {x}
    /\ \/ UNCHANGED <<content, serving>>
       \/ /\ ~serving /\ UNCHANGED serving
          /\ \E S \in content : content' = {S \cup {x}}
       \/ Spoil
    /\ UNCHANGED <<copies, given>>

\* The program starts again with what the database holds.  One that was being overwritten
\* may be taken for an empty one; one that writes were left in may be spoilt.
Restart ==
    /\ left' = {} /\ copies' \subseteq copies
    /\ \/ UNCHANGED content /\ serving' = (content # {})
       \/ content = {} /\ content' = {{}} /\ serving' = TRUE
       \/ left # {} /\ Spoil
    /\ UNCHANGED given

StoreNext ==
    \/ \E x \in Writes : Write(x) \/ LateEnds(x)
    \/ \E S \in SUBSET Writes : HandOut(S) \/ Install(S)
    \/ Copy \/ Discard \/ Stop \/ Clear \/ Serve \/ Restart

StoreSpec == StoreInit /\ [][StoreNext]_store
=============================================================================
