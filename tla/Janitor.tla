-------------------------------- MODULE Janitor --------------------------------
(***************************************************************************)
(* The half-hourly cron job cleanupExpiredConfigs with reconcilePending    *)
(* (internal/scheduler/scheduler.go) and the two client calls it lives on, *)
(* ResolveUserIDs and BulkUserAction.  cron starts every run in its own    *)
(* goroutine and nothing keeps a slow run from overlapping the next one,   *)
(* so the job is a set of instances.                                       *)
(*                                                                         *)
(*   idle -> reconcile <-> judge                                           *)
(*              |                                                          *)
(*              +-> pick -> resolve -> bulk <-> deleting                   *)
(*                   ^ |                 |         |                       *)
(*                   | +---> drop <------+---------+                       *)
(*                   +--------+                                            *)
(***************************************************************************)
EXTENDS PanelClient

CONSTANTS
    Jobs,        \* runs of the job that may overlap
    ChunkSize    \* setting cleanup_chunk

ASSUME JobAssumption == ChunkSize \in Nat \ {0}

VARIABLES
    jat,      \* where run j is
    jtodo,    \* pending rows it has still to reconcile
    jhit,     \* the row just found on its panel, if any
    jneed,    \* expired rows without a cached id, listed and not yet handled
    jids,     \* expired rows whose numeric id is known and not yet deleted
    jhandled, \* rows of the current panel that the bulk delete covers
    jdone,    \* rows to drop
    jpanel    \* the panel being cleaned

jobVars == <<jat, jtodo, jhit, jneed, jids, jhandled, jdone, jpanel>>

JobPlaces == {"idle", "reconcile", "judge", "pick", "resolve", "bulk", "deleting", "drop"}

JobTypeOK ==
    /\ jat \in [Jobs -> JobPlaces]
    /\ jtodo \in [Jobs -> SUBSET Slots]
    /\ jhit \in [Jobs -> SUBSET Slots]
    /\ jneed \in [Jobs -> SUBSET Slots]
    /\ jids \in [Jobs -> SUBSET Slots]
    /\ jhandled \in [Jobs -> SUBSET Slots]
    /\ jdone \in [Jobs -> SUBSET Slots]
    /\ jpanel \in [Jobs -> Panels]

Nothing == [j \in Jobs |-> {}]

JobInit ==
    /\ jat = [j \in Jobs |-> "idle"]
    /\ jtodo = Nothing /\ jhit = Nothing /\ jneed = Nothing
    /\ jids = Nothing /\ jhandled = Nothing /\ jdone = Nothing
    /\ jpanel = [j \in Jobs |-> CHOOSE p \in Panels : TRUE]

JobGoto(j, place) == jat' = [jat EXCEPT ![j] = place]

(***************************************************************************)
(* reconcilePending                                                        *)
(***************************************************************************)

\* cron fires; the job reads the pending rows older than 10 minutes.
ReconcileStart(j) ==
    /\ jat[j] = "idle"
    /\ \E found \in Rows(PendingClaimsOlderThan) : jtodo' = [jtodo EXCEPT ![j] = found]
    /\ JobGoto(j, "reconcile")
    /\ UNCHANGED <<storeVars, panelVars, jhit, jneed, jids, jhandled, jdone, jpanel>>

\* GetPanel returns an error: the panel is gone, or its query failed.
GetPanelFails(p) == ~PanelExists(p) \/ "readError" \in Faults

\* A panel that GetPanel does not return counts as absent, like any failed lookup.
Verdicts(s) ==
    (IF PanelExists(s[2]) THEN Lookup(s) ELSE {})
      \cup (IF GetPanelFails(s[2]) THEN {"absent"} ELSE {})

ReconcileLook(j, s) ==
    /\ jat[j] = "reconcile" /\ s \in jtodo[j]
    /\ \E v \in Verdicts(s) :
         /\ jhit' = [jhit EXCEPT ![j] = IF v = "found" THEN {s} ELSE {}]
         /\ jdone' = [jdone EXCEPT ![j] = IF v = "found" THEN {} ELSE {s}]
    /\ jtodo' = [jtodo EXCEPT ![j] = @ \ {s}]
    /\ JobGoto(j, "judge")
    /\ UNCHANGED <<storeVars, panelVars, jneed, jids, jhandled, jpanel>>

\* Activate a row that was found, drop one that was not; errors are ignored.
Judge(j) ==
    \/ jhit[j] = {} /\ DeleteClaimRows(jdone[j])
    \/ \E s \in jhit[j] : MarkClaimActive(s)
    \/ "dbError" \in Faults /\ UNCHANGED <<claimRows, userRows, panelRows>>

ReconcileAct(j) ==
    /\ jat[j] = "judge"
    /\ Judge(j)
    /\ jhit' = [jhit EXCEPT ![j] = {}]
    /\ jdone' = [jdone EXCEPT ![j] = {}]
    /\ JobGoto(j, "reconcile")
    /\ UNCHANGED <<clock, panelVars, jtodo, jneed, jids, jhandled, jpanel>>

(***************************************************************************)
(* cleanupExpiredConfigs                                                   *)
(***************************************************************************)

\* The expired rows are listed once, with the numeric ids they had then.
CleanupList(j) ==
    /\ jat[j] = "reconcile" /\ jtodo[j] = {}
    /\ \E olds \in Rows(ExpiredConfigs) :
         /\ jids' = [jids EXCEPT ![j] = olds \cap cachedId]
         /\ jneed' = [jneed EXCEPT ![j] = olds \ cachedId]
    /\ JobGoto(j, "pick")
    /\ UNCHANGED <<storeVars, panelVars, jtodo, jhit, jhandled, jdone, jpanel>>

Listed(j) == jids[j] \cup jneed[j]

\* The next group of byPanel (a Go map: in any order).
PickPanel(j, p) ==
    /\ jat[j] = "pick" /\ Listed(j) \cap SlotsAt(p) # {}
    /\ PanelExists(p)
    /\ jpanel' = [jpanel EXCEPT ![j] = p]
    /\ jhandled' = [jhandled EXCEPT ![j] = jids[j] \cap SlotsAt(p)]
    /\ JobGoto(j, "resolve")
    /\ UNCHANGED <<storeVars, panelVars, jtodo, jhit, jneed, jids, jdone>>

\* The panel is taken for gone from the database: its rows are dropped.
PanelGone(j, p) ==
    /\ jat[j] = "pick" /\ Listed(j) \cap SlotsAt(p) # {}
    /\ GetPanelFails(p)
    /\ jdone' = [jdone EXCEPT ![j] = Listed(j) \cap SlotsAt(p)]
    /\ jids' = [jids EXCEPT ![j] = @ \ SlotsAt(p)]
    /\ jneed' = [jneed EXCEPT ![j] = @ \ SlotsAt(p)]
    /\ JobGoto(j, "drop")
    /\ UNCHANGED <<storeVars, panelVars, jtodo, jhit, jhandled, jpanel>>

\* A mutant of the next definition: a transient failure counts as a 404.
MissingIfUnreachable(v) == v # "found"

\* Only a 404 says that the user is already gone.
Missing(v) == v = "absent"

\* One lookup of ResolveUserIDs: an id, a 404, or neither of them.
Resolve(j, s) ==
    /\ jat[j] = "resolve" /\ s \in jneed[j] \cap SlotsAt(jpanel[j])
    /\ \E v \in Lookup(s) :
         LET found == IF v = "found" THEN {s} ELSE {} IN
         /\ jids' = [jids EXCEPT ![j] = @ \cup found]
         /\ jhandled' = [jhandled EXCEPT ![j] = @ \cup found]
         /\ jdone' = [jdone EXCEPT ![j] = IF Missing(v) THEN @ \cup {s} ELSE @]
    /\ jneed' = [jneed EXCEPT ![j] = @ \ {s}]
    /\ UNCHANGED <<storeVars, panelVars, jat, jtodo, jhit, jpanel>>

Resolved(j) ==
    /\ jat[j] = "resolve" /\ jneed[j] \cap SlotsAt(jpanel[j]) = {}
    /\ JobGoto(j, "bulk")
    /\ UNCHANGED <<storeVars, panelVars, jtodo, jhit, jneed, jids, jhandled, jdone, jpanel>>

Here(j) == jids[j] \cap SlotsAt(jpanel[j])

\* BulkUserAction takes the panel's mutex before its first request.
BulkStart(j) ==
    /\ jat[j] = "bulk" /\ Here(j) # {}
    /\ Acquire(jpanel[j], "cleanup")
    /\ JobGoto(j, "deleting")
    /\ UNCHANGED <<storeVars, puser, wire, jtodo, jhit, jneed, jids, jhandled, jdone, jpanel>>

\* Chunks of ChunkSize ids; the last one takes what is left.
Chunks(j) ==
    {C \in SUBSET Here(j) : \/ Cardinality(C) = ChunkSize
                            \/ C = Here(j) /\ Cardinality(C) < ChunkSize}

BulkDeletes(j, C) ==
    /\ jat[j] = "deleting"
    /\ puser' = puser \ C
    /\ jids' = [jids EXCEPT ![j] = @ \ C]
    /\ Release(jpanel[j])
    /\ JobGoto(j, "bulk")
    /\ UNCHANGED <<storeVars, wire, jtodo, jhit, jneed, jhandled, jdone, jpanel>>

\* A mutant of the next definition: the outcome of the chunks is not looked at.
RowsToDropAnyway(j, ok) == jdone[j] \cup jhandled[j]

\* Rows of users already gone, and the handled rows if every chunk went through.
RowsToDrop(j, ok) == jdone[j] \cup (IF ok THEN jhandled[j] ELSE {})

\* The chunk loop is over: no id left, or a chunk failed and the rest is skipped.
ChunksEnd(j, ok) ==
    /\ jdone' = [jdone EXCEPT ![j] = RowsToDrop(j, ok)]
    /\ jhandled' = [jhandled EXCEPT ![j] = {}]
    /\ jids' = [jids EXCEPT ![j] = @ \ SlotsAt(jpanel[j])]
    /\ JobGoto(j, "drop")
    /\ UNCHANGED <<storeVars, wire, jtodo, jhit, jneed, jpanel>>

\* An error, before, while or after the panel deleted the users of the chunk.
BulkFails(j, C) ==
    /\ "bulkFail" \in Faults
    /\ jat[j] = "deleting"
    /\ \E gone \in SUBSET C : puser' = puser \ gone
    /\ Release(jpanel[j])
    /\ ChunksEnd(j, FALSE)

BulkDone(j) ==
    /\ jat[j] = "bulk" /\ Here(j) = {}
    /\ ChunksEnd(j, TRUE)
    /\ UNCHANGED <<puser, lock>>

\* One transaction for the rows of a panel; its failure is logged and ignored.
DropRows(j) ==
    /\ jat[j] = "drop"
    /\ \/ DeleteClaimRows(jdone[j])
       \/ "dbError" \in Faults /\ UNCHANGED <<claimRows, userRows, panelRows>>
    /\ jdone' = [jdone EXCEPT ![j] = {}]
    /\ JobGoto(j, "pick")
    /\ UNCHANGED <<clock, panelVars, jtodo, jhit, jneed, jids, jhandled, jpanel>>

CleanupEnds(j) ==
    /\ jat[j] = "pick" /\ Listed(j) = {}
    /\ JobGoto(j, "idle")
    /\ UNCHANGED <<storeVars, panelVars, jtodo, jhit, jneed, jids, jhandled, jdone, jpanel>>

JobStep(j) ==
    \/ \E s \in Slots : ReconcileLook(j, s) \/ Resolve(j, s)
    \/ ReconcileAct(j) \/ CleanupList(j)
    \/ \E p \in Panels : PickPanel(j, p) \/ PanelGone(j, p)
    \/ Resolved(j) \/ BulkStart(j)
    \/ \E C \in Chunks(j) : BulkDeletes(j, C) \/ BulkFails(j, C)
    \/ BulkDone(j) \/ DropRows(j) \/ CleanupEnds(j)

JanitorNext == \E j \in Jobs : ReconcileStart(j) \/ JobStep(j)
=============================================================================
