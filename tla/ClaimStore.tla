------------------------------ MODULE ClaimStore ------------------------------
(***************************************************************************)
(* The rows of the SQLite database that the claim flow reads and writes    *)
(* (internal/db: daily_claims, users, panels), the statements executed on  *)
(* them, and the clocks they are compared with.                            *)
(*                                                                         *)
(* SetMaxOpenConns(1) makes every statement and every transaction one      *)
(* atomic step, so a statement is an operator on the next state and the    *)
(* actions of the handlers and the cron jobs are built from them.          *)
(*                                                                         *)
(* A claim row is named by its slot <<u, p>>: attempt u (the config uuid   *)
(* one run of issueConfig draws) at panel p.  issueConfig inserts at most  *)
(* one row per slot and AUTOINCREMENT never reuses an id, so the slot is   *)
(* the row id, and also the name of the user the attempt creates on p.     *)
(***************************************************************************)
EXTENDS Integers, FiniteSets

CONSTANTS
    Users,       \* Telegram ids
    Panels,      \* ids of panel rows
    Attempts,    \* config uuids, each drawn by at most one handler
    Vol,         \* volume of one config, in MB
    Limit,       \* daily volume limit of a panel, in MB; 0 = unlimited
    ConfigDays,  \* setting config_days
    MaxDay,      \* bound: the last Tehran day explored
    Faults,      \* which of AllFaults may happen
    AdminOps     \* which of AllAdminOps the administrators use

\* Answers lost after the panel acted; panels out of reach; failing bulk deletes;
\* writes and queries that fail; crashes of the process.
AllFaults == {"lostReply", "outage", "bulkFail", "dbError", "readError", "crash"}
AllAdminOps == {"addPanel", "togglePanel", "deletePanel", "deleteUser"}

NoDay == -1
Days == 0 .. MaxDay
Slots == Attempts \X Panels
SlotsOf(u) == {u} \X Panels
SlotsAt(p) == Attempts \X {p}

ASSUME StoreAssumption ==
    /\ Users # {} /\ Panels # {}
    /\ Vol \in Nat /\ Limit \in Nat
    /\ ConfigDays \in Nat \ {0}
    /\ MaxDay \in Nat
    /\ Faults \subseteq AllFaults
    /\ AdminOps \subseteq AllAdminOps

VARIABLES
    row,        \* daily_claims.status of each slot, "none" when there is no row
    cachedId,   \* slots whose row has panel_user_id > 0
    born,       \* day of created_at
    known,      \* users with a row in table users
    lastClaim,  \* users.last_claim_date
    used,       \* panels.used_today_mb
    pstate,     \* panels row: absent (not added yet), on, off, deleted
    day,        \* the Tehran calendar day
    old,        \* pending slots created more than 10 minutes ago
    expired     \* slots whose expire_at has passed

claimRows == <<row, cachedId, born>>
userRows  == <<known, lastClaim>>
panelRows == <<used, pstate>>
clock     == <<day, old, expired>>
storeVars == <<row, cachedId, born, known, lastClaim, used, pstate, day, old, expired>>

StoreTypeOK ==
    /\ row \in [Slots -> {"none", "pending", "active"}]
    /\ cachedId \in SUBSET Slots
    /\ born \in [Slots -> Days]
    /\ known \in SUBSET Users
    /\ lastClaim \in [Users -> Days \cup {NoDay}]
    /\ used \in [Panels -> Nat]
    /\ pstate \in [Panels -> {"absent", "on", "off", "deleted"}]
    /\ day \in Days
    /\ old \in SUBSET Slots
    /\ expired \in SUBSET Slots

StoreInit ==
    /\ row = [s \in Slots |-> "none"]
    /\ cachedId = {}
    /\ born = [s \in Slots |-> 0]
    /\ known = {}
    /\ lastClaim = [t \in Users |-> NoDay]
    /\ used = [p \in Panels |-> 0]
    /\ pstate \in [Panels -> {"absent", "on"}]
    /\ "addPanel" \notin AdminOps => pstate = [p \in Panels |-> "on"]
    /\ day = 0
    /\ old = {}
    /\ expired = {}

(***************************************************************************)
(* Queries.                                                                *)
(***************************************************************************)

\* GetPanel returns a row (a handler may still hold the row of a deleted panel).
PanelExists(p) == pstate[p] \in {"on", "off"}

\* Enabled panels whose budget absorbs one more config.
PanelsForVolume ==
    {p \in Panels : pstate[p] = "on" /\ (Limit = 0 \/ used[p] + Vol <= Limit)}

\* Mutants of the next definition: the wrong status in the WHERE clause; any age.
ActiveClaimsOlderThan == {s \in Slots : row[s] = "active" /\ s \in old}
PendingClaims == {s \in Slots : row[s] = "pending"}

PendingClaimsOlderThan == {s \in Slots : row[s] = "pending" /\ s \in old}

\* Mutants of the next definition: expire_at is not compared; the wrong status.
ActiveConfigs == {s \in Slots : row[s] = "active"}
ExpiredPending == {s \in Slots : row[s] = "pending" /\ s \in expired}

ExpiredConfigs == {s \in Slots : row[s] = "active" /\ s \in expired}

\* What a query that selects S yields: S, or nothing when it fails.
Rows(S) == {S} \cup (IF "readError" \in Faults THEN {{}} ELSE {})

(***************************************************************************)
(* Statements and transactions.                                            *)
(***************************************************************************)

InsertPendingClaim(s) ==
    /\ row' = [row EXCEPT ![s] = "pending"]
    /\ born' = [born EXCEPT ![s] = day]
    /\ UNCHANGED cachedId

\* UPDATE ... SET status='active', panel_user_id=? WHERE id=?: no row, no effect.
SetActive(s, panelUserID) ==
    \/ /\ row[s] = "none"
       /\ UNCHANGED <<row, cachedId>>
    \/ /\ row[s] # "none"
       /\ row' = [row EXCEPT ![s] = "active"]
       /\ cachedId' = IF panelUserID > 0 THEN cachedId \cup {s} ELSE cachedId \ {s}

\* A mutant of the next definition: the day of the claim is not written down.
ConfirmUndated(s, t, date, panelUserID) ==
    /\ SetActive(s, panelUserID)
    /\ used' = [used EXCEPT ![s[2]] = IF PanelExists(s[2]) THEN @ + Vol ELSE @]
    /\ UNCHANGED <<born, userRows, pstate>>

\* The transaction of a successful create.  Only the claim row may be missing by
\* now, or the user's or the panel's: each UPDATE then touches no row.
ConfirmClaim(s, t, date, panelUserID) ==
    /\ SetActive(s, panelUserID)
    /\ used' = [used EXCEPT ![s[2]] = IF PanelExists(s[2]) THEN @ + Vol ELSE @]
    /\ lastClaim' = [lastClaim EXCEPT ![t] = IF t \in known THEN date ELSE @]
    /\ UNCHANGED <<born, known, pstate>>

\* What reconciliation does instead: no usage, no last_claim_date.
MarkClaimActive(s) ==
    /\ SetActive(s, 1)
    /\ UNCHANGED <<born, userRows, panelRows>>

\* DELETE FROM daily_claims WHERE id IN S.
EraseRows(S) ==
    /\ row' = [s \in Slots |-> IF s \in S THEN "none" ELSE row[s]]
    /\ cachedId' = cachedId \ S
    /\ UNCHANGED born

DeleteClaimRows(S) == EraseRows(S) /\ UNCHANGED <<userRows, panelRows>>

ResetPanelUsage == used' = [p \in Panels |-> 0]
=============================================================================
