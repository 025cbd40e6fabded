------------------------------ MODULE ClaimSystem ------------------------------
(***************************************************************************)
(* The claim outbox as a whole: concurrent issueConfig handlers, the       *)
(* panels, overlapping runs of the cleanup job, the clock, crashes with    *)
(* the restart by systemd, and the administrators' panel and user menus.   *)
(***************************************************************************)
EXTENDS IssueConfig, Janitor

CONSTANT MaxCrashes   \* bound: how often the process crashes

ASSUME CrashAssumption == MaxCrashes \in Nat

VARIABLES
    midnight,   \* the midnight job of this day is due or over
    crashes,    \* crashes so far
    excused     \* history: slots whose row DeleteUserFull erased

envVars == <<midnight, crashes, excused>>
vars == <<storeVars, panelVars, handlerVars, jobVars, envVars>>

TypeOK ==
    /\ StoreTypeOK /\ PanelTypeOK /\ HandlerTypeOK /\ JobTypeOK
    /\ midnight \in {"due", "over"}
    /\ crashes \in 0 .. MaxCrashes
    /\ excused \in SUBSET Slots

Init ==
    /\ StoreInit /\ PanelInit /\ HandlerInit /\ JobInit
    /\ midnight = "over"
    /\ crashes = 0
    /\ excused = {}

(***************************************************************************)
(* Time.                                                                   *)
(***************************************************************************)

\* The handler of slot s is between its request and the statement that settles
\* the row, or its request has outlived it.
InFlight(s) ==
    s \in wire \/ (pc[s[1]] \in {"await", "ok", "failed"} /\ cur[s[1]] = s[2])

\* Ten minutes go by.  A create lives for 40 s, its context's, and a request it
\* sent is answered or dropped soon after: no row ages while one is in flight.  A
\* row whose handler still waits for the mutex does age.
GrowOld(s) ==
    /\ row[s] = "pending" /\ s \notin old
    /\ ~InFlight(s)
    /\ old' = old \cup {s}
    /\ UNCHANGED <<claimRows, userRows, panelRows, day, expired,
                   panelVars, handlerVars, jobVars, envVars>>

\* The config's lifetime, whole days from created_at, is over.
Expire(s) ==
    /\ row[s] # "none" /\ s \notin expired
    /\ row[s] = "pending" => s \in old
    /\ day >= born[s] + ConfigDays
    /\ expired' = expired \cup {s}
    /\ UNCHANGED <<claimRows, userRows, panelRows, day, old,
                   panelVars, handlerVars, jobVars, envVars>>

\* Midnight in Tehran, where the cron job that resets the budgets is due.
NewDay ==
    /\ day < MaxDay
    /\ day' = day + 1
    /\ midnight' = "due"
    /\ UNCHANGED <<claimRows, userRows, panelRows, old, expired,
                   panelVars, handlerVars, jobVars, crashes, excused>>

\* The job's error is logged and not tried again.
MidnightReset ==
    /\ midnight = "due"
    /\ \/ ResetPanelUsage
       \/ "dbError" \in Faults /\ UNCHANGED used
    /\ midnight' = "over"
    /\ UNCHANGED <<claimRows, userRows, pstate, clock,
                   panelVars, handlerVars, jobVars, crashes, excused>>

(***************************************************************************)
(* A crash ends every goroutine and loses their locals and the mutexes;    *)
(* the database and the requests already sent survive.  cron does not make *)
(* up for a midnight job that was missed or cut off.                       *)
(***************************************************************************)
Crash ==
    /\ "crash" \in Faults /\ crashes < MaxCrashes
    /\ crashes' = crashes + 1
    /\ pc' = [u \in Attempts |-> IF pc[u] \in Live THEN "done" ELSE pc[u]]
    /\ left' = [u \in Attempts |-> {}]
    /\ seen' = [u \in Attempts |-> NoUsage]
    /\ reply' = [u \in Attempts |-> "none"]
    /\ tries' = [u \in Attempts |-> 0]
    /\ lock' = [p \in Panels |-> "free"]
    /\ jat' = [j \in Jobs |-> "idle"]
    /\ jtodo' = Nothing /\ jhit' = Nothing /\ jneed' = Nothing
    /\ jids' = Nothing /\ jhandled' = Nothing /\ jdone' = Nothing
    /\ midnight' = "over"
    /\ UNCHANGED <<storeVars, puser, wire, tg, today, cur, jpanel, excused>>

(***************************************************************************)
(* The menus of the users and the administrators (internal/bot).           *)
(***************************************************************************)

SetPanel(p, state) ==
    /\ pstate' = [pstate EXCEPT ![p] = state]
    /\ UNCHANGED <<claimRows, userRows, clock, panelVars, handlerVars, jobVars, envVars>>

AddPanel(p) ==
    /\ "addPanel" \in AdminOps
    /\ pstate[p] = "absent"
    /\ SetPanel(p, "on")
    /\ UNCHANGED used

TogglePanel(p) ==
    /\ "togglePanel" \in AdminOps
    /\ PanelExists(p)
    /\ SetPanel(p, IF pstate[p] = "on" THEN "off" ELSE "on")
    /\ UNCHANGED used

\* The row goes, with its counter; the users on the panel itself stay.
DeletePanel(p) ==
    /\ "deletePanel" \in AdminOps
    /\ PanelExists(p)
    /\ SetPanel(p, "deleted")
    /\ used' = [used EXCEPT ![p] = 0]

\* The user's row is inserted by /start, or by a claim that maintenance refuses.
Register(t) ==
    /\ t \notin known
    /\ known' = known \cup {t}
    /\ UNCHANGED <<claimRows, lastClaim, panelRows, clock, panelVars, handlerVars, jobVars, envVars>>

ClaimsOf(t) == {s \in Slots : row[s] # "none" /\ tg[s[1]] = t}

\* Removes the user with all claim rows, whatever the panels hold.
DeleteUserFull(t) ==
    /\ "deleteUser" \in AdminOps
    /\ t \in known
    /\ known' = known \ {t}
    /\ lastClaim' = [lastClaim EXCEPT ![t] = NoDay]
    /\ EraseRows(ClaimsOf(t))
    /\ excused' = excused \cup ClaimsOf(t)
    /\ UNCHANGED <<panelRows, clock, panelVars, handlerVars, jobVars, midnight, crashes>>

Admin ==
    \/ \E p \in Panels : AddPanel(p) \/ TogglePanel(p) \/ DeletePanel(p)
    \/ \E t \in Users : DeleteUserFull(t)

(***************************************************************************)
(* The composition.                                                        *)
(***************************************************************************)

\* Nothing runs and nothing is left to do within the bounds.
Quiet ==
    /\ \A u \in Attempts : pc[u] \notin Live
    /\ \A j \in Jobs : jat[j] = "idle"
    /\ wire = {}
    /\ UNCHANGED vars

Next ==
    \/ HandlerNext /\ UNCHANGED <<jobVars, envVars>>
    \/ JanitorNext /\ UNCHANGED <<handlerVars, envVars>>
    \/ \E s \in Slots : GrowOld(s) \/ Expire(s)
    \/ NewDay \/ MidnightReset \/ Crash
    \/ \E t \in Users : Register(t)
    \/ Admin
    \/ Quiet

Spec == Init /\ [][Next]_vars

\* The goroutines are scheduled, the panels answer, cron keeps firing and time
\* passes.  The mutex is fair: Go's sync.Mutex hands itself to a starving waiter.
Fairness ==
    /\ \A u \in Attempts :
         /\ WF_vars(HandlerStep(u) /\ UNCHANGED <<jobVars, envVars>>)
         /\ SF_vars((SendCreate(u) \/ CreateExpired(u)) /\ UNCHANGED <<jobVars, envVars>>)
    /\ \A s \in Slots :
         /\ WF_vars(Network(s) /\ UNCHANGED <<jobVars, envVars>>)
         /\ WF_vars(GrowOld(s))
         /\ WF_vars(Expire(s))
    /\ \A j \in Jobs :
         /\ WF_vars(ReconcileStart(j) /\ UNCHANGED <<handlerVars, envVars>>)
         /\ WF_vars(JobStep(j) /\ UNCHANGED <<handlerVars, envVars>>)
         /\ SF_vars(BulkStart(j) /\ UNCHANGED <<handlerVars, envVars>>)
    /\ WF_vars(NewDay)

FairSpec == Spec /\ Fairness

(***************************************************************************)
(* Safety.                                                                 *)
(***************************************************************************)

PanelDeleted(s) == pstate[s[2]] = "deleted"

\* The promise of the outbox (claim.go:118, stats.go:8): whatever crashes, every
\* user the bot made on a panel is named by a claim row, so the cleanup will find
\* it; only an administrator's deletion of the user or of the panel loses one.
NoOrphan ==
    \A s \in puser : row[s] # "none" \/ s \in excused \/ PanelDeleted(s)

\* A config that was handed out and has not expired is on its panel: neither the
\* reconciliation nor a bulk delete takes it away from the user early.
UnexpiredServed ==
    \A s \in Slots : row[s] = "active" /\ s \notin expired => s \in puser

\* The cleanup forgets an active row only when its user is gone from the panel,
\* also when chunks fail, lookups fail and runs overlap (scheduler.go:259).
ForgetsOnlyGone ==
    [][\A s \in Slots : row[s] = "active" /\ row'[s] = "none" =>
          s \notin puser \/ s \in excused' \/ PanelDeleted(s)]_vars

\* A user gets at most one config per Tehran day (schema.sql:18): no two attempts
\* of one user and one claim_date both hold a row in daily_claims or succeed.
Holds(u) == pc[u] = "ok" \/ \E p \in Panels : row[<<u, p>>] = "active"
OneConfigPerDay ==
    \A u, v \in Attempts :
        Holds(u) /\ Holds(v) /\ tg[u] = tg[v] /\ today[u] = today[v] => u = v

\* One attempt ends with a config on at most one panel, though the loop tries
\* several (claim.go:140).
OnePanelPerAttempt ==
    \A u \in Attempts : \A p, q \in Panels :
        <<u, p>> \in puser /\ <<u, q>> \in puser => p = q

(***************************************************************************)
(* The outbox implements the ledger.                                       *)
(***************************************************************************)

LedgerEntry ==
    [s \in Slots |->
        IF s \in excused \/ PanelDeleted(s) THEN "writtenoff"
        ELSE IF row[s] = "none" THEN "free"
        ELSE IF row[s] = "pending" THEN "reserved"
        ELSE "held"]

Ledger == INSTANCE ConfigLedger WITH Cells <- Slots, entry <- LedgerEntry, exists <- puser

\* Rows and panel users keep step as the ledger says, in every step of every
\* actor: the comment "outbox (pending->active)" at claim.go:118, spelled out.
ImplementsLedger == Ledger!LedgerSpec

(***************************************************************************)
(* Liveness, of FairSpec.                                                  *)
(***************************************************************************)

\* No claim stays pending: its handler or the reconciliation settles it.
PendingResolved ==
    \A s \in Slots : row[s] = "pending" ~> row[s] # "pending"

\* Every expired config is removed in the end, from the database and (with
\* NoOrphan) from its panel.
ExpiredRemoved ==
    \A s \in Slots : row[s] = "active" /\ s \in expired ~> row[s] = "none"
=============================================================================
