--------------------------- MODULE ClaimPromise_proofs ---------------------------
(***************************************************************************)
(* Two promises that rest on the outbox invariant: the cleanup forgets a   *)
(* config only when its user is gone, and a user who is served one update  *)
(* at a time gets one config per day.                                      *)
(***************************************************************************)
EXTENDS ClaimOutbox_proofs

USE DEF storeVars, claimRows, userRows, panelRows, clock, panelVars, handlerVars,
        jobVars, envVars, vars

(***************************************************************************)
(* What the handlers and the other actors do to rows.                      *)
(***************************************************************************)

\* A handler inserts a row for a slot not tried before, confirms or takes back the
\* row it is working on.
LEMMA HandlerRows ==
    ASSUME TypeOK, OutboxInv, HandlerNext, UNCHANGED <<jobVars, envVars>>, NEW s \in Slots
    PROVE  \/ row'[s] = row[s]
           \/ row'[s] = "pending" /\ row[s] = "none" /\ Fresh(s) /\ Busy(s)'
           \/ row'[s] = "active" /\ row[s] # "none" /\ Busy(s) /\ pc[s[1]] = "ok"
           \/ row'[s] = "none" /\ Busy(s) /\ pc[s[1]] = "failed"
<1> USE TypesOf, SlotOf, SlotParts DEF HandlerTypes
<1>1. ASSUME NEW u \in Attempts, LocalStep(u) PROVE row'[s] = row[s]
  BY <1>1, LocalEffects DEF LocalEffect
<1>2. ASSUME NEW u \in Attempts, SendCreate(u) \/ Resend(u) \/ CreateReturns(u)
      PROVE  row'[s] = row[s]
  BY <1>2 DEF SendCreate, Resend, CreateReturns
<1>3. ASSUME NEW c \in Slots, Network(c) PROVE row'[s] = row[s]
  BY <1>3 DEF Network, PanelCreates, PanelRefuses, RequestTimesOut
<1>4. ASSUME NEW u \in Attempts, InsertPending(u), row'[s] # row[s]
      PROVE  row'[s] = "pending" /\ row[s] = "none" /\ Fresh(s) /\ Busy(s)'
  <2>1. PICK p \in left[u] : /\ row' = [row EXCEPT ![<<u, p>>] = "pending"]
                             /\ cur' = [cur EXCEPT ![u] = p]
                             /\ pc' = [pc EXCEPT ![u] = "send"]
    BY <1>4 DEF InsertPending, LeastUsed, InsertPendingClaim, Goto
  <2>2. s = <<u, p>> /\ Fresh(s)
    BY <1>4, <2>1 DEF Fresh
  <2>3. row[s] = "none" /\ row'[s] = "pending"
    BY <2>1, <2>2 DEF OutboxInv, HandlersKnow, FreshClean
  <2>4. Busy(s)'
    BY <2>1, <2>2 DEF Busy, TypeOK, HandlerTypeOK
  <2> QED
    BY <2>2, <2>3, <2>4
<1>5. ASSUME NEW u \in Attempts, Confirm(u), row'[s] # row[s]
      PROVE  row'[s] = "active" /\ row[s] # "none" /\ Busy(s) /\ pc[s[1]] = "ok"
  <2>1. PICK id \in {0, 1} : SetActive(Slot(u), id)
    BY <1>5 DEF Confirm, ConfirmClaim
  <2>2. row[Slot(u)] # "none" /\ row' = [row EXCEPT ![Slot(u)] = "active"]
    BY <1>5, <2>1, Zenon DEF SetActive
  <2>3. s = Slot(u) /\ row'[s] = "active" /\ row[s] # "none"
    BY <1>5, <2>2
  <2> QED
    BY <1>5, <2>3 DEF Confirm, Busy
<1>6. ASSUME NEW u \in Attempts, Rollback(u), row'[s] # row[s]
      PROVE  row'[s] = "none" /\ Busy(s) /\ pc[s[1]] = "failed"
  <2>1. pc[u] = "failed" /\ row' = [c \in Slots |-> IF c \in {Slot(u)} THEN "none" ELSE row[c]]
    BY <1>6 DEF Rollback, DeleteClaimRows, EraseRows
  <2>2. s = Slot(u) /\ row'[s] = "none"
    BY <1>6, <2>1
  <2> QED
    BY <2>1, <2>2 DEF Busy
<1> QED
  BY <1>1, <1>2, <1>3, <1>4, <1>5, <1>6 DEF HandlerNext, HandlerStep, LocalStep

\* Of the other actors only the deletion of a user touches a row, and it erases it.
LEMMA OtherRows ==
    ASSUME \/ \E c \in Slots : GrowOld(c) \/ Expire(c)
           \/ NewDay \/ MidnightReset \/ Crash \/ UNCHANGED vars
           \/ \E t \in Users : Register(t)
           \/ Admin,
           NEW s \in Slots
    PROVE  row'[s] = row[s] \/ (row'[s] = "none" /\ s \in excused')
<1>1. CASE \/ \E c \in Slots : GrowOld(c) \/ Expire(c)
           \/ NewDay \/ MidnightReset \/ Crash \/ UNCHANGED vars
           \/ \E t \in Users : Register(t)
  BY <1>1 DEF GrowOld, Expire, NewDay, MidnightReset, Crash, Register
<1>2. ASSUME NEW p \in Panels, AddPanel(p) \/ TogglePanel(p) \/ DeletePanel(p)
      PROVE  row'[s] = row[s]
  BY <1>2 DEF AddPanel, TogglePanel, DeletePanel, SetPanel
<1>3. ASSUME NEW t \in Users, DeleteUserFull(t)
      PROVE  row'[s] = row[s] \/ (row'[s] = "none" /\ s \in excused')
  BY <1>3 DEF DeleteUserFull, EraseRows
<1> QED
  BY <1>1, <1>2, <1>3 DEF Admin

(***************************************************************************)
(* The cleanup forgets only what is gone.                                  *)
(***************************************************************************)

\* What one run of the job does to rows, and where it stands when it does.
LEMMA JobRowsOf ==
    ASSUME TypeOK, NEW j \in Jobs, ReconcileStart(j) \/ JobStep(j), NEW s \in Slots
    PROVE  \/ row'[s] = row[s]
           \/ /\ jat[j] = "judge" /\ s \in jhit[j] /\ jat'[j] = "reconcile"
              /\ row'[s] = "active"
           \/ /\ jat[j] \in {"judge", "drop"} /\ s \in jdone[j]
              /\ row'[s] = "none"
<1> USE JobTypesOf DEF JobTypes
<1>1. ASSUME ReconcileStart(j) \/ CleanupList(j) \/ Resolved(j) \/ BulkStart(j) \/ CleanupEnds(j)
      PROVE  row' = row
  BY <1>1 DEF ReconcileStart, CleanupList, Resolved, BulkStart, CleanupEnds
<1>2. ASSUME NEW c \in Slots, ReconcileLook(j, c) \/ Resolve(j, c) PROVE row' = row
  BY <1>2 DEF ReconcileLook, Resolve
<1>3. ASSUME NEW p \in Panels, PickPanel(j, p) \/ PanelGone(j, p) PROVE row' = row
  BY <1>3 DEF PickPanel, PanelGone
<1>4. ASSUME NEW C \in Chunks(j), BulkDeletes(j, C) \/ BulkFails(j, C) PROVE row' = row
  BY <1>4 DEF BulkDeletes, BulkFails, ChunksEnd
<1>5. ASSUME BulkDone(j) PROVE row' = row
  BY <1>5 DEF BulkDone, ChunksEnd
<1>6. ASSUME EraseRows(jdone[j]), row'[s] # row[s] PROVE s \in jdone[j] /\ row'[s] = "none"
  BY <1>6 DEF EraseRows
<1>7. ASSUME DropRows(j), row'[s] # row[s]
      PROVE  jat[j] = "drop" /\ s \in jdone[j] /\ row'[s] = "none"
  BY <1>6, <1>7 DEF DropRows, DeleteClaimRows
<1>8. ASSUME ReconcileAct(j), row'[s] # row[s]
      PROVE  /\ jat[j] = "judge" /\ jat'[j] = "reconcile"
             /\ \/ s \in jhit[j] /\ row'[s] = "active"
                \/ s \in jdone[j] /\ row'[s] = "none"
  <2>1. jat[j] = "judge" /\ jat'[j] = "reconcile" /\ Judge(j)
    BY <1>8 DEF ReconcileAct, JobGoto
  <2>2. ASSUME NEW c \in jhit[j], MarkClaimActive(c) PROVE s \in jhit[j] /\ row'[s] = "active"
    <3>1. row' = [row EXCEPT ![c] = "active"] /\ row \in [Slots -> {"none", "pending", "active"}]
      BY <1>8, <2>2, Zenon DEF MarkClaimActive, SetActive, TypeOK, StoreTypeOK
    <3> QED
      BY <1>8, <3>1
  <2> QED
    BY <1>6, <1>8, <2>1, <2>2 DEF Judge, DeleteClaimRows
<1> QED
  BY <1>1, <1>2, <1>3, <1>4, <1>5, <1>7, <1>8 DEF JobStep

LEMMA AloneJanitor ==
    ASSUME OneRun, TypeOK, OutboxInv, AloneKnows, JanitorNext,
           UNCHANGED <<handlerVars, envVars>>
    PROVE  AloneKnows'
<1>1. PICK j \in Jobs : ReconcileStart(j) \/ JobStep(j)
  BY DEF JanitorNext
<1>2. \A k \in Jobs : k = j
  BY DEF OneRun
<1> USE JobTypesOf DEF JobTypes, JobGoto
<1>3. CASE ReconcileStart(j)
  <2>1. PICK found \in Rows(PendingClaimsOlderThan) : jtodo' = [jtodo EXCEPT ![j] = found]
    BY <1>3 DEF ReconcileStart
  <2>2. \A s \in found : row[s] = "pending"
    BY RowsType DEF PendingClaimsOlderThan
  <2> QED
    BY <1>2, <1>3, <2>1, <2>2 DEF ReconcileStart, AloneKnows
<1>4. ASSUME NEW c \in Slots, ReconcileLook(j, c) PROVE AloneKnows'
  <2>1. PICK v \in Verdicts(c) :
          /\ jhit' = [jhit EXCEPT ![j] = IF v = "found" THEN {c} ELSE {}]
          /\ jdone' = [jdone EXCEPT ![j] = IF v = "found" THEN {} ELSE {c}]
    BY <1>4 DEF ReconcileLook
  <2>2. /\ jat[j] = "reconcile" /\ c \in jtodo[j] /\ row' = row
        /\ jtodo' = [jtodo EXCEPT ![j] = @ \ {c}]
    BY <1>4 DEF ReconcileLook
  <2> QED
    BY <1>2, <2>1, <2>2 DEF AloneKnows
<1>5. CASE ReconcileAct(j)
  <2>1. \A s \in Slots : row'[s] = "active" => row[s] = "active" \/ s \in jhit[j]
    BY <1>5, JobRowsOf DEF JobStep
  <2>2. jat[j] = "judge" /\ jat'[j] = "reconcile" /\ jtodo' = jtodo
    BY <1>5 DEF ReconcileAct
  <2>3. \A s \in jtodo[j] : s \in Slots
    OBVIOUS
  <2> QED
    BY <1>2, <2>1, <2>2, <2>3 DEF AloneKnows
<1>6. ASSUME CleanupList(j) \/ Resolved(j) \/ BulkStart(j) \/ CleanupEnds(j) \/ BulkDone(j) \/ DropRows(j)
      PROVE  jat'[j] \notin {"reconcile", "judge"}
  BY <1>6 DEF CleanupList, Resolved, BulkStart, CleanupEnds, BulkDone, ChunksEnd, DropRows
<1>7. ASSUME NEW c \in Slots, Resolve(j, c) PROVE jat'[j] \notin {"reconcile", "judge"}
  BY <1>7 DEF Resolve
<1>8. ASSUME NEW p \in Panels, PickPanel(j, p) \/ PanelGone(j, p)
      PROVE  jat'[j] \notin {"reconcile", "judge"}
  BY <1>8 DEF PickPanel, PanelGone
<1>9. ASSUME NEW C \in Chunks(j), BulkDeletes(j, C) \/ BulkFails(j, C)
      PROVE  jat'[j] \notin {"reconcile", "judge"}
  BY <1>9 DEF BulkDeletes, BulkFails, ChunksEnd
<1>10. ASSUME jat'[j] \notin {"reconcile", "judge"} PROVE AloneKnows'
  BY <1>2, <1>10 DEF AloneKnows
<1> QED
  BY <1>1, <1>3, <1>4, <1>5, <1>6, <1>7, <1>8, <1>9, <1>10 DEF JobStep

LEMMA AloneNext ==
    ASSUME OneRun, TypeOK, OutboxInv, AloneKnows, [Next]_vars
    PROVE  AloneKnows'
<1>1. ASSUME UNCHANGED jobVars,
             \A s \in Slots : Inert(s) /\ row'[s] = "active" => row[s] = "active"
      PROVE  AloneKnows'
  <2>1. \A j \in Jobs : \A s \in InJob(j) : s \in Slots /\ Inert(s)
    BY JobTypesOf DEF OutboxInv, JobsKnow, JobKnows, JobTypes, InJob
  <2> QED
    BY <1>1, <2>1 DEF AloneKnows, InJob
<1>2. CASE HandlerNext /\ UNCHANGED <<jobVars, envVars>>
  <2>1. \A s \in Slots : Busy(s) /\ pc[s[1]] = "ok" => ~Inert(s)
    BY DEF OutboxInv, HandlersKnow, BusyKnows, Inert
  <2>2. \A s \in Slots : Inert(s) /\ row'[s] = "active" => row[s] = "active"
    BY <1>2, <2>1, HandlerRows
  <2> QED
    BY <1>1, <1>2, <2>2
<1>3. CASE JanitorNext /\ UNCHANGED <<handlerVars, envVars>>
  BY <1>3, AloneJanitor
<1>4. CASE Crash
  BY <1>4 DEF Crash, AloneKnows
<1>5. CASE \/ \E c \in Slots : GrowOld(c) \/ Expire(c)
           \/ NewDay \/ MidnightReset \/ UNCHANGED vars
           \/ \E t \in Users : Register(t)
           \/ Admin
  <2>1. UNCHANGED jobVars
    BY <1>5 DEF GrowOld, Expire, NewDay, MidnightReset, Register, Admin, AddPanel,
                TogglePanel, DeletePanel, SetPanel, DeleteUserFull
  <2>2. \A s \in Slots : row'[s] = "active" => row[s] = "active"
    BY <1>5, OtherRows
  <2> QED
    BY <1>1, <2>1, <2>2
<1> QED
  BY <1>2, <1>3, <1>4, <1>5 DEF Next, Quiet

\* AloneKnows: nobody activates a row that the only run is reconciling, and no row that
\* run is about to drop (scheduler.go:306) is active, whatever fails.
THEOREM AloneInvariant ==
    ASSUME OneRun
    PROVE  Spec => []AloneKnows
<1>1. Init => AloneKnows
  BY DEF Init, JobInit, AloneKnows
<1>2. IInv /\ AloneKnows /\ [Next]_vars => AloneKnows'
  BY AloneNext DEF IInv
<1> QED
  BY <1>1, <1>2, Inductive, PTL DEF Spec

LEMMA ForgetStep ==
    ASSUME TypeOK, OutboxInv, "readError" \notin Faults,
           "outage" \notin Faults \/ AloneKnows,
           [Next]_vars, NEW s \in Slots, row[s] = "active", row'[s] = "none"
    PROVE  s \notin puser \/ s \in excused' \/ PanelDeleted(s)
<1>1. CASE HandlerNext /\ UNCHANGED <<jobVars, envVars>>
  <2>1. Busy(s)
    BY <1>1, HandlerRows
  <2> QED
    BY <2>1 DEF OutboxInv, HandlersKnow, ActiveInert, Inert, BusyKnows
<1>2. CASE JanitorNext
  <2>1. PICK j \in Jobs : ReconcileStart(j) \/ JobStep(j)
    BY <1>2 DEF JanitorNext
  <2>2. jat[j] \in {"judge", "drop"} /\ s \in jdone[j]
    BY <2>1, JobRowsOf
  <2>3. s \notin puser \/ PanelDeleted(s) \/ Misled(j)
    BY <2>2 DEF OutboxInv, JobsKnow, JobKnows
  <2>4. ~Misled(j)
    BY <2>2 DEF Misled, AloneKnows
  <2> QED
    BY <2>3, <2>4
<1>3. CASE \/ \E c \in Slots : GrowOld(c) \/ Expire(c)
           \/ NewDay \/ MidnightReset \/ Crash \/ UNCHANGED vars
           \/ \E t \in Users : Register(t)
           \/ Admin
  BY <1>3, OtherRows
<1> QED
  BY <1>1, <1>2, <1>3 DEF Next, Quiet

\* An active row goes only when its user is gone from the panel, or an administrator
\* deleted one of the two (scheduler.go:259): provided that no query of the database
\* fails, and that no two runs of the job overlap while panels can be out of reach.
THEOREM ForgottenWhenGone ==
    ASSUME "readError" \notin Faults, "outage" \notin Faults \/ OneRun
    PROVE  Spec => ForgetsOnlyGone
<1> DEFINE Forgets == \A s \in Slots : row[s] = "active" /\ row'[s] = "none" =>
                         s \notin puser \/ s \in excused' \/ PanelDeleted(s)
<1>1. CASE "outage" \notin Faults
  <2>1. IInv /\ [Next]_vars => [Forgets]_vars
    BY <1>1, ForgetStep DEF IInv
  <2> QED
    BY <2>1, Inductive, PTL DEF Spec, ForgetsOnlyGone
<1>2. CASE OneRun
  <2>1. IInv /\ AloneKnows /\ [Next]_vars => [Forgets]_vars
    BY ForgetStep DEF IInv
  <2>2. Spec => []AloneKnows
    BY <1>2, AloneInvariant
  <2> QED
    BY <2>1, <2>2, Inductive, PTL DEF Spec, ForgetsOnlyGone
<1> QED
  BY <1>1, <1>2

(***************************************************************************)
(* One config per day, for users who are served one update at a time.      *)
(***************************************************************************)

\* Neither writes nor the process fail, and no user is deleted.
Steady == Faults \cap {"crash", "dbError"} = {} /\ "deleteUser" \notin AdminOps

LEMMA HoldsOf ==
    ASSUME NEW u \in Attempts
    PROVE  /\ Holds(u) <=> pc[u] = "ok" \/ \E s \in Slots : s[1] = u /\ row[s] = "active"
           /\ Holds(u)' <=> pc'[u] = "ok" \/ \E s \in Slots : s[1] = u /\ row'[s] = "active"
<1>1. ASSUME NEW p \in Panels PROVE <<u, p>> \in Slots
  BY DEF Slots
<1> QED
  BY <1>1, SlotParts DEF Holds

\* A step after which nobody holds a config who did not hold one before.
LEMMA HoldsNothingNew ==
    ASSUME TypeOK, TypeOK', OneConfigPerDay,
           \A u \in Attempts : Holds(u)' => Holds(u) /\ tg'[u] = tg[u] /\ today'[u] = today[u]
    PROVE  OneConfigPerDay'
BY DEF OneConfigPerDay

\* What a handler's step does to the clocks, days and users the daily check reads.
LEMMA HandlerDays ==
    ASSUME TypeOK, HandlerNext
    PROVE  \/ \E u \in Attempts, t \in Users :
                /\ pc[u] = "idle" /\ lastClaim[t] # day
                /\ pc' = [pc EXCEPT ![u] = "select"]
                /\ tg' = [tg EXCEPT ![u] = t] /\ today' = [today EXCEPT ![u] = day]
                /\ known' = known \cup {t} /\ UNCHANGED <<row, lastClaim, day>>
           \/ \E u \in Attempts :
                /\ pc[u] = "ok" /\ pc' = [pc EXCEPT ![u] = "done"]
                /\ lastClaim' = [lastClaim EXCEPT ![tg[u]] = IF tg[u] \in known THEN today[u] ELSE @]
                /\ \A s \in Slots : s[1] # u => row'[s] = row[s]
                /\ UNCHANGED <<tg, today, known, day>>
           \/ \E u \in Attempts :
                /\ pc[u] = "await" /\ pc' = [pc EXCEPT ![u] = "ok"]
                /\ UNCHANGED <<row, tg, today, known, lastClaim, day>>
           \/ \E u \in Attempts, q \in Places :
                /\ pc[u] \in Live /\ q # "ok" /\ pc' = [pc EXCEPT ![u] = q]
                /\ pc[u] = "ok" => "dbError" \in Faults
                /\ \A s \in Slots : row'[s] = "active" => row[s] = "active"
                /\ UNCHANGED <<tg, today, known, lastClaim, day>>
           \/ UNCHANGED <<row, pc, tg, today, known, lastClaim, day>>
<1> USE DEF Goto, Return, Live, Places, TypeOK, HandlerTypeOK
<1>1. ASSUME NEW u \in Attempts, NEW t \in Users, StartClaim(u, t)
      PROVE  /\ pc[u] = "idle" /\ lastClaim[t] # day
             /\ pc' = [pc EXCEPT ![u] = "select"]
             /\ tg' = [tg EXCEPT ![u] = t] /\ today' = [today EXCEPT ![u] = day]
             /\ known' = known \cup {t} /\ UNCHANGED <<row, lastClaim, day>>
  BY <1>1 DEF StartClaim
<1>2. ASSUME NEW u \in Attempts, Confirm(u)
      PROVE  /\ pc[u] = "ok" /\ pc' = [pc EXCEPT ![u] = "done"]
             /\ lastClaim' = [lastClaim EXCEPT ![tg[u]] = IF tg[u] \in known THEN today[u] ELSE @]
             /\ \A s \in Slots : s[1] # u => row'[s] = row[s]
             /\ UNCHANGED <<tg, today, known, day>>
  <2>1. PICK id \in {0, 1} : ConfirmClaim(Slot(u), tg[u], today[u], id)
    BY <1>2 DEF Confirm
  <2>2. row' = row \/ row' = [row EXCEPT ![Slot(u)] = "active"]
    BY <2>1, Zenon DEF ConfirmClaim, SetActive
  <2>3. \A s \in Slots : s[1] # u => row'[s] = row[s]
    BY <2>2, SlotOf, TypesOf DEF HandlerTypes
  <2> QED
    BY <1>2, <2>1, <2>3 DEF Confirm, ConfirmClaim
<1> DEFINE Moves(u) == \E q \in Places :
               /\ pc[u] \in Live /\ q # "ok" /\ pc' = [pc EXCEPT ![u] = q]
               /\ pc[u] = "ok" => "dbError" \in Faults
               /\ \A s \in Slots : row'[s] = "active" => row[s] = "active"
               /\ UNCHANGED <<tg, today, known, lastClaim, day>>
<1>3. ASSUME NEW u \in Attempts, CreateReturns(u)
      PROVE  \/ /\ pc[u] = "await" /\ pc' = [pc EXCEPT ![u] = "ok"]
                /\ UNCHANGED <<row, tg, today, known, lastClaim, day>>
             \/ Moves(u)
  BY <1>3 DEF CreateReturns
<1>4. ASSUME NEW u \in Attempts, GateRefuses(u) \/ SelectPanels(u) \/ NoPanelLeft(u) \/ InsertFails(u)
      PROVE  Moves(u)
  BY <1>4 DEF GateRefuses, SelectPanels, NoPanelLeft, InsertFails
<1>5. ASSUME NEW u \in Attempts, InsertPending(u) PROVE Moves(u)
  <2>1. \A s \in Slots : row'[s] = "active" => row[s] = "active"
    BY <1>5, TypesOf DEF InsertPending, InsertPendingClaim, HandlerTypes
  <2> QED
    BY <1>5, <2>1 DEF InsertPending
<1>6. ASSUME NEW u \in Attempts, SendCreate(u) \/ CreateExpired(u) PROVE Moves(u)
  BY <1>6 DEF SendCreate, CreateExpired
<1>7. ASSUME NEW u \in Attempts, Rollback(u) \/ RollbackFails(u) \/ ConfirmFails(u) PROVE Moves(u)
  BY <1>7 DEF Rollback, RollbackFails, ConfirmFails, DeleteClaimRows, EraseRows
<1>8. ASSUME NEW u \in Attempts, Resend(u) PROVE UNCHANGED <<row, pc, tg, today, known, lastClaim, day>>
  BY <1>8 DEF Resend
<1>9. ASSUME NEW s \in Slots, Network(s) PROVE UNCHANGED <<row, pc, tg, today, known, lastClaim, day>>
  BY <1>9 DEF Network, PanelCreates, PanelRefuses, RequestTimesOut
<1> HIDE DEF Live, Places, TypeOK, HandlerTypeOK, Goto, Return
<1> QED
  BY <1>1, <1>2, <1>3, <1>4, <1>5, <1>6, <1>7, <1>8, <1>9 DEF HandlerNext, HandlerStep

\* While writes succeed, a row is pending no longer when its handler is done with it.
LEMMA HandlerSettles ==
    ASSUME TypeOK, OutboxInv, Steady, HandlerNext, UNCHANGED <<jobVars, envVars>>,
           NEW s \in Slots, row'[s] = "pending", row[s] = "pending" => Busy(s)
    PROVE  Busy(s)'
<1> USE TypesOf, SlotOf, SlotParts DEF HandlerTypes
<1>1. row[s] # "pending" => Busy(s)'
  BY HandlerRows
<1>2. ASSUME Busy(s), NEW u \in Attempts, LocalStep(u) PROVE Busy(s)'
  <2>1. ~ConfirmFails(u) /\ ~RollbackFails(u)
    BY DEF ConfirmFails, RollbackFails, Steady
  <2> QED
    BY <1>2, <2>1 DEF Busy, LocalStep, Goto, Return, StartClaim, GateRefuses, SelectPanels,
       InsertFails, NoPanelLeft, CreateExpired
<1>3. ASSUME Busy(s), NEW u \in Attempts, SendCreate(u) \/ Resend(u) \/ CreateReturns(u)
      PROVE  Busy(s)'
  BY <1>3 DEF Busy, SendCreate, Resend, CreateReturns, Goto
<1>4. ASSUME Busy(s), NEW c \in Slots, Network(c) PROVE Busy(s)'
  BY <1>4 DEF Busy, Network, PanelCreates, PanelRefuses, RequestTimesOut
<1>5. ASSUME Busy(s), NEW u \in Attempts, InsertPending(u) PROVE Busy(s)'
  <2>1. pc[u] = "choose" /\ \A v \in Attempts \ {u} : pc'[v] = pc[v] /\ cur'[v] = cur[v]
    BY <1>5 DEF InsertPending, Goto, TypeOK, HandlerTypeOK
  <2> QED
    BY <1>5, <2>1 DEF Busy
<1>6. ASSUME Busy(s), NEW u \in Attempts, Confirm(u) PROVE Busy(s)'
  <2>1. s # Slot(u)
    <3>1. PICK id \in {0, 1} : SetActive(Slot(u), id)
      BY <1>6 DEF Confirm, ConfirmClaim
    <3>2. row'[Slot(u)] # "pending"
      BY <3>1, Zenon DEF SetActive
    <3> QED
      BY <3>2
  <2> QED
    BY <1>6, <2>1 DEF Busy, Confirm, Goto, Return
<1>7. ASSUME Busy(s), NEW u \in Attempts, Rollback(u) PROVE Busy(s)'
  <2>1. s # Slot(u)
    BY <1>7 DEF Rollback, DeleteClaimRows, EraseRows
  <2> QED
    BY <1>7, <2>1 DEF Busy, Rollback, Goto
<1> QED
  BY <1>1, <1>2, <1>3, <1>4, <1>5, <1>6, <1>7 DEF HandlerNext, HandlerStep, LocalStep

LEMMA TurnsHandler ==
    ASSUME TypeOK, TypeOK', OutboxInv, Steady, TurnsInv, OneAtATime',
           HandlerNext, UNCHANGED <<jobVars, envVars>>
    PROVE  TurnsInv'
<1> DEFINE Kept == /\ \A s \in Slots : row[s] = "active" =>
                        pc[s[1]] = "done" /\ today[s[1]] <= lastClaim[tg[s[1]]]
                   /\ \A u \in Attempts : pc[u] \in Live =>
                        tg[u] \in known /\ lastClaim[tg[u]] < today[u] /\ today[u] <= day
                   /\ \A t \in Users : lastClaim[t] <= day
<1>1. (\A s \in Slots : row[s] = "pending" => Busy(s))'
  BY HandlerSettles DEF TurnsInv
<1>2. Kept
  BY DEF TurnsInv
<1>3. /\ pc \in [Attempts -> Places] /\ tg \in [Attempts -> Users] /\ today \in [Attempts -> Int]
      /\ lastClaim \in [Users -> Int] /\ day \in Int /\ today' \in [Attempts -> Int]
      /\ lastClaim' \in [Users -> Int]
  BY DEF TypeOK, HandlerTypeOK, StoreTypeOK, Days, NoDay
<1> USE <1>3, SlotParts DEF Live, Places
<1>4. ASSUME NEW u \in Attempts, NEW t \in Users,
             pc[u] = "idle", lastClaim[t] # day, pc' = [pc EXCEPT ![u] = "select"],
             tg' = [tg EXCEPT ![u] = t], today' = [today EXCEPT ![u] = day],
             known' = known \cup {t}, UNCHANGED <<row, lastClaim, day>>
      PROVE  Kept' /\ OneConfigPerDay'
  <2>1. Kept'
    BY <1>2, <1>4
  <2>2. ~Holds(u)'
    BY <1>2, <1>4, HoldsOf
  <2>3. \A v \in Attempts : Holds(v)' => Holds(v) /\ tg'[v] = tg[v] /\ today'[v] = today[v]
    BY <1>4, <2>2 DEF Holds
  <2> QED
    BY <2>1, <2>3, HoldsNothingNew DEF TurnsInv
<1>5. ASSUME NEW u \in Attempts, pc[u] = "ok", pc' = [pc EXCEPT ![u] = "done"],
             lastClaim' = [lastClaim EXCEPT ![tg[u]] = IF tg[u] \in known THEN today[u] ELSE @],
             \A s \in Slots : s[1] # u => row'[s] = row[s],
             UNCHANGED <<tg, today, known, day>>
      PROVE  Kept' /\ OneConfigPerDay'
  <2>1. lastClaim' = [lastClaim EXCEPT ![tg[u]] = today[u]] /\ lastClaim[tg[u]] < today[u]
    BY <1>2, <1>5
  <2>2. (\A s \in Slots : row[s] = "active" =>
            pc[s[1]] = "done" /\ today[s[1]] <= lastClaim[tg[s[1]]])'
    BY <1>2, <1>5, <2>1
  <2>3. (\A v \in Attempts : pc[v] \in Live =>
            tg[v] \in known /\ lastClaim[tg[v]] < today[v] /\ today[v] <= day)'
    BY <1>2, <1>5, <2>1 DEF TurnsInv, OneAtATime
  <2>4. (\A t \in Users : lastClaim[t] <= day)'
    BY <1>2, <1>5, <2>1
  <2>5. \A v \in Attempts : Holds(v)' => Holds(v) /\ tg'[v] = tg[v] /\ today'[v] = today[v]
    BY <1>5, HoldsOf
  <2> QED
    BY <2>2, <2>3, <2>4, <2>5, HoldsNothingNew DEF TurnsInv
<1>6. ASSUME NEW u \in Attempts, pc[u] = "await", pc' = [pc EXCEPT ![u] = "ok"],
             UNCHANGED <<row, tg, today, known, lastClaim, day>>
      PROVE  Kept' /\ OneConfigPerDay'
  <2>1. Kept'
    BY <1>2, <1>6
  <2>2. \A v \in Attempts \ {u} : Holds(v)' => Holds(v)
    BY <1>6 DEF Holds
  <2>3. \A v \in Attempts \ {u} : Holds(v) /\ tg[v] = tg[u] => today[v] # today[u]
    BY <1>2, <1>6, HoldsOf DEF TurnsInv, OneAtATime
  <2> QED
    BY <1>6, <2>1, <2>2, <2>3 DEF TurnsInv, OneConfigPerDay
<1>7. ASSUME NEW u \in Attempts, NEW q \in Places,
             pc[u] \in Live, q # "ok", pc' = [pc EXCEPT ![u] = q],
             pc[u] = "ok" => "dbError" \in Faults,
             \A s \in Slots : row'[s] = "active" => row[s] = "active",
             UNCHANGED <<tg, today, known, lastClaim, day>>
      PROVE  Kept' /\ OneConfigPerDay'
  <2>1. Kept'
    BY <1>2, <1>7
  <2>2. \A v \in Attempts : Holds(v)' => Holds(v) /\ tg'[v] = tg[v] /\ today'[v] = today[v]
    BY <1>7, HoldsOf
  <2> QED
    BY <2>1, <2>2, HoldsNothingNew DEF TurnsInv
<1>8. ASSUME UNCHANGED <<row, pc, tg, today, known, lastClaim, day>>
      PROVE  Kept' /\ OneConfigPerDay'
  BY <1>2, <1>8 DEF TurnsInv, OneConfigPerDay, Holds
<1>9. Kept' /\ OneConfigPerDay'
  BY <1>4, <1>5, <1>6, <1>7, <1>8, HandlerDays, Zenon
<1> QED
  BY <1>1, <1>9 DEF TurnsInv

\* A step that leaves the handlers alone, activates nothing and moves at most the day.
LEMMA TurnsBystander ==
    ASSUME TypeOK, TypeOK', TurnsInv, UNCHANGED <<handlerVars, lastClaim>>,
           known \subseteq known', day <= day',
           \A s \in Slots : row'[s] # "none" => row'[s] = row[s]
    PROVE  TurnsInv'
<1>1. /\ today \in [Attempts -> Int] /\ lastClaim \in [Users -> Int]
      /\ day \in Int /\ day' \in Int
  BY DEF TypeOK, HandlerTypeOK, StoreTypeOK, Days, NoDay
<1>2. OneAtATime' /\ (\A s \in Slots : row[s] = "pending" => Busy(s))'
  BY DEF TurnsInv, OneAtATime, Busy
<1>3. (\A s \in Slots : row[s] = "active" =>
          pc[s[1]] = "done" /\ today[s[1]] <= lastClaim[tg[s[1]]])'
  BY DEF TurnsInv
<1>4. (\A u \in Attempts : pc[u] \in Live =>
          tg[u] \in known /\ lastClaim[tg[u]] < today[u] /\ today[u] <= day)'
  BY <1>1 DEF TurnsInv
<1>5. (\A t \in Users : lastClaim[t] <= day)'
  BY <1>1 DEF TurnsInv
<1>6. OneConfigPerDay'
  <2>1. \A u \in Attempts : Holds(u)' => Holds(u)
    BY HoldsOf
  <2> QED
    BY <2>1, HoldsNothingNew DEF TurnsInv
<1> QED
  BY <1>2, <1>3, <1>4, <1>5, <1>6 DEF TurnsInv

LEMMA JanitorDays ==
    ASSUME JanitorNext
    PROVE  UNCHANGED <<known, lastClaim, day>>
<1>1. PICK j \in Jobs : ReconcileStart(j) \/ JobStep(j)
  BY DEF JanitorNext
<1>2. CASE \/ ReconcileStart(j) \/ CleanupList(j) \/ Resolved(j) \/ BulkStart(j)
           \/ CleanupEnds(j) \/ BulkDone(j)
  BY <1>2 DEF ReconcileStart, CleanupList, Resolved, BulkStart, CleanupEnds, BulkDone, ChunksEnd
<1>3. ASSUME NEW c \in Slots, ReconcileLook(j, c) \/ Resolve(j, c)
      PROVE  UNCHANGED <<known, lastClaim, day>>
  BY <1>3 DEF ReconcileLook, Resolve
<1>4. ASSUME NEW p \in Panels, PickPanel(j, p) \/ PanelGone(j, p)
      PROVE  UNCHANGED <<known, lastClaim, day>>
  BY <1>4 DEF PickPanel, PanelGone
<1>5. ASSUME NEW C \in Chunks(j), BulkDeletes(j, C) \/ BulkFails(j, C)
      PROVE  UNCHANGED <<known, lastClaim, day>>
  BY <1>5 DEF BulkDeletes, BulkFails, ChunksEnd
<1>6. CASE DropRows(j) \/ ReconcileAct(j)
  BY <1>6 DEF DropRows, ReconcileAct, Judge, DeleteClaimRows, MarkClaimActive
<1> QED
  BY <1>1, <1>2, <1>3, <1>4, <1>5, <1>6 DEF JobStep

\* The reconciliation finds nothing to activate: a pending row that grew old belongs to
\* a handler that has not sent its request yet.
LEMMA JanitorActivatesNothing ==
    ASSUME TypeOK, OutboxInv, TurnsInv, JanitorNext, UNCHANGED <<handlerVars, envVars>>,
           NEW s \in Slots, row'[s] # "none"
    PROVE  row'[s] = row[s]
<1>1. \/ row'[s] = row[s]
      \/ Inert(s) /\ row[s] # "none" /\ row'[s] = "active" /\ s \in puser
  BY JanitorRuns DEF RunStep, JobFrame
<1>2. ~(row[s] = "pending" /\ Inert(s) /\ s \in puser)
  BY DEF TurnsInv, Inert, OutboxInv, HandlersKnow, BusyKnows
<1> QED
  BY <1>1, <1>2 DEF TypeOK, StoreTypeOK

LEMMA TurnsNext ==
    ASSUME TypeOK, TypeOK', OutboxInv, Steady, TurnsInv, [Next /\ OneAtATime']_vars
    PROVE  TurnsInv'
<1>1. CASE HandlerNext /\ UNCHANGED <<jobVars, envVars>> /\ OneAtATime'
  BY <1>1, TurnsHandler
<1>2. CASE JanitorNext /\ UNCHANGED <<handlerVars, envVars>>
  BY <1>2, JanitorDays, JanitorActivatesNothing, TurnsBystander DEF TypeOK, StoreTypeOK, Days
<1>3. CASE \/ \E s \in Slots : GrowOld(s) \/ Expire(s)
           \/ MidnightReset \/ UNCHANGED vars \/ \E t \in Users : Register(t)
           \/ \E p \in Panels : AddPanel(p) \/ TogglePanel(p) \/ DeletePanel(p)
  <2>1. UNCHANGED <<row, handlerVars, lastClaim, day>> /\ known \subseteq known'
    BY <1>3 DEF GrowOld, Expire, MidnightReset, Register, AddPanel, TogglePanel, DeletePanel,
       SetPanel
  <2> QED
    BY <2>1, TurnsBystander DEF TypeOK, StoreTypeOK, Days
<1>4. CASE NewDay
  BY <1>4, TurnsBystander DEF NewDay, TypeOK, StoreTypeOK, Days
<1>5. ~Crash /\ \A t \in Users : ~DeleteUserFull(t)
  BY DEF Crash, DeleteUserFull, Steady
<1> QED
  BY <1>1, <1>2, <1>3, <1>4, <1>5 DEF Next, Quiet, Admin

LEMMA InitTurns == Init => TurnsInv
<1> SUFFICES ASSUME Init PROVE TurnsInv
  OBVIOUS
<1>1. \A u \in Attempts : pc[u] = "idle" /\ ~Holds(u)
  BY HoldsOf, SlotParts DEF Init, HandlerInit, StoreInit
<1> QED
  BY <1>1, SlotParts DEF Init, HandlerInit, StoreInit, TurnsInv, OneAtATime, OneConfigPerDay,
     Live, NoDay

\* TurnsInv: with a user's updates in turn, a row is pending only while its handler
\* runs, and last_claim_date (stats.go:43) accounts for every active row.
THEOREM TurnsInvariant ==
    ASSUME Steady
    PROVE  TurnsSpec => []TurnsInv
<1>1. [Next /\ OneAtATime']_vars => [Next]_vars
  OBVIOUS
<1>2. TurnsSpec => Spec
  BY <1>1, PTL DEF TurnsSpec, Spec
<1>3. IInv /\ IInv' /\ TurnsInv /\ [Next /\ OneAtATime']_vars => TurnsInv'
  BY TurnsNext DEF IInv
<1> QED
  BY <1>2, <1>3, InitTurns, Inductive, PTL DEF TurnsSpec

\* Were the updates of one user handled in turn, nobody could get two configs of one
\* day (schema.sql:18), whatever is lost, out of reach or unreadable, and although the
\* daily check (claim.go:45) and the confirmation (claim.go:179) are far apart.
THEOREM DailyWhenInTurn ==
    ASSUME Steady
    PROVE  TurnsSpec => []OneConfigPerDay
<1>1. TurnsInv => OneConfigPerDay
  BY DEF TurnsInv
<1> QED
  BY <1>1, TurnsInvariant, PTL
=============================================================================
