--------------------------- MODULE ClaimSystem_proofs ---------------------------
EXTENDS ClaimInv, TLAPS

USE DEF storeVars, claimRows, userRows, panelRows, clock, panelVars, handlerVars,
        jobVars, envVars, vars

(***************************************************************************)
(* Type correctness.                                                       *)
(***************************************************************************)

EnvTypeOK ==
    /\ midnight \in {"due", "over"}
    /\ crashes \in 0 .. MaxCrashes
    /\ excused \in SUBSET Slots

LEMMA TypeSplit ==
    TypeOK <=> StoreTypeOK /\ PanelTypeOK /\ HandlerTypeOK /\ JobTypeOK /\ EnvTypeOK
BY DEF TypeOK, EnvTypeOK

LEMMA NoUsageType == NoUsage \in [Panels -> Nat]
BY DEF NoUsage

LEMMA RowsType ==
    ASSUME NEW S, NEW R \in Rows(S)
    PROVE  R \subseteq S
BY DEF Rows

LEMMA InitType == Init => TypeOK
<1> SUFFICES ASSUME Init PROVE TypeOK
  OBVIOUS
<1> USE StoreAssumption, HandlerAssumption, CrashAssumption DEF Init
<1>1. StoreTypeOK
  BY DEF StoreInit, StoreTypeOK, Days, NoDay, Slots
<1>2. PanelTypeOK
  BY DEF PanelInit, PanelTypeOK
<1>3. HandlerTypeOK
  BY NoUsageType DEF HandlerInit, HandlerTypeOK, Places, Days
<1>4. JobTypeOK
  BY DEF JobInit, JobTypeOK, JobPlaces, Nothing
<1>5. EnvTypeOK
  BY DEF EnvTypeOK
<1> QED
  BY <1>1, <1>2, <1>3, <1>4, <1>5, TypeSplit

CoreTypeOK == StoreTypeOK /\ PanelTypeOK /\ HandlerTypeOK

LEMMA HandlerType ==
    ASSUME TypeOK, HandlerNext
    PROVE  CoreTypeOK'
<1> USE StoreAssumption, HandlerAssumption, NoUsageType
    DEF TypeOK, CoreTypeOK, StoreTypeOK, PanelTypeOK, HandlerTypeOK, Places, Goto,
        Slot, Return
<1>1. ASSUME NEW u \in Attempts, NEW t \in Users, StartClaim(u, t) PROVE CoreTypeOK'
  BY <1>1 DEF StartClaim
<1>2. ASSUME NEW u \in Attempts, SelectPanels(u) PROVE CoreTypeOK'
  <2>1. PanelsForVolume \in SUBSET Panels
    BY DEF PanelsForVolume
  <2>2. UNCHANGED <<storeVars, panelVars, tg, today, cur, reply, tries>>
    BY <1>2 DEF SelectPanels
  <2>3. CASE Return(u)
    BY <2>2, <2>3
  <2>4. ASSUME left' = [left EXCEPT ![u] = PanelsForVolume],
               seen' = [seen EXCEPT ![u] = used], Goto(u, "choose")
        PROVE  CoreTypeOK'
    BY <2>1, <2>2, <2>4
  <2> QED
    BY <1>2, <2>3, <2>4 DEF SelectPanels
<1>3. ASSUME NEW u \in Attempts, InsertPending(u) PROVE CoreTypeOK'
  BY <1>3 DEF InsertPending, InsertPendingClaim, LeastUsed, Slots
<1>4. ASSUME NEW u \in Attempts, InsertFails(u) PROVE CoreTypeOK'
  BY <1>4 DEF InsertFails
<1>5. ASSUME NEW u \in Attempts, NoPanelLeft(u) PROVE CoreTypeOK'
  BY <1>5 DEF NoPanelLeft
<1>6. ASSUME NEW u \in Attempts, SendCreate(u) PROVE CoreTypeOK'
  BY <1>6 DEF SendCreate, Acquire, Slots
<1>7. ASSUME NEW u \in Attempts, CreateExpired(u) PROVE CoreTypeOK'
  BY <1>7 DEF CreateExpired
<1>8. ASSUME NEW u \in Attempts, Resend(u) PROVE CoreTypeOK'
  BY <1>8 DEF Resend, MayRetry, Slots
<1>9. ASSUME NEW u \in Attempts, CreateReturns(u) PROVE CoreTypeOK'
  <2>1. (pc \in [Attempts -> Places])'
    BY <1>9, SMTT(30) DEF CreateReturns
  <2>2. (lock \in [Panels -> {"free", "handler", "cleanup"}])'
    BY <1>9 DEF CreateReturns, Release
  <2>3. (reply \in [Attempts -> {"none", "ok", "fail", "neterr"}])'
    BY <1>9 DEF CreateReturns
  <2>4. (tries \in [Attempts -> 0 .. MaxTries])'
    BY <1>9 DEF CreateReturns
  <2>5. UNCHANGED <<storeVars, puser, wire, tg, today, left, seen, cur>>
    BY <1>9 DEF CreateReturns
  <2> QED
    BY <2>1, <2>2, <2>3, <2>4, <2>5
<1>10. ASSUME NEW u \in Attempts, Confirm(u) PROVE CoreTypeOK'
  <2>1. PICK id \in {0, 1} : ConfirmClaim(Slot(u), tg[u], today[u], id)
    BY <1>10 DEF Confirm
  <2>2. Slot(u) \in Slots /\ Slot(u)[2] \in Panels
    BY DEF Slots
  <2>3. (row \in [Slots -> {"none", "pending", "active"}] /\ cachedId \in SUBSET Slots)'
    BY <2>1, <2>2 DEF ConfirmClaim, SetActive
  <2>4. (lastClaim \in [Users -> Days \cup {NoDay}])'
    BY <2>1 DEF ConfirmClaim
  <2>5. (used \in [Panels -> Nat])'
    BY <2>1, <2>2 DEF ConfirmClaim
  <2>6. HandlerTypeOK' /\ PanelTypeOK'
    BY <1>10 DEF Confirm
  <2>7. UNCHANGED <<born, known, pstate, day, old, expired>>
    BY <1>10, <2>1 DEF Confirm, ConfirmClaim
  <2> QED
    BY <2>3, <2>4, <2>5, <2>6, <2>7
<1>11. ASSUME NEW u \in Attempts, ConfirmFails(u) PROVE CoreTypeOK'
  BY <1>11 DEF ConfirmFails
<1>12. ASSUME NEW u \in Attempts, Rollback(u) PROVE CoreTypeOK'
  BY <1>12 DEF Rollback, DeleteClaimRows, EraseRows
<1>13. ASSUME NEW u \in Attempts, RollbackFails(u) PROVE CoreTypeOK'
  BY <1>13 DEF RollbackFails
<1>14. ASSUME NEW s \in Slots, PanelCreates(s) PROVE CoreTypeOK'
  BY <1>14 DEF PanelCreates, Answer, Slots
<1>15. ASSUME NEW s \in Slots, PanelRefuses(s) PROVE CoreTypeOK'
  BY <1>15, ZenonT(40) DEF PanelRefuses, Answer, Slots
<1>16. ASSUME NEW s \in Slots, RequestTimesOut(s) PROVE CoreTypeOK'
  BY <1>16 DEF RequestTimesOut, Answer, Slots
<1>17. ASSUME NEW u \in Attempts, GateRefuses(u) PROVE CoreTypeOK'
  BY <1>17 DEF GateRefuses
<1> QED
  BY <1>1, <1>2, <1>3, <1>4, <1>5, <1>6, <1>7, <1>8, <1>9, <1>10, <1>11, <1>12,
     <1>13, <1>14, <1>15, <1>16, <1>17 DEF HandlerNext, HandlerStep, Network

StoreJobTypeOK == StoreTypeOK /\ PanelTypeOK /\ JobTypeOK

LEMMA JanitorType ==
    ASSUME TypeOK, JanitorNext
    PROVE  StoreJobTypeOK'
<1> USE StoreAssumption, JobAssumption
    DEF TypeOK, StoreJobTypeOK, StoreTypeOK, PanelTypeOK, JobTypeOK, JobPlaces, JobGoto
<1>1. ASSUME NEW j \in Jobs, ReconcileStart(j) PROVE StoreJobTypeOK'
  <2>1. PICK found \in Rows(PendingClaimsOlderThan) : jtodo' = [jtodo EXCEPT ![j] = found]
    BY <1>1 DEF ReconcileStart
  <2>2. found \in SUBSET Slots
    BY RowsType DEF PendingClaimsOlderThan
  <2> QED
    BY <1>1, <2>1, <2>2 DEF ReconcileStart
<1>2. ASSUME NEW j \in Jobs, NEW s \in Slots, ReconcileLook(j, s) PROVE StoreJobTypeOK'
  BY <1>2 DEF ReconcileLook
<1>3. ASSUME NEW j \in Jobs, ReconcileAct(j) PROVE StoreJobTypeOK'
  BY <1>3 DEF ReconcileAct, Judge, DeleteClaimRows, EraseRows, MarkClaimActive, SetActive
<1>4. ASSUME NEW j \in Jobs, CleanupList(j) PROVE StoreJobTypeOK'
  <2>1. PICK olds \in Rows(ExpiredConfigs) :
          /\ jids' = [jids EXCEPT ![j] = olds \cap cachedId]
          /\ jneed' = [jneed EXCEPT ![j] = olds \ cachedId]
    BY <1>4 DEF CleanupList
  <2>2. olds \in SUBSET Slots
    BY RowsType DEF ExpiredConfigs
  <2> QED
    BY <1>4, <2>1, <2>2 DEF CleanupList
<1>5. ASSUME NEW j \in Jobs, NEW p \in Panels, PickPanel(j, p) PROVE StoreJobTypeOK'
  BY <1>5 DEF PickPanel
<1>6. ASSUME NEW j \in Jobs, NEW p \in Panels, PanelGone(j, p) PROVE StoreJobTypeOK'
  BY <1>6 DEF PanelGone, Listed
<1>7. ASSUME NEW j \in Jobs, NEW s \in Slots, Resolve(j, s) PROVE StoreJobTypeOK'
  BY <1>7 DEF Resolve
<1>8. ASSUME NEW j \in Jobs, Resolved(j) PROVE StoreJobTypeOK'
  BY <1>8 DEF Resolved
<1>9. ASSUME NEW j \in Jobs, BulkStart(j) PROVE StoreJobTypeOK'
  BY <1>9 DEF BulkStart, Acquire
<1>10. ASSUME NEW j \in Jobs, NEW C \in Chunks(j), BulkDeletes(j, C) PROVE StoreJobTypeOK'
  BY <1>10 DEF BulkDeletes, Release
<1>11. ASSUME NEW j \in Jobs, NEW C \in Chunks(j), BulkFails(j, C) PROVE StoreJobTypeOK'
  <2>1. PICK gone \in SUBSET C : puser' = puser \ gone
    BY <1>11 DEF BulkFails
  <2> QED
    BY <1>11, <2>1 DEF BulkFails, ChunksEnd, RowsToDrop, Release
<1>12. ASSUME NEW j \in Jobs, BulkDone(j) PROVE StoreJobTypeOK'
  BY <1>12 DEF BulkDone, ChunksEnd, RowsToDrop
<1>13. ASSUME NEW j \in Jobs, DropRows(j) PROVE StoreJobTypeOK'
  BY <1>13 DEF DropRows, DeleteClaimRows, EraseRows
<1>14. ASSUME NEW j \in Jobs, CleanupEnds(j) PROVE StoreJobTypeOK'
  BY <1>14 DEF CleanupEnds
<1> QED
  BY <1>1, <1>2, <1>3, <1>4, <1>5, <1>6, <1>7, <1>8, <1>9, <1>10, <1>11, <1>12,
     <1>13, <1>14 DEF JanitorNext, JobStep

LEMMA NextType == TypeOK /\ [Next]_vars => TypeOK'
<1> SUFFICES ASSUME TypeOK, [Next]_vars PROVE TypeOK'
  OBVIOUS
<1> USE StoreAssumption, CrashAssumption
<1>1. CASE HandlerNext /\ UNCHANGED <<jobVars, envVars>>
  <2>1. CoreTypeOK'
    BY <1>1, HandlerType
  <2>2. JobTypeOK' /\ EnvTypeOK'
    BY <1>1, TypeSplit DEF JobTypeOK, EnvTypeOK
  <2> QED
    BY <2>1, <2>2, TypeSplit DEF CoreTypeOK, TypeOK, EnvTypeOK
<1>2. CASE JanitorNext /\ UNCHANGED <<handlerVars, envVars>>
  <2>1. StoreJobTypeOK'
    BY <1>2, JanitorType
  <2>2. HandlerTypeOK' /\ EnvTypeOK'
    BY <1>2, TypeSplit DEF HandlerTypeOK, EnvTypeOK
  <2> QED
    BY <2>1, <2>2 DEF StoreJobTypeOK, TypeOK, EnvTypeOK
<1>3. ASSUME NEW s \in Slots, GrowOld(s) \/ Expire(s) PROVE TypeOK'
  BY <1>3 DEF GrowOld, Expire, TypeOK, StoreTypeOK, PanelTypeOK, HandlerTypeOK, JobTypeOK
<1>4. CASE NewDay
  BY <1>4 DEF NewDay, TypeOK, StoreTypeOK, PanelTypeOK, HandlerTypeOK, JobTypeOK, Days
<1>5. CASE MidnightReset
  BY <1>5 DEF MidnightReset, ResetPanelUsage, TypeOK, StoreTypeOK, PanelTypeOK,
              HandlerTypeOK, JobTypeOK
<1>6. CASE Crash
  <2> USE <1>6 DEF Crash, TypeOK
  <2>1. StoreTypeOK' /\ PanelTypeOK'
    BY DEF StoreTypeOK, PanelTypeOK
  <2>2. HandlerTypeOK'
    BY NoUsageType, HandlerAssumption DEF HandlerTypeOK, Places, Live
  <2>3. JobTypeOK'
    BY DEF JobTypeOK, JobPlaces, Nothing
  <2>4. EnvTypeOK'
    BY DEF EnvTypeOK
  <2> QED
    BY <2>1, <2>2, <2>3, <2>4 DEF EnvTypeOK
<1>7. CASE Admin
  <2> USE DEF TypeOK, StoreTypeOK, PanelTypeOK, HandlerTypeOK, JobTypeOK
  <2>1. ASSUME NEW p \in Panels, AddPanel(p) PROVE TypeOK'
    BY <2>1 DEF AddPanel, SetPanel
  <2>2. ASSUME NEW p \in Panels, TogglePanel(p) PROVE TypeOK'
    BY <2>2 DEF TogglePanel, SetPanel
  <2>3. ASSUME NEW p \in Panels, DeletePanel(p) PROVE TypeOK'
    BY <2>3 DEF DeletePanel, SetPanel
  <2>4. ASSUME NEW t \in Users, DeleteUserFull(t) PROVE TypeOK'
    BY <2>4 DEF DeleteUserFull, ClaimsOf, EraseRows
  <2> QED
    BY <1>7, <2>1, <2>2, <2>3, <2>4 DEF Admin
<1>8. CASE UNCHANGED vars \/ \E t \in Users : Register(t)
  BY <1>8 DEF Register, TypeOK, StoreTypeOK, PanelTypeOK, HandlerTypeOK, JobTypeOK
<1> QED
  BY <1>1, <1>2, <1>3, <1>4, <1>5, <1>6, <1>7, <1>8 DEF Next, Quiet

\* Every reachable state is well typed: all rows, requests, locals of handlers and
\* jobs keep to their domains, and Client.do never sends more than MaxTries requests.
THEOREM TypeCorrect == Spec => []TypeOK
<1>1. Init => TypeOK
  BY InitType
<1>2. TypeOK /\ [Next]_vars => TypeOK'
  BY NextType
<1> QED
  BY <1>1, <1>2, PTL DEF Spec
=============================================================================
