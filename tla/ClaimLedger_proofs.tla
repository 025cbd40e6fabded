--------------------------- MODULE ClaimLedger_proofs ---------------------------
(***************************************************************************)
(* The outbox implements the ledger: under LedgerEntry every step of the   *)
(* handlers, of the cleanup job, of time and of the administrators is one  *)
(* step of ConfigLedger or a stutter.                                      *)
(***************************************************************************)
EXTENDS ClaimOutbox_proofs

USE DEF storeVars, claimRows, userRows, panelRows, clock, panelVars, handlerVars,
        jobVars, envVars, vars

LedgerStep == [Ledger!LedgerNext]_(Ledger!ledger)

(***************************************************************************)
(* How a change of rows, panel users, write-offs shows in the ledger.      *)
(***************************************************************************)

WrittenOff(s) == s \in excused \/ PanelDeleted(s)

LEMMA EntryAt ==
    ASSUME NEW s \in Slots
    PROVE  LedgerEntry[s] = IF WrittenOff(s) THEN "writtenoff"
                            ELSE IF row[s] = "none" THEN "free"
                            ELSE IF row[s] = "pending" THEN "reserved" ELSE "held"
BY DEF LedgerEntry, WrittenOff

LEMMA SameEntries ==
    ASSUME UNCHANGED row, \A s \in Slots : WrittenOff(s)' <=> WrittenOff(s)
    PROVE  LedgerEntry' = LedgerEntry
BY DEF LedgerEntry, WrittenOff

LEMMA Stutter ==
    ASSUME UNCHANGED <<row, puser>>, \A s \in Slots : WrittenOff(s)' <=> WrittenOff(s)
    PROVE  LedgerStep
BY SameEntries DEF LedgerStep, Ledger!ledger

LEMMA ReserveStep ==
    ASSUME TypeOK, NEW s \in Slots, row[s] = "none", row' = [row EXCEPT ![s] = "pending"],
           UNCHANGED <<puser, excused, pstate>>
    PROVE  LedgerStep
<1>1. row \in [Slots -> {"none", "pending", "active"}]
  BY DEF TypeOK, StoreTypeOK
<1>2. \A c \in Slots : WrittenOff(c)' <=> WrittenOff(c)
  BY DEF WrittenOff, PanelDeleted
<1>3. CASE WrittenOff(s)
  <2>1. LedgerEntry' = LedgerEntry
    BY <1>1, <1>2, <1>3 DEF LedgerEntry, WrittenOff
  <2> QED
    BY <2>1 DEF LedgerStep, Ledger!ledger
<1>4. CASE ~WrittenOff(s)
  <2>1. LedgerEntry' = [LedgerEntry EXCEPT ![s] = "reserved"]
    BY <1>1, <1>2, <1>4 DEF LedgerEntry, WrittenOff
  <2>2. Ledger!Reserve(s)
    BY <1>4, <2>1, EntryAt DEF Ledger!Reserve
  <2> QED
    BY <2>2 DEF LedgerStep, Ledger!LedgerNext
<1> QED
  BY <1>3, <1>4

LEMMA ActivateStep ==
    ASSUME TypeOK, NEW s \in Slots, row[s] # "none", row[s] = "pending" => s \in puser,
           row' = [row EXCEPT ![s] = "active"], UNCHANGED <<puser, excused, pstate>>
    PROVE  LedgerStep
<1>1. row \in [Slots -> {"none", "pending", "active"}]
  BY DEF TypeOK, StoreTypeOK
<1>2. \A c \in Slots : WrittenOff(c)' <=> WrittenOff(c)
  BY DEF WrittenOff, PanelDeleted
<1>3. CASE WrittenOff(s) \/ row[s] = "active"
  <2>1. LedgerEntry' = LedgerEntry
    BY <1>1, <1>2, <1>3 DEF LedgerEntry, WrittenOff
  <2> QED
    BY <2>1 DEF LedgerStep, Ledger!ledger
<1>4. CASE ~WrittenOff(s) /\ row[s] = "pending"
  <2>1. LedgerEntry' = [LedgerEntry EXCEPT ![s] = "held"]
    BY <1>1, <1>2, <1>4 DEF LedgerEntry, WrittenOff
  <2>2. Ledger!Activate(s)
    BY <1>4, <2>1, EntryAt DEF Ledger!Activate
  <2> QED
    BY <2>2 DEF LedgerStep, Ledger!LedgerNext
<1> QED
  BY <1>1, <1>3, <1>4

LEMMA CreateStep ==
    ASSUME NEW s \in Slots, row[s] = "pending" \/ s \in excused,
           puser' = puser \cup {s}, UNCHANGED <<row, excused, pstate>>
    PROVE  LedgerStep
<1>1. LedgerEntry' = LedgerEntry
  BY SameEntries DEF WrittenOff, PanelDeleted
<1>2. LedgerEntry[s] \in {"reserved", "writtenoff"}
  BY EntryAt DEF WrittenOff
<1>3. Ledger!Create(s)
  BY <1>1, <1>2 DEF Ledger!Create
<1> QED
  BY <1>3 DEF LedgerStep, Ledger!LedgerNext

LEMMA RevokeStep ==
    ASSUME TypeOK, NoOrphan, puser' \subseteq puser,
           \A s \in puser \ puser' : row[s] # "pending", UNCHANGED <<row, excused, pstate>>
    PROVE  LedgerStep
<1> DEFINE S == puser \ puser'
<1>1. LedgerEntry' = LedgerEntry
  BY SameEntries DEF WrittenOff, PanelDeleted
<1>2. S \subseteq Slots /\ puser' = puser \ S
  BY DEF TypeOK, PanelTypeOK
<1>3. \A s \in S : LedgerEntry[s] \in {"held", "writtenoff"}
  BY <1>2, EntryAt DEF NoOrphan, WrittenOff
<1>4. Ledger!Revoke(S)
  BY <1>1, <1>2, <1>3 DEF Ledger!Revoke
<1> QED
  BY <1>2, <1>4 DEF LedgerStep, Ledger!LedgerNext

LEMMA ReleaseStep ==
    ASSUME TypeOK, TypeOK', UNCHANGED <<puser, excused, pstate>>,
           \A s \in Slots : \/ row'[s] = row[s]
                            \/ row'[s] = "none" /\ (s \notin puser \/ PanelDeleted(s))
    PROVE  LedgerStep
<1> DEFINE S == {s \in Slots : row'[s] # row[s] /\ ~WrittenOff(s)}
<1>1. \A s \in Slots : WrittenOff(s)' <=> WrittenOff(s)
  BY DEF WrittenOff, PanelDeleted
<1>2. /\ row \in [Slots -> {"none", "pending", "active"}]
      /\ row' \in [Slots -> {"none", "pending", "active"}]
  BY DEF TypeOK, StoreTypeOK
<1>3. \A s \in S : LedgerEntry[s] \in {"reserved", "held"} /\ s \notin puser
  BY <1>2, EntryAt DEF WrittenOff
<1>4. LedgerEntry' = [s \in Slots |-> IF s \in S THEN "free" ELSE LedgerEntry[s]]
  BY <1>1, <1>2 DEF LedgerEntry, WrittenOff
<1>5. Ledger!Release(S)
  BY <1>3, <1>4 DEF Ledger!Release
<1> QED
  BY <1>5 DEF LedgerStep, Ledger!LedgerNext

LEMMA WriteOffStep ==
    ASSUME NEW S \in SUBSET Slots, UNCHANGED puser,
           \A s \in Slots : WrittenOff(s)' <=> WrittenOff(s) \/ s \in S,
           \A s \in Slots \ S : row'[s] = row[s]
    PROVE  LedgerStep
<1>1. LedgerEntry' = [s \in Slots |-> IF s \in S THEN "writtenoff" ELSE LedgerEntry[s]]
  BY DEF LedgerEntry, WrittenOff
<1>2. Ledger!WriteOff(S)
  BY <1>1 DEF Ledger!WriteOff
<1> QED
  BY <1>2 DEF LedgerStep, Ledger!LedgerNext

(***************************************************************************)
(* The actors.                                                             *)
(***************************************************************************)

LEMMA HandlerLedger ==
    ASSUME TypeOK, TypeOK', HandlersKnow, Reliable, HandlerNext, UNCHANGED <<jobVars, envVars>>
    PROVE  LedgerStep
<1>1. ASSUME UNCHANGED <<row, puser, pstate>> PROVE LedgerStep
  BY <1>1, Stutter DEF WrittenOff, PanelDeleted
<1>2. ASSUME NEW u \in Attempts, LocalStep(u) PROVE LedgerStep
  BY <1>1, <1>2, LocalEffects DEF LocalEffect
<1>3. ASSUME NEW u \in Attempts, SendCreate(u) \/ Resend(u) \/ CreateReturns(u) PROVE LedgerStep
  BY <1>1, <1>3 DEF SendCreate, Resend, CreateReturns
<1>4. ASSUME NEW u \in Attempts, InsertPending(u) PROVE LedgerStep
  <2>1. PICK p \in LeastUsed(u) : InsertPendingClaim(<<u, p>>)
    BY <1>4 DEF InsertPending
  <2>2. p \in left[u] /\ left[u] \subseteq Panels
    BY <2>1 DEF LeastUsed, TypeOK, HandlerTypeOK
  <2>3. <<u, p>> \in Slots /\ Fresh(<<u, p>>)
    BY <2>2 DEF Slots, Fresh
  <2>4. row[<<u, p>>] = "none"
    BY <2>3 DEF HandlersKnow, FreshClean
  <2> QED
    BY <1>4, <2>1, <2>3, <2>4, ReserveStep DEF InsertPending, InsertPendingClaim
<1>5. ASSUME NEW u \in Attempts, Confirm(u) PROVE LedgerStep
  <2>1. /\ pc[u] = "ok" /\ UNCHANGED <<puser, pstate>>
        /\ \E id \in {0, 1} : SetActive(Slot(u), id)
    BY <1>5 DEF Confirm, ConfirmClaim
  <2>2. Slot(u) \in Slots /\ Busy(Slot(u)) /\ Slot(u)[1] = u
    BY <2>1, SlotOf DEF Busy
  <2>3. Slot(u) \in puser
    BY <2>1, <2>2 DEF HandlersKnow, BusyKnows
  <2>4. CASE UNCHANGED row
    BY <1>1, <2>1, <2>4
  <2>5. CASE row[Slot(u)] # "none" /\ row' = [row EXCEPT ![Slot(u)] = "active"]
    BY <2>1, <2>2, <2>3, <2>5, ActivateStep
  <2> QED
    BY <2>1, <2>4, <2>5 DEF SetActive
<1>6. ASSUME NEW u \in Attempts, Rollback(u) PROVE LedgerStep
  <2>1. /\ pc[u] = "failed" /\ UNCHANGED <<puser, pstate>>
        /\ row' = [s \in Slots |-> IF s \in {Slot(u)} THEN "none" ELSE row[s]]
    BY <1>6 DEF Rollback, DeleteClaimRows, EraseRows
  <2>2. Slot(u) \in Slots /\ Busy(Slot(u)) /\ Slot(u)[1] = u
    BY <2>1, SlotOf DEF Busy
  <2>3. Slot(u) \notin puser
    BY <2>1, <2>2 DEF HandlersKnow, Reliable, Told, ToldKnows
  <2> QED
    BY <2>1, <2>3, ReleaseStep
<1>7. ASSUME NEW s \in Slots, PanelCreates(s) PROVE LedgerStep
  <2>1. /\ s \in wire /\ puser' = puser \cup {s} /\ UNCHANGED <<row, excused, pstate>>
    BY <1>7 DEF PanelCreates
  <2>2. row[s] = "pending" \/ s \in excused
    BY <2>1 DEF HandlersKnow, Reliable, Told, ToldKnows, ActiveInert, Inert, TypeOK, StoreTypeOK,
       PanelTypeOK
  <2> QED
    BY <2>1, <2>2, CreateStep
<1>8. ASSUME NEW s \in Slots, PanelRefuses(s) \/ RequestTimesOut(s) PROVE LedgerStep
  BY <1>1, <1>8 DEF PanelRefuses, RequestTimesOut
<1> QED
  BY <1>2, <1>3, <1>4, <1>5, <1>6, <1>7, <1>8 DEF HandlerNext, HandlerStep, Network, LocalStep

\* The rows a run of the job changes: it erases some, or activates one it has found.
LEMMA JobRows ==
    ASSUME TypeOK, JanitorNext
    PROVE  \/ \A s \in Slots : row'[s] \in {row[s], "none"}
           \/ \E s \in Slots : row[s] # "none" /\ row' = [row EXCEPT ![s] = "active"]
<1>1. ASSUME NEW S PROVE EraseRows(S) => \A s \in Slots : row'[s] \in {row[s], "none"}
  BY DEF EraseRows
<1>2. ASSUME NEW j \in Jobs, ReconcileAct(j)
      PROVE  \/ \A s \in Slots : row'[s] \in {row[s], "none"}
             \/ \E s \in Slots : row[s] # "none" /\ row' = [row EXCEPT ![s] = "active"]
  <2>1. jhit[j] \subseteq Slots
    BY JobTypesOf DEF JobTypes
  <2> QED
    BY <1>1, <1>2, <2>1 DEF ReconcileAct, Judge, DeleteClaimRows, MarkClaimActive, SetActive
<1>3. ASSUME NEW j \in Jobs, DropRows(j) PROVE \A s \in Slots : row'[s] \in {row[s], "none"}
  BY <1>1, <1>3 DEF DropRows, DeleteClaimRows
<1>4. ASSUME NEW j \in Jobs,
             ReconcileStart(j) \/ CleanupList(j) \/ Resolved(j) \/ BulkStart(j) \/ CleanupEnds(j)
      PROVE  UNCHANGED row
  BY <1>4 DEF ReconcileStart, CleanupList, Resolved, BulkStart, CleanupEnds
<1>5. ASSUME NEW j \in Jobs, NEW s \in Slots, ReconcileLook(j, s) \/ Resolve(j, s)
      PROVE  UNCHANGED row
  BY <1>5 DEF ReconcileLook, Resolve
<1>6. ASSUME NEW j \in Jobs, NEW p \in Panels, PickPanel(j, p) \/ PanelGone(j, p)
      PROVE  UNCHANGED row
  BY <1>6 DEF PickPanel, PanelGone
<1>7. ASSUME NEW j \in Jobs, NEW C \in Chunks(j), BulkDeletes(j, C) \/ BulkFails(j, C)
      PROVE  UNCHANGED row
  BY <1>7 DEF BulkDeletes, BulkFails, ChunksEnd
<1>8. ASSUME NEW j \in Jobs, BulkDone(j) PROVE UNCHANGED row
  BY <1>8 DEF BulkDone, ChunksEnd
<1> QED
  BY <1>2, <1>3, <1>4, <1>5, <1>6, <1>7, <1>8 DEF JanitorNext, JobStep

LEMMA JanitorLedger ==
    ASSUME TypeOK, TypeOK', OutboxInv, Reliable, JanitorNext, UNCHANGED <<handlerVars, envVars>>
    PROVE  LedgerStep
<1>1. JobFrame
  BY JanitorRuns DEF RunStep
<1>2. CASE row' = row
  BY <1>1, <1>2, RevokeStep DEF JobFrame, OutboxInv, HandlersKnow
<1>3. CASE row' # row /\ \A s \in Slots : row'[s] \in {row[s], "none"}
  <2>1. UNCHANGED <<puser, excused, pstate>>
    BY <1>1, <1>3 DEF JobFrame
  <2>2. \A s \in Slots : \/ row'[s] = row[s]
                         \/ row'[s] = "none" /\ (s \notin puser \/ PanelDeleted(s))
    BY <1>1, <1>3 DEF JobFrame
  <2> QED
    BY <2>1, <2>2, ReleaseStep
<1>4. ASSUME row' # row, NEW s \in Slots, row[s] # "none", row' = [row EXCEPT ![s] = "active"]
      PROVE  LedgerStep
  <2>1. row'[s] = "active" /\ UNCHANGED <<puser, excused, pstate>>
    BY <1>1, <1>4 DEF JobFrame, TypeOK, StoreTypeOK
  <2>2. row[s] = "pending" => s \in puser
    BY <1>1, <2>1 DEF JobFrame
  <2> QED
    BY <1>4, <2>1, <2>2, ActivateStep
<1> QED
  BY <1>2, <1>3, <1>4, JobRows

LEMMA AdminLedger ==
    ASSUME TypeOK, Admin
    PROVE  LedgerStep
<1>1. ASSUME NEW p \in Panels, AddPanel(p) \/ TogglePanel(p) PROVE LedgerStep
  <2>1. \A q \in Panels : pstate'[q] = "deleted" <=> pstate[q] = "deleted"
    BY <1>1 DEF AddPanel, TogglePanel, SetPanel, PanelExists, TypeOK, StoreTypeOK
  <2>2. UNCHANGED <<row, puser, excused>>
    BY <1>1 DEF AddPanel, TogglePanel, SetPanel
  <2> QED
    BY <2>1, <2>2, SlotParts, Stutter DEF WrittenOff, PanelDeleted
<1>2. ASSUME NEW p \in Panels, DeletePanel(p) PROVE LedgerStep
  <2>1. UNCHANGED <<row, puser, excused>> /\ pstate' = [pstate EXCEPT ![p] = "deleted"]
    BY <1>2 DEF DeletePanel, SetPanel
  <2>2. \A q \in Panels : pstate'[q] = IF q = p THEN "deleted" ELSE pstate[q]
    BY <2>1 DEF TypeOK, StoreTypeOK
  <2>3. \A s \in Slots : WrittenOff(s)' <=> WrittenOff(s) \/ s \in {c \in Slots : c[2] = p}
    BY <2>1, <2>2, SlotParts DEF WrittenOff, PanelDeleted
  <2> QED
    BY <2>1, <2>3, WriteOffStep
<1>3. ASSUME NEW t \in Users, DeleteUserFull(t) PROVE LedgerStep
  <2>1. /\ UNCHANGED <<puser, pstate>> /\ excused' = excused \cup ClaimsOf(t)
        /\ row' = [s \in Slots |-> IF s \in ClaimsOf(t) THEN "none" ELSE row[s]]
    BY <1>3 DEF DeleteUserFull, EraseRows
  <2>2. ClaimsOf(t) \in SUBSET Slots
    BY DEF ClaimsOf
  <2>3. \A s \in Slots : WrittenOff(s)' <=> WrittenOff(s) \/ s \in ClaimsOf(t)
    BY <2>1 DEF WrittenOff, PanelDeleted
  <2> QED
    BY <2>1, <2>2, <2>3, WriteOffStep
<1> QED
  BY <1>1, <1>2, <1>3 DEF Admin

(***************************************************************************)
(* The refinement.                                                         *)
(***************************************************************************)

LEMMA InitLedger == Init => Ledger!LedgerInit
BY SlotParts DEF Init, StoreInit, PanelInit, Ledger!LedgerInit, LedgerEntry, PanelDeleted

LEMMA NextLedger ==
    ASSUME IInv, IInv', Reliable, [Next]_vars
    PROVE  LedgerStep
<1>1. TypeOK /\ TypeOK' /\ OutboxInv /\ HandlersKnow
  BY DEF IInv, OutboxInv
<1>2. CASE HandlerNext /\ UNCHANGED <<jobVars, envVars>>
  BY <1>1, <1>2, HandlerLedger
<1>3. CASE JanitorNext /\ UNCHANGED <<handlerVars, envVars>>
  BY <1>1, <1>3, JanitorLedger
<1>4. CASE Admin
  BY <1>1, <1>4, AdminLedger
<1>5. ASSUME UNCHANGED <<row, puser, excused, pstate>> PROVE LedgerStep
  BY <1>5, Stutter DEF WrittenOff, PanelDeleted
<1>6. CASE Crash
  BY <1>5, <1>6 DEF Crash
<1>7. CASE \/ UNCHANGED vars \/ NewDay \/ MidnightReset
           \/ \E s \in Slots : GrowOld(s) \/ Expire(s)
           \/ \E t \in Users : Register(t)
  BY <1>5, <1>7 DEF NewDay, MidnightReset, GrowOld, Expire, Register
<1> QED
  BY <1>2, <1>3, <1>4, <1>6, <1>7 DEF Next, Quiet

\* With panels and queries that answer, the outbox implements the ledger: rows and
\* panel users keep step in every step of every actor, whatever crashes, fails,
\* overlaps or is deleted.
THEOREM OutboxImplementsLedger ==
    ASSUME Reliable
    PROVE  Spec => ImplementsLedger
<1>1. Init => Ledger!LedgerInit
  BY InitLedger
<1>2. IInv /\ IInv' /\ [Next]_vars => [Ledger!LedgerNext]_(Ledger!ledger)
  BY NextLedger DEF LedgerStep
<1> QED
  BY <1>1, <1>2, Inductive, PTL DEF Spec, ImplementsLedger, Ledger!LedgerSpec
=============================================================================
