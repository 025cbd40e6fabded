--------------------------- MODULE ClaimOutbox_proofs ---------------------------
(***************************************************************************)
(* Safety of the outbox.  The invariant has two halves: what holds of the  *)
(* slots the handlers may still change, and what each run of the cleanup   *)
(* job knows of the slots it has read.  They meet in Frame: whatever       *)
(* anybody else does, an inert slot stays inert, does not become pending   *)
(* and gets no panel user, so a job's old reads stay good enough.          *)
(***************************************************************************)
EXTENDS ClaimSystem_proofs

USE DEF storeVars, claimRows, userRows, panelRows, clock, panelVars, handlerVars,
        jobVars, envVars, vars

LEMMA SlotParts ==
    \A s \in Slots : s[1] \in Attempts /\ s[2] \in Panels /\ s = <<s[1], s[2]>>
BY DEF Slots

LEMMA SlotOf ==
    ASSUME TypeOK
    PROVE  \A u \in Attempts : /\ Slot(u) \in Slots
                               /\ \A s \in Slots : s = Slot(u) <=> s[1] = u /\ s[2] = cur[u]
BY DEF Slot, Slots, TypeOK, HandlerTypeOK

\* The types the handlers' half is about.
HandlerTypes ==
    /\ pc \in [Attempts -> Places] /\ left \in [Attempts -> SUBSET Panels]
    /\ reply \in [Attempts -> {"none", "ok", "fail", "neterr"}]
    /\ row \in [Slots -> {"none", "pending", "active"}]
    /\ wire \in SUBSET Slots /\ puser \in SUBSET Slots

LEMMA TypesOf == TypeOK => HandlerTypes
BY DEF HandlerTypes, TypeOK, HandlerTypeOK, StoreTypeOK, PanelTypeOK

(***************************************************************************)
(* The frame.                                                              *)
(***************************************************************************)

Frame ==
    /\ expired \subseteq expired' /\ old \subseteq old'
    /\ \A s \in Slots : Inert(s) =>
         /\ Inert(s)'
         /\ row'[s] = "pending" => row[s] = "pending" /\ (s \in puser => s \in puser')
         /\ s \in puser' => s \in puser
    /\ \A p \in Panels : /\ pstate[p] # "absent" => pstate'[p] # "absent"
                         /\ pstate[p] = "deleted" => pstate'[p] = "deleted"

\* The locals of run k.
JobStill(k) ==
    /\ jat'[k] = jat[k] /\ jpanel'[k] = jpanel[k]
    /\ jtodo'[k] = jtodo[k] /\ jhit'[k] = jhit[k] /\ jneed'[k] = jneed[k]
    /\ jids'[k] = jids[k] /\ jhandled'[k] = jhandled[k] /\ jdone'[k] = jdone[k]

LEMMA JobKeeps ==
    ASSUME TypeOK, Frame, NEW k \in Jobs, JobKnows(k), JobStill(k)
    PROVE  JobKnows(k)'
<1>1. InJob(k)' = InJob(k) /\ InJob(k) \subseteq Slots
  BY DEF InJob, JobStill, TypeOK, JobTypeOK
<1>2. \A s \in InJob(k) : /\ s \in Slots /\ Inert(s) /\ Inert(s)'
                          /\ pstate[s[2]] # "absent" /\ pstate'[s[2]] # "absent"
  BY <1>1, SlotParts DEF Frame, JobKnows
<1>3. (\A s \in InJob(k) : Inert(s) /\ pstate[s[2]] # "absent")'
  BY <1>1, <1>2
<1>4. (jtodo[k] \subseteq old)' /\ (\A s \in jhit[k] : row[s] = "pending" => s \in puser)'
  BY <1>2 DEF Frame, JobKnows, JobStill, InJob
<1>5. (\A s \in jneed[k] \cup jids[k] : s \in expired /\ row[s] # "pending")'
  BY <1>2 DEF Frame, JobKnows, JobStill, InJob
<1>6. (/\ jat[k] \notin {"resolve", "bulk", "deleting"} => jhandled[k] = {}
       /\ \A s \in jhandled[k] : s[2] = jpanel[k] /\ (s \in jids[k] \/ s \notin puser))'
  BY <1>2 DEF Frame, JobKnows, JobStill, InJob
<1>7. (\A s \in jdone[k] : s \notin puser \/ PanelDeleted(s) \/ Misled(k))'
  BY <1>2, SlotParts DEF Frame, JobKnows, JobStill, InJob, PanelDeleted, Misled
<1> QED
  BY <1>3, <1>4, <1>5, <1>6, <1>7 DEF JobKnows

LEMMA JobsKeep ==
    ASSUME TypeOK, Frame, JobsKnow, UNCHANGED jobVars
    PROVE  JobsKnow'
BY JobKeeps DEF JobsKnow, JobStill

(***************************************************************************)
(* The handlers.                                                           *)
(***************************************************************************)

\* Steps that touch nothing but the handler's own position and panel list.
LocalStep(u) ==
    \/ \E t \in Users : StartClaim(u, t)
    \/ GateRefuses(u) \/ SelectPanels(u) \/ InsertFails(u) \/ NoPanelLeft(u)
    \/ CreateExpired(u) \/ ConfirmFails(u) \/ RollbackFails(u)

LocalEffect(u) ==
    /\ UNCHANGED <<cur, reply, row, puser, wire, old, excused, expired, pstate>>
    /\ \/ /\ pc[u] \in {"select", "choose", "ok"}
          /\ pc' = [pc EXCEPT ![u] = "done"] /\ left' = [left EXCEPT ![u] = {}]
       \/ /\ pc[u] = "select"
          /\ pc' = [pc EXCEPT ![u] = "choose"] /\ left' = [left EXCEPT ![u] = PanelsForVolume]
       \/ /\ pc[u] = "idle" /\ pc' = [pc EXCEPT ![u] = "select"] /\ left' = left
       \/ /\ pc[u] = "send" /\ pc' = [pc EXCEPT ![u] = "failed"] /\ left' = left
       \/ /\ pc[u] = "failed" /\ pc' = [pc EXCEPT ![u] = "choose"] /\ left' = left

LEMMA LocalEffects ==
    ASSUME UNCHANGED <<jobVars, envVars>>, NEW u \in Attempts, LocalStep(u)
    PROVE  LocalEffect(u)
<1> USE DEF LocalEffect, Goto, Return
<1>1. ASSUME NEW t \in Users, StartClaim(u, t) PROVE LocalEffect(u)
  BY <1>1 DEF StartClaim
<1>2. CASE GateRefuses(u)
  BY <1>2 DEF GateRefuses
<1>3. CASE SelectPanels(u)
  BY <1>3 DEF SelectPanels
<1>4. CASE InsertFails(u)
  BY <1>4 DEF InsertFails
<1>5. CASE NoPanelLeft(u)
  BY <1>5 DEF NoPanelLeft
<1>6. CASE CreateExpired(u)
  BY <1>6 DEF CreateExpired
<1>7. CASE ConfirmFails(u)
  BY <1>7 DEF ConfirmFails
<1>8. CASE RollbackFails(u)
  BY <1>8 DEF RollbackFails
<1> QED
  BY <1>1, <1>2, <1>3, <1>4, <1>5, <1>6, <1>7, <1>8 DEF LocalStep

LEMMA LocalSafe ==
    ASSUME TypeOK, HandlersKnow, UNCHANGED <<jobVars, envVars>>,
           NEW u \in Attempts, LocalStep(u)
    PROVE  HandlersKnow' /\ Frame
<1>1. HandlerTypes
  BY TypesOf
<1>2. LocalEffect(u)
  BY LocalEffects
<1> USE <1>1, <1>2, SlotOf, SlotParts DEF HandlerTypes, LocalEffect
<1>3. FreshClean'
  BY DEF HandlersKnow, FreshClean, Fresh, CurTried
<1>4. CurTried' /\ ReturnedClean'
  BY DEF HandlersKnow, CurTried, ReturnedClean, Places
<1>5. RowsOnPanels' /\ LeftOnPanels'
  BY DEF HandlersKnow, RowsOnPanels, LeftOnPanels, PanelsForVolume
<1>6. WireYoung'
  BY DEF HandlersKnow, WireYoung
<1>7. BusyKnows'
  BY DEF HandlersKnow, BusyKnows, Busy, ReplyKnows
<1>8. ReplyKnows'
  BY DEF HandlersKnow, BusyKnows, Busy, ReplyKnows
<1>9. Frame
  BY DEF HandlersKnow, Frame, Inert, Busy, Fresh
<1>10. ActiveInert'
  BY <1>9 DEF HandlersKnow, Frame, ActiveInert
<1>11. UnexpiredServed'
  BY DEF HandlersKnow, BusyKnows, Busy, UnexpiredServed
<1>12. (Told => ToldKnows)'
  BY DEF HandlersKnow, BusyKnows, Busy, Told, ToldKnows
<1>13. (Reliable => NoOrphan)'
  BY DEF HandlersKnow, Busy, Reliable, Told, ToldKnows, NoOrphan, PanelDeleted
<1> QED
  BY <1>3, <1>4, <1>5, <1>6, <1>7, <1>8, <1>9, <1>10, <1>11, <1>12, <1>13 DEF HandlersKnow

LEMMA SendSafe ==
    ASSUME TypeOK, HandlersKnow, UNCHANGED <<jobVars, envVars>>,
           NEW u \in Attempts, SendCreate(u) \/ Resend(u)
    PROVE  HandlersKnow' /\ Frame
<1>1. HandlerTypes
  BY TypesOf
<1>2.
      /\ pc[u] = "send" \/ (pc[u] = "await" /\ reply[u] = "neterr")
      /\ pc' = [pc EXCEPT ![u] = "await"]
      /\ reply' = [reply EXCEPT ![u] = "none"]
      /\ wire' = wire \cup {Slot(u)} /\ Slot(u) \notin old
      /\ UNCHANGED <<left, cur, row, puser, old, excused, expired, pstate>>
  BY <1>1 DEF SendCreate, Resend, CtxLive, Goto, HandlerTypes
<1> USE <1>1, <1>2, SlotOf, SlotParts DEF HandlerTypes
<1>3. FreshClean'
  BY DEF HandlersKnow, FreshClean, Fresh, CurTried
<1>4. CurTried' /\ ReturnedClean'
  BY DEF HandlersKnow, CurTried, ReturnedClean, Places
<1>5. RowsOnPanels' /\ LeftOnPanels'
  BY DEF HandlersKnow, RowsOnPanels, LeftOnPanels, PanelsForVolume
<1>6. WireYoung'
  BY DEF HandlersKnow, WireYoung
<1>7. BusyKnows'
  BY DEF HandlersKnow, BusyKnows, Busy, ReplyKnows
<1>8. ReplyKnows'
  BY DEF HandlersKnow, BusyKnows, Busy, ReplyKnows
<1>9. Frame
  BY DEF HandlersKnow, Frame, Inert, Busy, Fresh
<1>10. ActiveInert'
  BY <1>9 DEF HandlersKnow, Frame, ActiveInert
<1>11. UnexpiredServed'
  BY DEF HandlersKnow, BusyKnows, Busy, UnexpiredServed
<1>12. (Told => ToldKnows)'
  BY DEF HandlersKnow, BusyKnows, Busy, Told, ToldKnows
<1>13. (Reliable => NoOrphan)'
  BY DEF HandlersKnow, Busy, Reliable, Told, ToldKnows, NoOrphan, PanelDeleted
<1> QED
  BY <1>3, <1>4, <1>5, <1>6, <1>7, <1>8, <1>9, <1>10, <1>11, <1>12, <1>13 DEF HandlersKnow

LEMMA CreateReturnsSafe ==
    ASSUME TypeOK, HandlersKnow, UNCHANGED <<jobVars, envVars>>,
           NEW u \in Attempts, CreateReturns(u)
    PROVE  HandlersKnow' /\ Frame
<1>1. HandlerTypes
  BY TypesOf
<1>2.
      /\ pc[u] = "await"
      /\ reply' = [reply EXCEPT ![u] = "none"]
      /\ \/ reply[u] = "ok" /\ pc' = [pc EXCEPT ![u] = "ok"]
         \/ reply[u] \in {"fail", "neterr"} /\ pc' = [pc EXCEPT ![u] = "failed"]
      /\ UNCHANGED <<left, cur, row, puser, wire, old, excused, expired, pstate>>
  BY DEF CreateReturns, Goto
<1> USE <1>1, <1>2, SlotOf, SlotParts DEF HandlerTypes
<1>3. FreshClean'
  BY DEF HandlersKnow, FreshClean, Fresh, CurTried
<1>4. CurTried' /\ ReturnedClean'
  BY DEF HandlersKnow, CurTried, ReturnedClean, Places
<1>5. RowsOnPanels' /\ LeftOnPanels'
  BY DEF HandlersKnow, RowsOnPanels, LeftOnPanels, PanelsForVolume
<1>6. WireYoung'
  BY DEF HandlersKnow, WireYoung
<1>7. BusyKnows'
  BY DEF HandlersKnow, BusyKnows, Busy, ReplyKnows
<1>8. ReplyKnows'
  BY DEF HandlersKnow, BusyKnows, Busy, ReplyKnows
<1>9. Frame
  BY DEF HandlersKnow, Frame, Inert, Busy, Fresh
<1>10. ActiveInert'
  BY <1>9 DEF HandlersKnow, Frame, ActiveInert
<1>11. UnexpiredServed'
  BY DEF HandlersKnow, BusyKnows, Busy, UnexpiredServed
<1>12. (Told => ToldKnows)'
  <2> SUFFICES ASSUME Told PROVE ToldKnows'
    BY DEF Told
  <2>1. ToldKnows
    BY DEF HandlersKnow
  <2>2. (\A s \in wire : row[s] # "none" \/ s \in excused)'
    BY <2>1 DEF ToldKnows
  <2>3. (\A s \in Slots : Busy(s) /\ pc[s[1]] = "failed" => s \notin puser /\ s \notin wire)'
    BY <2>1 DEF ToldKnows, Busy
  <2>4. (\A s \in Slots : pc[s[1]] = "await" /\ cur[s[1]] = s[2] =>
            /\ s \in wire <=> reply[s[1]] = "none"
            /\ s \in puser <=> reply[s[1]] = "ok")'
    BY <2>1 DEF ToldKnows
  <2> QED
    BY <2>2, <2>3, <2>4 DEF ToldKnows
<1>13. (Reliable => NoOrphan)'
  BY DEF HandlersKnow, Busy, Reliable, Told, ToldKnows, NoOrphan, PanelDeleted
<1> QED
  BY <1>3, <1>4, <1>5, <1>6, <1>7, <1>8, <1>9, <1>10, <1>11, <1>12, <1>13 DEF HandlersKnow

LEMMA RollbackSafe ==
    ASSUME TypeOK, HandlersKnow, UNCHANGED <<jobVars, envVars>>,
           NEW u \in Attempts, Rollback(u)
    PROVE  HandlersKnow' /\ Frame
<1>1. HandlerTypes
  BY TypesOf
<1>2.
      /\ pc[u] = "failed"
      /\ pc' = [pc EXCEPT ![u] = "choose"]
      /\ row' = [s \in Slots |-> IF s \in {Slot(u)} THEN "none" ELSE row[s]]
      /\ UNCHANGED <<left, cur, reply, puser, wire, old, excused, expired, pstate>>
  BY DEF Rollback, Goto, DeleteClaimRows, EraseRows
<1> USE <1>1, <1>2, SlotOf, SlotParts DEF HandlerTypes
<1>3. FreshClean'
  BY DEF HandlersKnow, FreshClean, Fresh, CurTried
<1>4. CurTried' /\ ReturnedClean'
  BY DEF HandlersKnow, CurTried, ReturnedClean, Places
<1>5. RowsOnPanels' /\ LeftOnPanels'
  BY DEF HandlersKnow, RowsOnPanels, LeftOnPanels, PanelsForVolume
<1>6. WireYoung'
  BY DEF HandlersKnow, WireYoung
<1>7. BusyKnows'
  BY DEF HandlersKnow, BusyKnows, Busy, ReplyKnows
<1>8. ReplyKnows'
  BY DEF HandlersKnow, BusyKnows, Busy, ReplyKnows
<1>9. Frame
  BY DEF HandlersKnow, Frame, Inert, Busy, Fresh
<1>10. ActiveInert'
  BY <1>9 DEF HandlersKnow, Frame, ActiveInert
<1>11. UnexpiredServed'
  BY DEF HandlersKnow, BusyKnows, Busy, UnexpiredServed
<1>12. (Told => ToldKnows)'
  BY DEF HandlersKnow, BusyKnows, Busy, Told, ToldKnows
<1>13. (Reliable => NoOrphan)'
  BY DEF HandlersKnow, Busy, Reliable, Told, ToldKnows, NoOrphan, PanelDeleted
<1> QED
  BY <1>3, <1>4, <1>5, <1>6, <1>7, <1>8, <1>9, <1>10, <1>11, <1>12, <1>13 DEF HandlersKnow

LEMMA ConfirmSafe ==
    ASSUME TypeOK, HandlersKnow, UNCHANGED <<jobVars, envVars>>,
           NEW u \in Attempts, Confirm(u)
    PROVE  HandlersKnow' /\ Frame
<1>1. HandlerTypes
  BY TypesOf
<1>2. /\ pc[u] = "ok"
      /\ pc' = [pc EXCEPT ![u] = "done"]
      /\ left' = [left EXCEPT ![u] = {}]
      /\ \/ row' = row
         \/ row[Slot(u)] # "none" /\ row' = [row EXCEPT ![Slot(u)] = "active"]
      /\ UNCHANGED <<cur, reply, puser, wire, old, excused, expired, pstate>>
  <2>1. PICK id \in {0, 1} : ConfirmClaim(Slot(u), tg[u], today[u], id)
    BY DEF Confirm
  <2>2. SetActive(Slot(u), id) /\ UNCHANGED pstate
    BY <2>1, Zenon DEF ConfirmClaim
  <2>3. \/ row' = row
        \/ row[Slot(u)] # "none" /\ row' = [row EXCEPT ![Slot(u)] = "active"]
    BY <2>2, Zenon DEF SetActive
  <2>4. /\ pc[u] = "ok"
        /\ pc' = [pc EXCEPT ![u] = "done"]
        /\ left' = [left EXCEPT ![u] = {}]
        /\ UNCHANGED <<cur, reply, puser, wire, old, excused, expired>>
    BY DEF Confirm, Goto, Return
  <2> QED
    BY <2>2, <2>3, <2>4
<1> USE <1>1, <1>2, SlotOf, SlotParts DEF HandlerTypes
<1>3. FreshClean'
  BY DEF HandlersKnow, FreshClean, Fresh, CurTried
<1>4. CurTried' /\ ReturnedClean'
  BY DEF HandlersKnow, CurTried, ReturnedClean, Places
<1>5. RowsOnPanels' /\ LeftOnPanels'
  BY DEF HandlersKnow, RowsOnPanels, LeftOnPanels, PanelsForVolume
<1>6. WireYoung'
  BY DEF HandlersKnow, WireYoung
<1>7. BusyKnows'
  BY DEF HandlersKnow, BusyKnows, Busy, ReplyKnows
<1>8. ReplyKnows'
  BY DEF HandlersKnow, BusyKnows, Busy, ReplyKnows
<1>9. Frame
  BY DEF HandlersKnow, Frame, Inert, Busy, Fresh
<1>10. ActiveInert'
  BY <1>9 DEF HandlersKnow, Frame, ActiveInert, Inert, Busy, BusyKnows, Fresh, CurTried
<1>11. UnexpiredServed'
  BY DEF HandlersKnow, BusyKnows, Busy, UnexpiredServed
<1>12. (Told => ToldKnows)'
  BY DEF HandlersKnow, BusyKnows, Busy, Told, ToldKnows
<1>13. (Reliable => NoOrphan)'
  BY DEF HandlersKnow, Busy, Reliable, Told, ToldKnows, NoOrphan, PanelDeleted
<1> QED
  BY <1>3, <1>4, <1>5, <1>6, <1>7, <1>8, <1>9, <1>10, <1>11, <1>12, <1>13 DEF HandlersKnow

LEMMA InsertPendingSafe ==
    ASSUME TypeOK, HandlersKnow, UNCHANGED <<jobVars, envVars>>,
           NEW u \in Attempts, InsertPending(u)
    PROVE  HandlersKnow' /\ Frame
<1>1. HandlerTypes
  BY TypesOf
<1>2. PICK p \in left[u] :
        /\ pc[u] = "choose"
        /\ pc' = [pc EXCEPT ![u] = "send"]
        /\ row' = [row EXCEPT ![<<u, p>>] = "pending"]
        /\ cur' = [cur EXCEPT ![u] = p]
        /\ left' = [left EXCEPT ![u] = @ \ {p}]
        /\ UNCHANGED <<reply, puser, wire, old, excused, expired, pstate>>
  BY DEF InsertPending, LeastUsed, InsertPendingClaim, Goto
<1>2a. /\ p \in Panels /\ <<u, p>> \in Slots /\ cur \in [Attempts -> Panels]
       /\ \A s \in Slots : s = <<u, p>> <=> s[1] = u /\ s[2] = p
  BY <1>1, <1>2 DEF Slots, HandlerTypes, TypeOK, HandlerTypeOK
<1> USE <1>1, <1>2, <1>2a, SlotParts DEF HandlerTypes
<1>3. FreshClean'
  BY DEF HandlersKnow, FreshClean, Fresh, CurTried
<1>4. CurTried' /\ ReturnedClean'
  BY DEF HandlersKnow, CurTried, ReturnedClean, Places
<1>5. RowsOnPanels' /\ LeftOnPanels'
  BY DEF HandlersKnow, RowsOnPanels, LeftOnPanels, PanelsForVolume
<1>6. WireYoung'
  BY DEF HandlersKnow, WireYoung
<1>7. BusyKnows'
  BY DEF HandlersKnow, BusyKnows, Busy, FreshClean, Fresh
<1>8. ReplyKnows'
  BY DEF HandlersKnow, BusyKnows, Busy, ReplyKnows
<1>9. Frame
  BY DEF HandlersKnow, Frame, Inert, Busy, Fresh
<1>10. ActiveInert'
  BY <1>9 DEF HandlersKnow, Frame, ActiveInert
<1>11. UnexpiredServed'
  BY DEF HandlersKnow, BusyKnows, Busy, UnexpiredServed
<1>12. (Told => ToldKnows)'
  BY DEF HandlersKnow, BusyKnows, Busy, Told, ToldKnows
<1>13. (Reliable => NoOrphan)'
  BY DEF HandlersKnow, Busy, Reliable, Told, ToldKnows, NoOrphan, PanelDeleted
<1> QED
  BY <1>3, <1>4, <1>5, <1>6, <1>7, <1>8, <1>9, <1>10, <1>11, <1>12, <1>13 DEF HandlersKnow

LEMMA PanelCreatesSafe ==
    ASSUME TypeOK, HandlersKnow, UNCHANGED <<jobVars, envVars>>,
           NEW c \in Slots, PanelCreates(c)
    PROVE  HandlersKnow' /\ Frame
<1>1. HandlerTypes
  BY TypesOf
<1>2.
      /\ c \in wire /\ wire' = wire \ {c} /\ puser' = puser \cup {c}
      /\ \E r \in {"ok", "fail", "neterr"} :
           /\ Told => r = "ok"
           /\ \/ reply' = [reply EXCEPT ![c[1]] = r] /\ Awaiting(c)
              \/ reply' = reply /\ ~Awaiting(c)
      /\ UNCHANGED <<pc, left, cur, row, old, excused, expired, pstate>>
  BY DEF PanelCreates, Answer, Told
<1> USE <1>1, <1>2, SlotOf, SlotParts DEF HandlerTypes
<1>3. FreshClean'
  BY DEF HandlersKnow, FreshClean, Fresh
<1>4. CurTried' /\ ReturnedClean'
  BY DEF HandlersKnow, CurTried, ReturnedClean, Places
<1>5. RowsOnPanels' /\ LeftOnPanels'
  BY DEF HandlersKnow, RowsOnPanels, LeftOnPanels, PanelsForVolume
<1>6. WireYoung'
  BY DEF HandlersKnow, WireYoung
<1>7. BusyKnows'
  BY DEF HandlersKnow, BusyKnows, Busy, WireYoung
<1>8. ReplyKnows'
  BY DEF HandlersKnow, BusyKnows, Busy, ReplyKnows, Awaiting
<1>9. Frame
  BY DEF HandlersKnow, Frame, Inert, Busy, Fresh
<1>10. ActiveInert'
  BY <1>9 DEF HandlersKnow, Frame, ActiveInert
<1>11. UnexpiredServed'
  BY DEF HandlersKnow, BusyKnows, Busy, UnexpiredServed
<1>12. (Told => ToldKnows)'
  <2> SUFFICES ASSUME Told PROVE ToldKnows'
    BY DEF Told
  <2>1. ToldKnows
    BY DEF HandlersKnow
  <2>2. (\A s \in wire : row[s] # "none" \/ s \in excused)'
    BY <2>1 DEF ToldKnows
  <2>3. (\A s \in Slots : Busy(s) /\ pc[s[1]] = "failed" => s \notin puser /\ s \notin wire)'
    BY <2>1 DEF ToldKnows, Busy
  <2>4. (\A s \in Slots : pc[s[1]] = "await" /\ cur[s[1]] = s[2] =>
            /\ s \in wire <=> reply[s[1]] = "none"
            /\ s \in puser <=> reply[s[1]] = "ok")'
    BY <2>1 DEF ToldKnows, Awaiting
  <2> QED
    BY <2>2, <2>3, <2>4 DEF ToldKnows
<1>13. (Reliable => NoOrphan)'
  BY DEF HandlersKnow, Busy, Reliable, Told, ToldKnows, NoOrphan, PanelDeleted
<1> QED
  BY <1>3, <1>4, <1>5, <1>6, <1>7, <1>8, <1>9, <1>10, <1>11, <1>12, <1>13 DEF HandlersKnow

LEMMA PanelRefusesSafe ==
    ASSUME TypeOK, HandlersKnow, UNCHANGED <<jobVars, envVars>>,
           NEW c \in Slots, PanelRefuses(c)
    PROVE  HandlersKnow' /\ Frame
<1>1. HandlerTypes
  BY TypesOf
<1>2.
      /\ c \in wire /\ wire' = wire \ {c}
      /\ \E r \in {"fail", "neterr"} :
           \/ reply' = [reply EXCEPT ![c[1]] = r] /\ Awaiting(c)
           \/ reply' = reply /\ ~Awaiting(c)
      /\ UNCHANGED <<pc, left, cur, row, puser, old, excused, expired, pstate>>
  BY DEF PanelRefuses, Answer
<1> USE <1>1, <1>2, SlotOf, SlotParts DEF HandlerTypes
<1>3. FreshClean'
  BY DEF HandlersKnow, FreshClean, Fresh
<1>4. CurTried' /\ ReturnedClean'
  BY DEF HandlersKnow, CurTried, ReturnedClean, Places
<1>5. RowsOnPanels' /\ LeftOnPanels'
  BY DEF HandlersKnow, RowsOnPanels, LeftOnPanels, PanelsForVolume
<1>6. WireYoung'
  BY DEF HandlersKnow, WireYoung
<1>7. BusyKnows'
  BY DEF HandlersKnow, BusyKnows, Busy, ReplyKnows, Awaiting
<1>8. ReplyKnows'
  BY DEF HandlersKnow, BusyKnows, Busy, ReplyKnows, Awaiting
<1>9. Frame
  BY DEF HandlersKnow, Frame, Inert, Busy, Fresh
<1>10. ActiveInert'
  BY <1>9 DEF HandlersKnow, Frame, ActiveInert
<1>11. UnexpiredServed'
  BY DEF HandlersKnow, BusyKnows, Busy, UnexpiredServed
<1>12. (Told => ToldKnows)'
  <2> SUFFICES ASSUME Told PROVE ToldKnows'
    BY DEF Told
  <2>1. ToldKnows
    BY DEF HandlersKnow
  <2>2. (\A s \in wire : row[s] # "none" \/ s \in excused)'
    BY <2>1 DEF ToldKnows
  <2>3. (\A s \in Slots : Busy(s) /\ pc[s[1]] = "failed" => s \notin puser /\ s \notin wire)'
    BY <2>1 DEF ToldKnows, Busy
  <2>4. (\A s \in Slots : pc[s[1]] = "await" /\ cur[s[1]] = s[2] =>
            /\ s \in wire <=> reply[s[1]] = "none"
            /\ s \in puser <=> reply[s[1]] = "ok")'
    BY <2>1 DEF ToldKnows, Awaiting
  <2> QED
    BY <2>2, <2>3, <2>4 DEF ToldKnows
<1>13. (Reliable => NoOrphan)'
  BY DEF HandlersKnow, Busy, Reliable, Told, ToldKnows, NoOrphan, PanelDeleted
<1> QED
  BY <1>3, <1>4, <1>5, <1>6, <1>7, <1>8, <1>9, <1>10, <1>11, <1>12, <1>13 DEF HandlersKnow

LEMMA RequestTimesOutSafe ==
    ASSUME TypeOK, HandlersKnow, UNCHANGED <<jobVars, envVars>>,
           NEW c \in Slots, RequestTimesOut(c)
    PROVE  HandlersKnow' /\ Frame
<1>1. HandlerTypes
  BY TypesOf
<1>2. /\ ~Told /\ ~Reliable
      /\ reply' = [reply EXCEPT ![c[1]] = "neterr"]
      /\ UNCHANGED <<pc, left, cur, row, puser, wire, old, excused, expired, pstate>>
  BY DEF RequestTimesOut, Answer, Told, Reliable
<1>3. \A s \in Slots : /\ Fresh(s)' <=> Fresh(s)
                       /\ Busy(s)' <=> Busy(s)
                       /\ Inert(s)' <=> Inert(s)
  BY <1>2 DEF Fresh, Busy, Inert
<1> USE <1>1, <1>2, <1>3, SlotParts DEF HandlerTypes, HandlersKnow
<1>4. FreshClean' /\ CurTried' /\ ReturnedClean' /\ RowsOnPanels' /\ LeftOnPanels'
  BY DEF FreshClean, CurTried, ReturnedClean, RowsOnPanels, LeftOnPanels
<1>5. WireYoung' /\ BusyKnows' /\ ActiveInert' /\ UnexpiredServed'
  BY DEF WireYoung, BusyKnows, ActiveInert, UnexpiredServed
<1>6. ReplyKnows'
  BY DEF ReplyKnows
<1>7. (Told => ToldKnows)' /\ (Reliable => NoOrphan)'
  BY DEF Told, Reliable
<1>8. Frame
  BY DEF Frame
<1> QED
  BY <1>4, <1>5, <1>6, <1>7, <1>8

LEMMA HandlerSafe ==
    ASSUME TypeOK, HandlersKnow, HandlerNext, UNCHANGED <<jobVars, envVars>>
    PROVE  HandlersKnow' /\ Frame
BY LocalSafe, SendSafe, CreateReturnsSafe, RollbackSafe, ConfirmSafe, InsertPendingSafe,
   PanelCreatesSafe, PanelRefusesSafe, RequestTimesOutSafe
   DEF HandlerNext, HandlerStep, Network, LocalStep

(***************************************************************************)
(* The cleanup job.                                                        *)
(***************************************************************************)

\* What the handlers and the other runs see of a step of the job.
JobFrame ==
    /\ UNCHANGED <<pc, left, cur, reply, wire, old, expired, excused, pstate>>
    /\ \A s \in Slots :
         \/ row'[s] = row[s]
         \/ /\ Inert(s) /\ row[s] # "none" /\ row'[s] = "none"
            /\ s \notin puser \/ PanelDeleted(s) \/ ~Reliable
         \/ Inert(s) /\ row[s] # "none" /\ row'[s] = "active" /\ s \in puser
    /\ puser' \subseteq puser
    /\ \A s \in puser \ puser' : Inert(s) /\ s \in expired /\ row[s] # "pending"
    /\ row' = row \/ puser' = puser

LEMMA JobFrameSafe ==
    ASSUME TypeOK, HandlersKnow, JobFrame
    PROVE  HandlersKnow' /\ Frame
<1>1. HandlerTypes
  BY TypesOf
<1>2. \A s \in Slots : /\ Fresh(s)' <=> Fresh(s)
                       /\ Busy(s)' <=> Busy(s)
                       /\ Inert(s)' <=> Inert(s)
                       /\ PanelDeleted(s)' <=> PanelDeleted(s)
  BY DEF JobFrame, Fresh, Busy, Inert, PanelDeleted
<1> USE <1>1, <1>2 DEF HandlerTypes, JobFrame
<1>3. FreshClean'
  BY DEF HandlersKnow, FreshClean
<1>4. CurTried' /\ ReturnedClean'
  BY DEF HandlersKnow, CurTried, ReturnedClean
<1>5. RowsOnPanels' /\ LeftOnPanels'
  BY DEF HandlersKnow, RowsOnPanels, LeftOnPanels
<1>6. WireYoung'
  BY DEF HandlersKnow, WireYoung
<1>7. BusyKnows'
  BY DEF HandlersKnow, BusyKnows, Inert
<1>8. ReplyKnows'
  BY DEF HandlersKnow, ReplyKnows, BusyKnows, Busy, Inert
<1>9. Frame
  BY DEF Frame
<1>10. ActiveInert'
  BY DEF HandlersKnow, ActiveInert
<1>11. UnexpiredServed'
  BY DEF HandlersKnow, UnexpiredServed
<1>12. (Told => ToldKnows)'
  BY DEF HandlersKnow, BusyKnows, Busy, Told, ToldKnows, Inert
<1>13. (Reliable => NoOrphan)'
  BY DEF HandlersKnow, Reliable, NoOrphan
<1> QED
  BY <1>3, <1>4, <1>5, <1>6, <1>7, <1>8, <1>9, <1>10, <1>11, <1>12, <1>13 DEF HandlersKnow

\* A step of run j: it keeps the frame, it is right about its own slots afterwards,
\* and leaves the locals of the other runs alone.
RunStep(j) == JobFrame /\ JobKnows(j)' /\ \A k \in Jobs \ {j} : JobStill(k)

LEMMA RunSafe ==
    ASSUME TypeOK, OutboxInv, NEW j \in Jobs, RunStep(j)
    PROVE  OutboxInv'
<1>1. HandlersKnow' /\ Frame
  BY JobFrameSafe DEF OutboxInv, RunStep
<1>2. \A k \in Jobs \ {j} : JobKnows(k)'
  BY <1>1, JobKeeps DEF OutboxInv, JobsKnow, RunStep
<1> QED
  BY <1>1, <1>2 DEF OutboxInv, JobsKnow, RunStep

\* The sets a run keeps are sets of slots.
JobTypes ==
    /\ jat \in [Jobs -> JobPlaces] /\ jpanel \in [Jobs -> Panels]
    /\ jtodo \in [Jobs -> SUBSET Slots] /\ jhit \in [Jobs -> SUBSET Slots]
    /\ jneed \in [Jobs -> SUBSET Slots] /\ jids \in [Jobs -> SUBSET Slots]
    /\ jhandled \in [Jobs -> SUBSET Slots] /\ jdone \in [Jobs -> SUBSET Slots]

LEMMA JobTypesOf == TypeOK => JobTypes
BY DEF JobTypes, TypeOK, JobTypeOK

\* Steps in which a run only looks and sorts: rows and panels stay as they are.
LEMMA ReconcileStartRuns ==
    ASSUME TypeOK, OutboxInv, NEW j \in Jobs, ReconcileStart(j), UNCHANGED <<handlerVars, envVars>>
    PROVE  RunStep(j)
<1>1. JobTypes /\ JobKnows(j) /\ UNCHANGED <<storeVars, puser, wire>>
  BY JobTypesOf DEF OutboxInv, JobsKnow, ReconcileStart, JobGoto
<1>2. PICK found \in Rows(PendingClaimsOlderThan) : jtodo' = [jtodo EXCEPT ![j] = found]
  BY DEF ReconcileStart
<1>2a. \A s \in found : s \in Slots /\ row[s] = "pending" /\ s \in old
  BY RowsType DEF PendingClaimsOlderThan
<1>2b. \A s \in found : Inert(s) /\ pstate[s[2]] # "absent"
  BY <1>2a, SlotParts DEF OutboxInv, HandlersKnow, FreshClean, WireYoung, RowsOnPanels, Inert
<1>3. (\A s \in InJob(j) : Inert(s) /\ pstate[s[2]] # "absent")'
  BY <1>1, <1>2, <1>2a, <1>2b DEF JobTypes, JobKnows, InJob, Inert, Fresh, Busy, ReconcileStart, JobGoto
<1>4. (/\ jtodo[j] \subseteq old
       /\ \A s \in jhit[j] : row[s] = "pending" => s \in puser
       /\ \A s \in jneed[j] \cup jids[j] : s \in expired /\ row[s] # "pending")'
  BY <1>1, <1>2, <1>2a, <1>2b DEF JobTypes, JobKnows, ReconcileStart, JobGoto
<1>5. (/\ jat[j] \notin {"resolve", "bulk", "deleting"} => jhandled[j] = {}
       /\ \A s \in jhandled[j] : s[2] = jpanel[j] /\ (s \in jids[j] \/ s \notin puser))'
  BY <1>1, <1>2, <1>2a, <1>2b DEF JobTypes, JobKnows, ReconcileStart, JobGoto
<1>6. (\A s \in jdone[j] : s \notin puser \/ PanelDeleted(s) \/ Misled(j))'
  BY <1>1, <1>2, <1>2a, <1>2b DEF JobTypes, JobKnows, PanelDeleted, Misled, InJob, ReconcileStart, JobGoto
<1>7. \A k \in Jobs \ {j} : JobStill(k)
  BY <1>1, <1>2, <1>2a, <1>2b DEF JobTypes, JobStill, TypeOK, JobTypeOK, ReconcileStart, JobGoto
<1> QED
  BY <1>1, <1>3, <1>4, <1>5, <1>6, <1>7 DEF RunStep, JobFrame, JobKnows

LEMMA CleanupListRuns ==
    ASSUME TypeOK, OutboxInv, NEW j \in Jobs, CleanupList(j), UNCHANGED <<handlerVars, envVars>>
    PROVE  RunStep(j)
<1>1. JobTypes /\ JobKnows(j) /\ UNCHANGED <<storeVars, puser, wire>>
  BY JobTypesOf DEF OutboxInv, JobsKnow, CleanupList, JobGoto
<1>2. PICK olds \in Rows(ExpiredConfigs) :
        /\ jids' = [jids EXCEPT ![j] = olds \cap cachedId]
        /\ jneed' = [jneed EXCEPT ![j] = olds \ cachedId]
  BY DEF CleanupList
<1>2a. \A s \in olds : s \in Slots /\ row[s] = "active" /\ s \in expired
  BY RowsType DEF ExpiredConfigs
<1>2b. \A s \in olds : Inert(s) /\ pstate[s[2]] # "absent"
  BY <1>2a, SlotParts DEF OutboxInv, HandlersKnow, ActiveInert, RowsOnPanels
<1>3. (\A s \in InJob(j) : Inert(s) /\ pstate[s[2]] # "absent")'
  BY <1>1, <1>2, <1>2a, <1>2b DEF JobTypes, JobKnows, InJob, Inert, Fresh, Busy, CleanupList, JobGoto
<1>4. (/\ jtodo[j] \subseteq old
       /\ \A s \in jhit[j] : row[s] = "pending" => s \in puser
       /\ \A s \in jneed[j] \cup jids[j] : s \in expired /\ row[s] # "pending")'
  BY <1>1, <1>2, <1>2a, <1>2b DEF JobTypes, JobKnows, CleanupList, JobGoto
<1>5. (/\ jat[j] \notin {"resolve", "bulk", "deleting"} => jhandled[j] = {}
       /\ \A s \in jhandled[j] : s[2] = jpanel[j] /\ (s \in jids[j] \/ s \notin puser))'
  BY <1>1, <1>2, <1>2a, <1>2b DEF JobTypes, JobKnows, CleanupList, JobGoto
<1>6. (\A s \in jdone[j] : s \notin puser \/ PanelDeleted(s) \/ Misled(j))'
  BY <1>1, <1>2, <1>2a, <1>2b DEF JobTypes, JobKnows, PanelDeleted, Misled, InJob, CleanupList, JobGoto
<1>7. \A k \in Jobs \ {j} : JobStill(k)
  BY <1>1, <1>2, <1>2a, <1>2b DEF JobTypes, JobStill, TypeOK, JobTypeOK, CleanupList, JobGoto
<1> QED
  BY <1>1, <1>3, <1>4, <1>5, <1>6, <1>7 DEF RunStep, JobFrame, JobKnows

LEMMA ReconcileLookRuns ==
    ASSUME TypeOK, OutboxInv, NEW j \in Jobs, NEW c \in Slots, ReconcileLook(j, c), UNCHANGED <<handlerVars, envVars>>
    PROVE  RunStep(j)
<1>1. JobTypes /\ JobKnows(j) /\ UNCHANGED <<storeVars, puser, wire>>
  BY JobTypesOf DEF OutboxInv, JobsKnow, ReconcileLook, JobGoto
<1>2. PICK v \in Verdicts(c) :
        /\ jhit' = [jhit EXCEPT ![j] = IF v = "found" THEN {c} ELSE {}]
        /\ jdone' = [jdone EXCEPT ![j] = IF v = "found" THEN {} ELSE {c}]
  BY DEF ReconcileLook
<1>2a. v = "found" => c \in puser
  BY DEF Verdicts, Lookup
<1>2b. c \in jtodo[j] /\ c \in Slots /\ pstate[c[2]] # "absent"
  BY <1>1 DEF ReconcileLook, JobKnows, InJob
<1>2c. v # "found" => c \notin puser \/ pstate[c[2]] = "deleted" \/ Misled(j)'
  BY <1>1, <1>2b, SlotParts DEF Verdicts, Lookup, GetPanelFails, PanelExists, Misled, JobTypes,
     ReconcileLook, JobGoto, TypeOK, StoreTypeOK
<1>3. (\A s \in InJob(j) : Inert(s) /\ pstate[s[2]] # "absent")'
  BY <1>1, <1>2, <1>2a, <1>2b, <1>2c DEF JobTypes, JobKnows, InJob, Inert, Fresh, Busy, ReconcileLook, JobGoto
<1>4. (/\ jtodo[j] \subseteq old
       /\ \A s \in jhit[j] : row[s] = "pending" => s \in puser
       /\ \A s \in jneed[j] \cup jids[j] : s \in expired /\ row[s] # "pending")'
  BY <1>1, <1>2, <1>2a, <1>2b, <1>2c DEF JobTypes, JobKnows, ReconcileLook, JobGoto
<1>5. (/\ jat[j] \notin {"resolve", "bulk", "deleting"} => jhandled[j] = {}
       /\ \A s \in jhandled[j] : s[2] = jpanel[j] /\ (s \in jids[j] \/ s \notin puser))'
  BY <1>1, <1>2, <1>2a, <1>2b, <1>2c DEF JobTypes, JobKnows, ReconcileLook, JobGoto
<1>6. (\A s \in jdone[j] : s \notin puser \/ PanelDeleted(s) \/ Misled(j))'
  BY <1>1, <1>2, <1>2a, <1>2b, <1>2c DEF JobTypes, JobKnows, PanelDeleted, Misled, InJob, ReconcileLook, JobGoto
<1>7. \A k \in Jobs \ {j} : JobStill(k)
  BY <1>1, <1>2, <1>2a, <1>2b, <1>2c DEF JobTypes, JobStill, TypeOK, JobTypeOK, ReconcileLook, JobGoto
<1> QED
  BY <1>1, <1>3, <1>4, <1>5, <1>6, <1>7 DEF RunStep, JobFrame, JobKnows

LEMMA ResolveRuns ==
    ASSUME TypeOK, OutboxInv, NEW j \in Jobs, NEW c \in Slots, Resolve(j, c), UNCHANGED <<handlerVars, envVars>>
    PROVE  RunStep(j)
<1>1. JobTypes /\ JobKnows(j) /\ UNCHANGED <<storeVars, puser, wire>>
  BY JobTypesOf DEF OutboxInv, JobsKnow, Resolve
<1>2. PICK v \in Lookup(c) :
        /\ jids' = [jids EXCEPT ![j] = @ \cup IF v = "found" THEN {c} ELSE {}]
        /\ jhandled' = [jhandled EXCEPT ![j] = @ \cup IF v = "found" THEN {c} ELSE {}]
        /\ jdone' = [jdone EXCEPT ![j] = IF Missing(v) THEN @ \cup {c} ELSE @]
  BY DEF Resolve
<1>2a. /\ Missing(v) => c \notin puser
       /\ c \in jneed[j] /\ c[2] = jpanel[j] /\ jat[j] = "resolve"
  BY SlotParts DEF Missing, Lookup, Resolve, SlotsAt
<1>3. (\A s \in InJob(j) : Inert(s) /\ pstate[s[2]] # "absent")'
  BY <1>1, <1>2, <1>2a DEF JobTypes, JobKnows, InJob, Inert, Fresh, Busy, Resolve
<1>4. (/\ jtodo[j] \subseteq old
       /\ \A s \in jhit[j] : row[s] = "pending" => s \in puser
       /\ \A s \in jneed[j] \cup jids[j] : s \in expired /\ row[s] # "pending")'
  BY <1>1, <1>2, <1>2a DEF JobTypes, JobKnows, Resolve
<1>5. (/\ jat[j] \notin {"resolve", "bulk", "deleting"} => jhandled[j] = {}
       /\ \A s \in jhandled[j] : s[2] = jpanel[j] /\ (s \in jids[j] \/ s \notin puser))'
  BY <1>1, <1>2, <1>2a DEF JobTypes, JobKnows, Resolve
<1>6. (\A s \in jdone[j] : s \notin puser \/ PanelDeleted(s) \/ Misled(j))'
  BY <1>1, <1>2, <1>2a DEF JobTypes, JobKnows, PanelDeleted, Misled, InJob, Resolve
<1>7. \A k \in Jobs \ {j} : JobStill(k)
  BY <1>1, <1>2, <1>2a DEF JobTypes, JobStill, TypeOK, JobTypeOK, Resolve
<1> QED
  BY <1>1, <1>3, <1>4, <1>5, <1>6, <1>7 DEF RunStep, JobFrame, JobKnows

LEMMA PickPanelRuns ==
    ASSUME TypeOK, OutboxInv, NEW j \in Jobs, NEW p \in Panels, PickPanel(j, p), UNCHANGED <<handlerVars, envVars>>
    PROVE  RunStep(j)
<1>1. JobTypes /\ JobKnows(j) /\ UNCHANGED <<storeVars, puser, wire>>
  BY JobTypesOf DEF OutboxInv, JobsKnow, PickPanel, JobGoto
<1>2. \A s \in Slots : s \in SlotsAt(p) <=> s[2] = p
  BY DEF Slots, SlotsAt
<1>3. (\A s \in InJob(j) : Inert(s) /\ pstate[s[2]] # "absent")'
  BY <1>1, <1>2 DEF JobTypes, JobKnows, InJob, Inert, Fresh, Busy, PickPanel, JobGoto
<1>4. (/\ jtodo[j] \subseteq old
       /\ \A s \in jhit[j] : row[s] = "pending" => s \in puser
       /\ \A s \in jneed[j] \cup jids[j] : s \in expired /\ row[s] # "pending")'
  BY <1>1, <1>2 DEF JobTypes, JobKnows, PickPanel, JobGoto
<1>5. (/\ jat[j] \notin {"resolve", "bulk", "deleting"} => jhandled[j] = {}
       /\ \A s \in jhandled[j] : s[2] = jpanel[j] /\ (s \in jids[j] \/ s \notin puser))'
  BY <1>1, <1>2 DEF JobTypes, JobKnows, PickPanel, JobGoto
<1>6. (\A s \in jdone[j] : s \notin puser \/ PanelDeleted(s) \/ Misled(j))'
  BY <1>1, <1>2 DEF JobTypes, JobKnows, PanelDeleted, Misled, InJob, PickPanel, JobGoto
<1>7. \A k \in Jobs \ {j} : JobStill(k)
  BY <1>1, <1>2 DEF JobTypes, JobStill, TypeOK, JobTypeOK, PickPanel, JobGoto
<1> QED
  BY <1>1, <1>3, <1>4, <1>5, <1>6, <1>7 DEF RunStep, JobFrame, JobKnows

LEMMA PanelGoneRuns ==
    ASSUME TypeOK, OutboxInv, NEW j \in Jobs, NEW p \in Panels, PanelGone(j, p), UNCHANGED <<handlerVars, envVars>>
    PROVE  RunStep(j)
<1>1. JobTypes /\ JobKnows(j) /\ UNCHANGED <<storeVars, puser, wire>>
  BY JobTypesOf DEF OutboxInv, JobsKnow, PanelGone, JobGoto
<1>2. pstate[p] \in {"absent", "deleted"} \/ Misled(j)'
  BY DEF PanelGone, GetPanelFails, PanelExists, Misled, TypeOK, StoreTypeOK
<1>2a. jdone' = [jdone EXCEPT ![j] = Listed(j) \cap SlotsAt(p)]
  BY DEF PanelGone
<1>2b. \A s \in SlotsAt(p) : s[2] = p
  BY DEF SlotsAt
<1>3. (\A s \in InJob(j) : Inert(s) /\ pstate[s[2]] # "absent")'
  BY <1>1, <1>2, <1>2a, <1>2b DEF JobTypes, JobKnows, InJob, Inert, Fresh, Busy, Listed, PanelGone, JobGoto
<1>4. (/\ jtodo[j] \subseteq old
       /\ \A s \in jhit[j] : row[s] = "pending" => s \in puser
       /\ \A s \in jneed[j] \cup jids[j] : s \in expired /\ row[s] # "pending")'
  BY <1>1, <1>2, <1>2a, <1>2b DEF JobTypes, JobKnows, PanelGone, JobGoto
<1>5. (/\ jat[j] \notin {"resolve", "bulk", "deleting"} => jhandled[j] = {}
       /\ \A s \in jhandled[j] : s[2] = jpanel[j] /\ (s \in jids[j] \/ s \notin puser))'
  BY <1>1, <1>2, <1>2a, <1>2b DEF JobTypes, JobKnows, PanelGone, JobGoto
<1>6. (\A s \in jdone[j] : s \notin puser \/ PanelDeleted(s) \/ Misled(j))'
  BY <1>1, <1>2, <1>2a, <1>2b DEF JobTypes, JobKnows, PanelDeleted, Misled, InJob, Listed, PanelGone, JobGoto
<1>7. \A k \in Jobs \ {j} : JobStill(k)
  BY <1>1, <1>2, <1>2a, <1>2b DEF JobTypes, JobStill, TypeOK, JobTypeOK, PanelGone, JobGoto
<1> QED
  BY <1>1, <1>3, <1>4, <1>5, <1>6, <1>7 DEF RunStep, JobFrame, JobKnows

LEMMA ResolvedRuns ==
    ASSUME TypeOK, OutboxInv, NEW j \in Jobs, Resolved(j), UNCHANGED <<handlerVars, envVars>>
    PROVE  RunStep(j)
<1>1. JobTypes /\ JobKnows(j) /\ UNCHANGED <<storeVars, puser, wire>>
  BY JobTypesOf DEF OutboxInv, JobsKnow, Resolved, JobGoto
<1>3. (\A s \in InJob(j) : Inert(s) /\ pstate[s[2]] # "absent")'
  BY <1>1 DEF JobTypes, JobKnows, InJob, Inert, Fresh, Busy, Resolved, JobGoto
<1>4. (/\ jtodo[j] \subseteq old
       /\ \A s \in jhit[j] : row[s] = "pending" => s \in puser
       /\ \A s \in jneed[j] \cup jids[j] : s \in expired /\ row[s] # "pending")'
  BY <1>1 DEF JobTypes, JobKnows, Resolved, JobGoto
<1>5. (/\ jat[j] \notin {"resolve", "bulk", "deleting"} => jhandled[j] = {}
       /\ \A s \in jhandled[j] : s[2] = jpanel[j] /\ (s \in jids[j] \/ s \notin puser))'
  BY <1>1 DEF JobTypes, JobKnows, Resolved, JobGoto
<1>6. (\A s \in jdone[j] : s \notin puser \/ PanelDeleted(s) \/ Misled(j))'
  BY <1>1 DEF JobTypes, JobKnows, PanelDeleted, Misled, InJob, Resolved, JobGoto
<1>7. \A k \in Jobs \ {j} : JobStill(k)
  BY <1>1 DEF JobTypes, JobStill, TypeOK, JobTypeOK, Resolved, JobGoto
<1> QED
  BY <1>1, <1>3, <1>4, <1>5, <1>6, <1>7 DEF RunStep, JobFrame, JobKnows

LEMMA BulkStartRuns ==
    ASSUME TypeOK, OutboxInv, NEW j \in Jobs, BulkStart(j), UNCHANGED <<handlerVars, envVars>>
    PROVE  RunStep(j)
<1>1. JobTypes /\ JobKnows(j) /\ UNCHANGED <<storeVars, puser, wire>>
  BY JobTypesOf DEF OutboxInv, JobsKnow, BulkStart, JobGoto
<1>3. (\A s \in InJob(j) : Inert(s) /\ pstate[s[2]] # "absent")'
  BY <1>1 DEF JobTypes, JobKnows, InJob, Inert, Fresh, Busy, BulkStart, JobGoto
<1>4. (/\ jtodo[j] \subseteq old
       /\ \A s \in jhit[j] : row[s] = "pending" => s \in puser
       /\ \A s \in jneed[j] \cup jids[j] : s \in expired /\ row[s] # "pending")'
  BY <1>1 DEF JobTypes, JobKnows, BulkStart, JobGoto
<1>5. (/\ jat[j] \notin {"resolve", "bulk", "deleting"} => jhandled[j] = {}
       /\ \A s \in jhandled[j] : s[2] = jpanel[j] /\ (s \in jids[j] \/ s \notin puser))'
  BY <1>1 DEF JobTypes, JobKnows, BulkStart, JobGoto
<1>6. (\A s \in jdone[j] : s \notin puser \/ PanelDeleted(s) \/ Misled(j))'
  BY <1>1 DEF JobTypes, JobKnows, PanelDeleted, Misled, InJob, BulkStart, JobGoto
<1>7. \A k \in Jobs \ {j} : JobStill(k)
  BY <1>1 DEF JobTypes, JobStill, TypeOK, JobTypeOK, BulkStart, JobGoto
<1> QED
  BY <1>1, <1>3, <1>4, <1>5, <1>6, <1>7 DEF RunStep, JobFrame, JobKnows

LEMMA CleanupEndsRuns ==
    ASSUME TypeOK, OutboxInv, NEW j \in Jobs, CleanupEnds(j), UNCHANGED <<handlerVars, envVars>>
    PROVE  RunStep(j)
<1>1. JobTypes /\ JobKnows(j) /\ UNCHANGED <<storeVars, puser, wire>>
  BY JobTypesOf DEF OutboxInv, JobsKnow, CleanupEnds, JobGoto
<1>3. (\A s \in InJob(j) : Inert(s) /\ pstate[s[2]] # "absent")'
  BY <1>1 DEF JobTypes, JobKnows, InJob, Inert, Fresh, Busy, CleanupEnds, JobGoto
<1>4. (/\ jtodo[j] \subseteq old
       /\ \A s \in jhit[j] : row[s] = "pending" => s \in puser
       /\ \A s \in jneed[j] \cup jids[j] : s \in expired /\ row[s] # "pending")'
  BY <1>1 DEF JobTypes, JobKnows, CleanupEnds, JobGoto
<1>5. (/\ jat[j] \notin {"resolve", "bulk", "deleting"} => jhandled[j] = {}
       /\ \A s \in jhandled[j] : s[2] = jpanel[j] /\ (s \in jids[j] \/ s \notin puser))'
  BY <1>1 DEF JobTypes, JobKnows, CleanupEnds, JobGoto
<1>6. (\A s \in jdone[j] : s \notin puser \/ PanelDeleted(s) \/ Misled(j))'
  BY <1>1 DEF JobTypes, JobKnows, PanelDeleted, Misled, InJob, CleanupEnds, JobGoto
<1>7. \A k \in Jobs \ {j} : JobStill(k)
  BY <1>1 DEF JobTypes, JobStill, TypeOK, JobTypeOK, CleanupEnds, JobGoto
<1> QED
  BY <1>1, <1>3, <1>4, <1>5, <1>6, <1>7 DEF RunStep, JobFrame, JobKnows

LEMMA BulkDoneRuns ==
    ASSUME TypeOK, OutboxInv, NEW j \in Jobs, BulkDone(j), UNCHANGED <<handlerVars, envVars>>
    PROVE  RunStep(j)
<1>1. JobTypes /\ JobKnows(j) /\ UNCHANGED <<storeVars, puser, wire>>
  BY JobTypesOf DEF OutboxInv, JobsKnow, BulkDone, ChunksEnd, JobGoto
<1>2. \A s \in jhandled[j] : s \in Slots /\ s \notin puser
  BY <1>1, SlotParts DEF JobTypes, JobKnows, BulkDone, Here, SlotsAt
<1>2a. /\ jdone' = [jdone EXCEPT ![j] = @ \cup jhandled[j]]
       /\ jids' = [jids EXCEPT ![j] = @ \ SlotsAt(jpanel[j])]
       /\ jhandled' = [jhandled EXCEPT ![j] = {}]
       /\ jat' = [jat EXCEPT ![j] = "drop"] /\ jat[j] = "bulk"
       /\ UNCHANGED <<jtodo, jhit, jneed, jpanel>>
  BY DEF BulkDone, ChunksEnd, RowsToDrop, JobGoto
<1>2b. InJob(j)' \subseteq InJob(j)
  BY <1>1, <1>2a DEF JobTypes, InJob
<1>3. (\A s \in InJob(j) : Inert(s) /\ pstate[s[2]] # "absent")'
  BY <1>1, <1>2, <1>2a, <1>2b DEF JobTypes, JobKnows, Inert, Fresh, Busy, BulkDone, ChunksEnd, JobGoto
<1>4. (/\ jtodo[j] \subseteq old
       /\ \A s \in jhit[j] : row[s] = "pending" => s \in puser
       /\ \A s \in jneed[j] \cup jids[j] : s \in expired /\ row[s] # "pending")'
  BY <1>1, <1>2, <1>2a DEF JobTypes, JobKnows, BulkDone, ChunksEnd, JobGoto
<1>5. (/\ jat[j] \notin {"resolve", "bulk", "deleting"} => jhandled[j] = {}
       /\ \A s \in jhandled[j] : s[2] = jpanel[j] /\ (s \in jids[j] \/ s \notin puser))'
  BY <1>1, <1>2, <1>2a DEF JobTypes, JobKnows, BulkDone, ChunksEnd, JobGoto
<1>6. (\A s \in jdone[j] : s \notin puser \/ PanelDeleted(s) \/ Misled(j))'
  BY <1>1, <1>2, <1>2a DEF JobTypes, JobKnows, PanelDeleted, Misled
<1>7. \A k \in Jobs \ {j} : JobStill(k)
  BY <1>1, <1>2, <1>2a DEF JobTypes, JobStill, TypeOK, JobTypeOK, BulkDone, ChunksEnd, JobGoto
<1> QED
  BY <1>1, <1>3, <1>4, <1>5, <1>6, <1>7 DEF RunStep, JobFrame, JobKnows

\* A step that deletes rows a run may drop, or does nothing to the database.
LEMMA DropFrame ==
    ASSUME TypeOK, OutboxInv, NEW j \in Jobs,
           UNCHANGED <<handlerVars, envVars, panelVars, clock, pstate>>,
           row' = row \/ row' = [s \in Slots |-> IF s \in jdone[j] THEN "none" ELSE row[s]]
    PROVE  JobFrame
<1>1. \A s \in jdone[j] : Inert(s) /\ (s \notin puser \/ PanelDeleted(s) \/ ~Reliable)
  BY DEF OutboxInv, JobsKnow, JobKnows, InJob, Misled, Reliable
<1>2. row \in [Slots -> {"none", "pending", "active"}]
  BY DEF TypeOK, StoreTypeOK
<1> QED
  BY <1>1, <1>2 DEF JobFrame

LEMMA DropRowsRuns ==
    ASSUME TypeOK, OutboxInv, NEW j \in Jobs, DropRows(j), UNCHANGED <<handlerVars, envVars>>
    PROVE  RunStep(j)
<1>1. /\ UNCHANGED <<panelVars, clock, pstate, jtodo, jhit, jneed, jids, jhandled, jpanel>>
      /\ jdone' = [jdone EXCEPT ![j] = {}] /\ jat' = [jat EXCEPT ![j] = "pick"]
      /\ jat[j] = "drop"
      /\ row' = row \/ row' = [s \in Slots |-> IF s \in jdone[j] THEN "none" ELSE row[s]]
  BY DEF DropRows, JobGoto, DeleteClaimRows, EraseRows
<1>2. JobFrame
  BY <1>1, DropFrame
<1>3. JobTypes /\ JobKnows(j)
  BY JobTypesOf DEF OutboxInv, JobsKnow
<1>4. \A s \in Slots : (Inert(s)' <=> Inert(s)) /\ (row'[s] = "pending" => row[s] = "pending")
  BY <1>2 DEF JobFrame, Inert, Fresh, Busy
<1>5. JobKnows(j)'
  BY <1>1, <1>3, <1>4 DEF JobKnows, JobTypes, InJob
<1>6. \A k \in Jobs \ {j} : JobStill(k)
  BY <1>1, <1>3 DEF JobStill, JobTypes
<1> QED
  BY <1>2, <1>5, <1>6 DEF RunStep

LEMMA ReconcileActRuns ==
    ASSUME TypeOK, OutboxInv, NEW j \in Jobs, ReconcileAct(j), UNCHANGED <<handlerVars, envVars>>
    PROVE  RunStep(j)
<1>1. /\ UNCHANGED <<panelVars, clock, jtodo, jneed, jids, jhandled, jpanel>>
      /\ jdone' = [jdone EXCEPT ![j] = {}] /\ jhit' = [jhit EXCEPT ![j] = {}]
      /\ jat' = [jat EXCEPT ![j] = "reconcile"] /\ jat[j] = "judge"
      /\ Judge(j)
  BY DEF ReconcileAct, JobGoto
<1>2. /\ JobTypes /\ JobKnows(j)
      /\ row \in [Slots -> {"none", "pending", "active"}]
  BY JobTypesOf DEF OutboxInv, JobsKnow, TypeOK, StoreTypeOK
<1>3. JobFrame
  <2>1. ASSUME NEW c \in jhit[j], MarkClaimActive(c) PROVE JobFrame
    <3>1. c \in Slots /\ Inert(c) /\ (row[c] = "pending" => c \in puser)
      BY <1>2 DEF JobTypes, JobKnows, InJob
    <3>2. row' = row \/ (row[c] # "none" /\ row' = [row EXCEPT ![c] = "active"])
      BY <2>1, Zenon DEF MarkClaimActive, SetActive
    <3>3. UNCHANGED pstate
      BY <2>1 DEF MarkClaimActive
    <3>4. \A s \in Slots : \/ row'[s] = row[s]
                           \/ Inert(s) /\ row[s] # "none" /\ row'[s] = "active" /\ s \in puser
      BY <1>2, <3>1, <3>2
    <3> QED
      BY <1>1, <3>3, <3>4 DEF JobFrame
  <2>2. CASE DeleteClaimRows(jdone[j])
    BY <1>1, <2>2, DropFrame DEF DeleteClaimRows, EraseRows
  <2>3. CASE UNCHANGED <<claimRows, userRows, panelRows>>
    BY <1>1, <2>3, DropFrame
  <2> QED
    BY <1>1, <2>1, <2>2, <2>3 DEF Judge
<1>4. \A s \in Slots : (Inert(s)' <=> Inert(s)) /\ (row'[s] = "pending" => row[s] = "pending")
  BY <1>3 DEF JobFrame, Inert, Fresh, Busy
<1>5. JobKnows(j)'
  BY <1>1, <1>2, <1>3, <1>4 DEF JobKnows, JobTypes, InJob, JobFrame
<1>6. \A k \in Jobs \ {j} : JobStill(k)
  BY <1>1, <1>2 DEF JobStill, JobTypes
<1> QED
  BY <1>3, <1>5, <1>6 DEF RunStep

\* The panel deletes users of a chunk, or nothing.
LEMMA DeleteFrame ==
    ASSUME TypeOK, OutboxInv, NEW j \in Jobs, NEW C \in SUBSET jids[j],
           UNCHANGED <<handlerVars, envVars, storeVars, wire>>,
           puser' \in {puser, puser \ C}
    PROVE  JobFrame
<1>1. \A s \in C : Inert(s) /\ s \in expired /\ row[s] # "pending"
  BY DEF OutboxInv, JobsKnow, JobKnows, InJob
<1> QED
  BY <1>1 DEF JobFrame

LEMMA BulkDeletesRuns ==
    ASSUME TypeOK, OutboxInv, NEW j \in Jobs, NEW C \in Chunks(j), BulkDeletes(j, C),
           UNCHANGED <<handlerVars, envVars>>
    PROVE  RunStep(j)
<1>1. /\ UNCHANGED <<storeVars, wire, jtodo, jhit, jneed, jhandled, jdone, jpanel>>
      /\ puser' = puser \ C /\ jids' = [jids EXCEPT ![j] = @ \ C]
      /\ jat' = [jat EXCEPT ![j] = "bulk"] /\ jat[j] = "deleting"
  BY DEF BulkDeletes, JobGoto
<1>2. C \in SUBSET jids[j]
  BY DEF Chunks, Here
<1>3. JobFrame
  BY <1>1, <1>2, DeleteFrame
<1>4. JobTypes /\ JobKnows(j)
  BY JobTypesOf DEF OutboxInv, JobsKnow
<1>5. \A s \in Slots : s \in jhit[j] /\ row[s] = "pending" => s \notin C
  BY <1>2, <1>4 DEF JobKnows
<1>6. \A s \in Slots : Inert(s)' <=> Inert(s)
  BY <1>3 DEF JobFrame, Inert, Fresh, Busy
<1>7. JobKnows(j)'
  BY <1>1, <1>2, <1>4, <1>5, <1>6 DEF JobKnows, JobTypes, InJob, PanelDeleted, Misled
<1>8. \A k \in Jobs \ {j} : JobStill(k)
  BY <1>1, <1>4 DEF JobStill, JobTypes
<1> QED
  BY <1>3, <1>7, <1>8 DEF RunStep

LEMMA BulkFailsRuns ==
    ASSUME TypeOK, OutboxInv, NEW j \in Jobs, NEW C \in Chunks(j), BulkFails(j, C),
           UNCHANGED <<handlerVars, envVars>>
    PROVE  RunStep(j)
<1> PICK gone \in SUBSET C : puser' = puser \ gone
  BY DEF BulkFails
<1>1. /\ UNCHANGED <<storeVars, wire, jtodo, jhit, jneed, jdone, jpanel>>
      /\ puser' = puser \ gone
      /\ jids' = [jids EXCEPT ![j] = @ \ SlotsAt(jpanel[j])]
      /\ jhandled' = [jhandled EXCEPT ![j] = {}]
      /\ jat' = [jat EXCEPT ![j] = "drop"] /\ jat[j] = "deleting"
  <2>1. ChunksEnd(j, FALSE) /\ puser' = puser \ gone /\ jat[j] = "deleting"
    BY DEF BulkFails
  <2>2. RowsToDrop(j, FALSE) = jdone[j]
    BY DEF RowsToDrop
  <2>3. jdone' = jdone
    BY <2>1, <2>2 DEF ChunksEnd, TypeOK, JobTypeOK
  <2> QED
    BY <2>1, <2>3 DEF ChunksEnd, JobGoto
<1>2. C \in SUBSET jids[j]
  BY DEF Chunks, Here
<1>3. JobFrame
  BY <1>1, <1>2, DeleteFrame
<1>4. JobTypes /\ JobKnows(j)
  BY JobTypesOf DEF OutboxInv, JobsKnow
<1>5. \A s \in Slots : s \in jhit[j] /\ row[s] = "pending" => s \notin C
  BY <1>2, <1>4 DEF JobKnows
<1>6. \A s \in Slots : Inert(s)' <=> Inert(s)
  BY <1>3 DEF JobFrame, Inert, Fresh, Busy
<1>7. JobKnows(j)'
  BY <1>1, <1>2, <1>4, <1>5, <1>6 DEF JobKnows, JobTypes, InJob, PanelDeleted, Misled
<1>8. \A k \in Jobs \ {j} : JobStill(k)
  BY <1>1, <1>4 DEF JobStill, JobTypes
<1> QED
  BY <1>3, <1>7, <1>8 DEF RunStep

LEMMA JanitorRuns ==
    ASSUME TypeOK, OutboxInv, JanitorNext, UNCHANGED <<handlerVars, envVars>>
    PROVE  \E j \in Jobs : RunStep(j)
<1>1. PICK j \in Jobs : ReconcileStart(j) \/ JobStep(j)
  BY DEF JanitorNext
<1>2. RunStep(j)
  BY <1>1, ReconcileStartRuns, ReconcileLookRuns, ReconcileActRuns, CleanupListRuns,
     PickPanelRuns, PanelGoneRuns, ResolveRuns, ResolvedRuns, BulkStartRuns,
     BulkDeletesRuns, BulkFailsRuns, BulkDoneRuns, DropRowsRuns, CleanupEndsRuns
     DEF JobStep
<1> QED
  BY <1>2

LEMMA JanitorSafe ==
    ASSUME TypeOK, OutboxInv, JanitorNext, UNCHANGED <<handlerVars, envVars>>
    PROVE  OutboxInv'
BY JanitorRuns, RunSafe

(***************************************************************************)
(* Time, crashes and administrators.                                       *)
(***************************************************************************)

LEMMA UntouchedSafe ==
    ASSUME OutboxInv, UNCHANGED <<jobVars, puser, wire, row, old, expired, excused, pstate,
                                  pc, left, cur, reply>>
    PROVE  OutboxInv'
<1>1. \A s \in Slots : /\ Fresh(s)' <=> Fresh(s)
                       /\ Busy(s)' <=> Busy(s)
                       /\ Inert(s)' <=> Inert(s)
                       /\ PanelDeleted(s)' <=> PanelDeleted(s)
  BY DEF Fresh, Busy, Inert, PanelDeleted
<1>2. HandlersKnow'
  BY DEF OutboxInv, HandlersKnow, FreshClean, CurTried, ReturnedClean, RowsOnPanels,
         LeftOnPanels, WireYoung, BusyKnows, ReplyKnows, ActiveInert, NoOrphan,
         UnexpiredServed, Told, ToldKnows, Reliable, Fresh, Busy, Inert, PanelDeleted
<1>3. JobsKnow'
  BY DEF OutboxInv, JobsKnow, JobKnows, InJob, Fresh, Busy, Inert, PanelDeleted, Misled
<1> QED
  BY <1>2, <1>3 DEF OutboxInv

\* Time: slots grow old or expire.
LEMMA TimeSafe ==
    ASSUME TypeOK, OutboxInv, NEW c \in Slots, GrowOld(c) \/ Expire(c)
    PROVE  OutboxInv'
<1>1. /\ UNCHANGED <<jobVars, puser, wire, row, excused, pstate, pc, left, cur, reply>>
      /\ \/ expired' = expired /\ old' = old \cup {c} /\ row[c] = "pending" /\ ~InFlight(c)
         \/ old' = old /\ expired' = expired \cup {c}
  BY DEF GrowOld, Expire
<1>2. \A s \in Slots : /\ Fresh(s)' <=> Fresh(s)
                       /\ Busy(s)' <=> Busy(s)
                       /\ Inert(s) => Inert(s)'
                       /\ PanelDeleted(s)' <=> PanelDeleted(s)
  BY <1>1 DEF Fresh, Busy, Inert, PanelDeleted
<1>3. wire \in SUBSET Slots /\ puser \in SUBSET Slots
  BY DEF TypeOK, PanelTypeOK
<1> USE <1>1, <1>2, <1>3 DEF OutboxInv, HandlersKnow
<1>4. FreshClean'
  BY DEF FreshClean
<1>5. CurTried' /\ ReturnedClean'
  BY DEF CurTried, ReturnedClean
<1>6. RowsOnPanels' /\ LeftOnPanels'
  BY DEF RowsOnPanels, LeftOnPanels
<1>7. WireYoung'
  BY DEF WireYoung, InFlight
<1>8. BusyKnows'
  BY DEF BusyKnows, Busy, InFlight
<1>9. ReplyKnows'
  BY DEF ReplyKnows
<1>10. Frame
  BY DEF Frame
<1>11. ActiveInert'
  BY DEF ActiveInert
<1>12. UnexpiredServed' /\ (Told => ToldKnows)' /\ (Reliable => NoOrphan)'
  BY DEF UnexpiredServed, Told, ToldKnows, Reliable, NoOrphan
<1>13. JobsKnow'
  BY <1>10, JobsKeep
<1> QED
  BY <1>4, <1>5, <1>6, <1>7, <1>8, <1>9, <1>11, <1>12, <1>13

LEMMA CrashSafe ==
    ASSUME TypeOK, OutboxInv, Crash
    PROVE  OutboxInv'
<1>1. HandlerTypes
  BY TypesOf
<1>2. /\ UNCHANGED <<puser, wire, row, old, expired, excused, pstate, cur>>
      /\ pc' = [u \in Attempts |-> IF pc[u] \in Live THEN "done" ELSE pc[u]]
      /\ left' = [u \in Attempts |-> {}]
  BY DEF Crash
<1>3. \A j \in Jobs : InJob(j)' = {} /\ jat'[j] = "idle"
  BY DEF Crash, InJob, Nothing
<1>4. \A u \in Attempts : pc'[u] \in {"idle", "done"} /\ (pc'[u] = "idle" => pc[u] = "idle")
  BY <1>1, <1>2 DEF HandlerTypes, Places, Live
<1>5. \A s \in Slots : (Fresh(s)' => Fresh(s)) /\ ~Busy(s)' /\ (Inert(s) => Inert(s)')
  BY <1>2, <1>4, SlotParts DEF Fresh, Busy, Inert
<1>6. FreshClean' /\ WireYoung' /\ BusyKnows' /\ ActiveInert'
  BY <1>2, <1>5 DEF OutboxInv, HandlersKnow, FreshClean, WireYoung, BusyKnows, ActiveInert
<1>7. CurTried' /\ ReturnedClean' /\ LeftOnPanels' /\ ReplyKnows'
  BY <1>2, <1>4, SlotParts DEF CurTried, ReturnedClean, LeftOnPanels, ReplyKnows
<1>8. RowsOnPanels' /\ UnexpiredServed' /\ (Reliable => NoOrphan)'
  BY <1>2 DEF OutboxInv, HandlersKnow, RowsOnPanels, NoOrphan, UnexpiredServed, PanelDeleted,
     Reliable
<1>9. (Told => ToldKnows)'
  BY <1>2, <1>4, <1>5, SlotParts DEF OutboxInv, HandlersKnow, Told, ToldKnows
<1>10. JobsKnow'
  BY <1>3 DEF JobsKnow, JobKnows, InJob
<1> QED
  BY <1>6, <1>7, <1>8, <1>9, <1>10 DEF OutboxInv, HandlersKnow

\* The state of a panel's row changes.
LEMMA SetPanelSafe ==
    ASSUME TypeOK, OutboxInv, NEW p \in Panels, NEW state \in {"on", "off", "deleted"},
           pstate[p] # "deleted", SetPanel(p, state)
    PROVE  OutboxInv'
<1>1. /\ pstate' = [pstate EXCEPT ![p] = state] /\ pstate \in [Panels -> {"absent", "on", "off", "deleted"}]
      /\ UNCHANGED <<jobVars, puser, wire, row, old, expired, excused, pc, left, cur, reply>>
  BY DEF SetPanel, TypeOK, StoreTypeOK
<1>2. \A q \in Panels : /\ pstate[q] # "absent" => pstate'[q] # "absent"
                        /\ pstate[q] = "deleted" => pstate'[q] = "deleted"
  BY <1>1
<1>3. \A s \in Slots : /\ Fresh(s)' <=> Fresh(s)
                       /\ Busy(s)' <=> Busy(s)
                       /\ Inert(s)' <=> Inert(s)
                       /\ PanelDeleted(s) => PanelDeleted(s)'
  BY <1>1, <1>2, SlotParts DEF Fresh, Busy, Inert, PanelDeleted
<1>4. Frame
  BY <1>1, <1>2, <1>3 DEF Frame
<1>5. wire \in SUBSET Slots /\ puser \in SUBSET Slots /\ left \in [Attempts -> SUBSET Panels]
  BY TypesOf DEF HandlerTypes
<1> USE <1>1, <1>3 DEF OutboxInv, HandlersKnow
<1>6. FreshClean' /\ CurTried' /\ ReturnedClean'
  BY DEF FreshClean, CurTried, ReturnedClean
<1>7. RowsOnPanels' /\ LeftOnPanels'
  BY <1>2, <1>5, SlotParts DEF RowsOnPanels, LeftOnPanels
<1>8. WireYoung' /\ BusyKnows' /\ ReplyKnows' /\ ActiveInert'
  BY DEF WireYoung, BusyKnows, ReplyKnows, ActiveInert
<1>9. UnexpiredServed' /\ (Told => ToldKnows)' /\ (Reliable => NoOrphan)'
  BY <1>5 DEF UnexpiredServed, Told, ToldKnows, Reliable, NoOrphan
<1>10. JobsKnow'
  BY <1>4, JobsKeep
<1> QED
  BY <1>6, <1>7, <1>8, <1>9, <1>10

LEMMA DeleteUserSafe ==
    ASSUME TypeOK, OutboxInv, NEW t \in Users, DeleteUserFull(t)
    PROVE  OutboxInv'
<1>1. /\ row' = [s \in Slots |-> IF s \in ClaimsOf(t) THEN "none" ELSE row[s]]
      /\ excused' = excused \cup ClaimsOf(t)
      /\ UNCHANGED <<jobVars, puser, wire, old, expired, pstate, pc, left, cur, reply>>
  BY DEF DeleteUserFull, EraseRows
<1>2. \A s \in Slots : /\ Fresh(s)' <=> Fresh(s)
                       /\ Busy(s)' <=> Busy(s)
                       /\ Inert(s)' <=> Inert(s)
                       /\ PanelDeleted(s)' <=> PanelDeleted(s)
  BY <1>1 DEF Fresh, Busy, Inert, PanelDeleted
<1>3. \A s \in Slots : \/ row'[s] = row[s] /\ (s \in excused => s \in excused')
                       \/ row'[s] = "none" /\ s \in excused'
  BY <1>1
<1>4. wire \in SUBSET Slots /\ puser \in SUBSET Slots
  BY TypesOf DEF HandlerTypes
<1>5. UNCHANGED <<jobVars, puser, wire, old, expired, pstate, pc, left, cur, reply>>
  BY <1>1
<1>6. Frame
  BY <1>2, <1>3, <1>5 DEF Frame
<1> USE <1>2, <1>3, <1>5 DEF OutboxInv, HandlersKnow
<1>7. FreshClean' /\ CurTried' /\ ReturnedClean'
  BY DEF FreshClean, CurTried, ReturnedClean
<1>8. RowsOnPanels' /\ LeftOnPanels'
  BY DEF RowsOnPanels, LeftOnPanels
<1>9. WireYoung' /\ BusyKnows' /\ ReplyKnows' /\ ActiveInert'
  BY <1>4 DEF WireYoung, BusyKnows, ReplyKnows, ActiveInert
<1>10. UnexpiredServed' /\ (Told => ToldKnows)' /\ (Reliable => NoOrphan)'
  BY <1>4 DEF UnexpiredServed, Told, ToldKnows, Reliable, NoOrphan
<1>11. JobsKnow'
  BY <1>6, JobsKeep
<1> QED
  BY <1>7, <1>8, <1>9, <1>10, <1>11

LEMMA AdminSafe ==
    ASSUME TypeOK, OutboxInv, Admin
    PROVE  OutboxInv'
<1>1. ASSUME NEW p \in Panels, AddPanel(p) PROVE OutboxInv'
  BY <1>1, SetPanelSafe DEF AddPanel
<1>2. ASSUME NEW p \in Panels, TogglePanel(p) PROVE OutboxInv'
  BY <1>2, SetPanelSafe DEF TogglePanel, PanelExists
<1>3. ASSUME NEW p \in Panels, DeletePanel(p) PROVE OutboxInv'
  BY <1>3, SetPanelSafe DEF DeletePanel, PanelExists
<1> QED
  BY <1>1, <1>2, <1>3, DeleteUserSafe DEF Admin

(***************************************************************************)
(* The theorems.                                                           *)
(***************************************************************************)

LEMMA InitOutbox == Init => OutboxInv
<1> SUFFICES ASSUME Init PROVE OutboxInv
  OBVIOUS
<1>1. HandlersKnow
  BY SlotParts DEF Init, StoreInit, PanelInit, HandlerInit, HandlersKnow, FreshClean, CurTried,
         ReturnedClean, RowsOnPanels, LeftOnPanels, WireYoung, BusyKnows, Busy,
         ReplyKnows, ActiveInert, ToldKnows, NoOrphan, UnexpiredServed
<1>2. JobsKnow
  BY DEF Init, JobInit, Nothing, JobsKnow, JobKnows, InJob
<1> QED
  BY <1>1, <1>2 DEF OutboxInv

LEMMA NextOutbox ==
    ASSUME TypeOK, OutboxInv, [Next]_vars
    PROVE  OutboxInv'
<1>1. CASE HandlerNext /\ UNCHANGED <<jobVars, envVars>>
  BY <1>1, HandlerSafe, JobsKeep DEF OutboxInv
<1>2. CASE JanitorNext /\ UNCHANGED <<handlerVars, envVars>>
  BY <1>2, JanitorSafe
<1>3. ASSUME NEW s \in Slots, GrowOld(s) \/ Expire(s) PROVE OutboxInv'
  BY <1>3, TimeSafe
<1>4. CASE NewDay \/ MidnightReset \/ UNCHANGED vars \/ \E t \in Users : Register(t)
  BY <1>4, UntouchedSafe DEF NewDay, MidnightReset, Register
<1>5. CASE Crash
  BY <1>5, CrashSafe
<1>6. CASE Admin
  BY <1>6, AdminSafe
<1> QED
  BY <1>1, <1>2, <1>3, <1>4, <1>5, <1>6 DEF Next, Quiet

\* Whatever fails, crashes, is lost or overlaps: what the handlers know of their
\* slots and what every cleanup run knows of the rows it has read stays true.
THEOREM OutboxInvariant == Spec => []OutboxInv
<1>1. Init => IInv
  BY InitType, InitOutbox DEF IInv
<1>2. IInv /\ [Next]_vars => IInv'
  BY NextType, NextOutbox DEF IInv
<1>3. IInv => OutboxInv
  BY DEF IInv
<1> QED
  BY <1>1, <1>2, <1>3, PTL DEF Spec

LEMMA Inductive == Spec => []IInv
<1>1. IInv <=> TypeOK /\ OutboxInv
  BY DEF IInv
<1> QED
  BY <1>1, TypeCorrect, OutboxInvariant, PTL

\* While no answer of a panel is lost, no lookup fails for want of a connection and
\* no query fails, no user the bot made on a panel is ever without the claim row that
\* leads the cleanup to it (claim.go:118).  Crashes, failing writes, failing bulk
\* deletes and the administrators' menus are all allowed.
THEOREM NeverOrphaned ==
    ASSUME Reliable
    PROVE  Spec => []NoOrphan
<1>1. OutboxInv => NoOrphan
  BY DEF OutboxInv, HandlersKnow
<1> QED
  BY <1>1, OutboxInvariant, PTL

\* Whatever fails, no cleanup run, however stale its reads, takes an unexpired config
\* away, and none is confirmed without its user (scheduler.go:259).
THEOREM ServedUntilExpired == Spec => []UnexpiredServed
<1>1. OutboxInv => UnexpiredServed
  BY DEF OutboxInv, HandlersKnow
<1> QED
  BY <1>1, OutboxInvariant, PTL

(***************************************************************************)
(* One panel per attempt.                                                  *)
(***************************************************************************)

Taken == puser \cup wire

LEMMA OneSlotSplit ==
    ASSUME TypeOK
    PROVE  OneSlotTaken <=>
             /\ \A s, c \in Slots : s \in Taken /\ c \in Taken /\ s[1] = c[1] => s[2] = c[2]
             /\ \A s \in Slots : s \in Taken /\ pc[s[1]] \in Live =>
                  pc[s[1]] \in {"await", "ok"} /\ cur[s[1]] = s[2]
<1>1. Taken \subseteq Slots
  BY DEF Taken, TypeOK, PanelTypeOK
<1>2. ASSUME NEW u \in Attempts, NEW p \in Panels PROVE <<u, p>> \in Slots
  BY DEF Slots
<1>3. (\A u \in Attempts : \A p, q \in Panels : {<<u, p>>, <<u, q>>} \subseteq Taken => p = q)
        <=> \A s, c \in Slots : s \in Taken /\ c \in Taken /\ s[1] = c[1] => s[2] = c[2]
  <2>1. ASSUME \A u \in Attempts : \A p, q \in Panels :
                 {<<u, p>>, <<u, q>>} \subseteq Taken => p = q,
               NEW s \in Slots, NEW c \in Slots, s \in Taken, c \in Taken, s[1] = c[1]
        PROVE  s[2] = c[2]
    BY <2>1, SlotParts
  <2>2. ASSUME \A s, c \in Slots : s \in Taken /\ c \in Taken /\ s[1] = c[1] => s[2] = c[2],
               NEW u \in Attempts, NEW p \in Panels, NEW q \in Panels,
               {<<u, p>>, <<u, q>>} \subseteq Taken
        PROVE  p = q
    <3>1. <<u, p>>[2] = <<u, q>>[2]
      BY <1>2, <2>2
    <3> QED
      BY <3>1
  <2> QED
    BY <2>1, <2>2
<1> QED
  BY <1>1, <1>3 DEF OneSlotTaken, Taken

\* A step that puts nobody on a panel, and leaves alone or ends a handler that has
\* a slot taken.
LEMMA TakesNothing ==
    ASSUME TypeOK, TypeOK', OneSlotTaken, Taken' \subseteq Taken,
           \A s \in Slots : s \in Taken' =>
             \/ pc'[s[1]] = pc[s[1]] /\ cur'[s[1]] = cur[s[1]]
             \/ pc'[s[1]] = "ok" /\ cur'[s[1]] = s[2]
             \/ pc'[s[1]] = "done"
    PROVE  OneSlotTaken'
<1>1. (\A s, c \in Slots : s \in Taken /\ c \in Taken /\ s[1] = c[1] => s[2] = c[2])'
  BY OneSlotSplit
<1>2. (\A s \in Slots : s \in Taken /\ pc[s[1]] \in Live =>
          pc[s[1]] \in {"await", "ok"} /\ cur[s[1]] = s[2])'
  BY OneSlotSplit DEF Live
<1> QED
  BY <1>1, <1>2, OneSlotSplit, PTL

LEMMA OneSlotHandler ==
    ASSUME TypeOK, TypeOK', OutboxInv, Told, OneSlotTaken,
           HandlerNext, UNCHANGED <<jobVars, envVars>>
    PROVE  OneSlotTaken'
<1> USE TypesOf DEF HandlerTypes
<1>1. ASSUME NEW u \in Attempts, LocalStep(u) PROVE OneSlotTaken'
  <2>1. LocalEffect(u)
    BY <1>1, LocalEffects
  <2>2. pc[u] = "idle" => \A s \in Slots : s[1] = u => s \notin Taken
    BY DEF OutboxInv, HandlersKnow, FreshClean, Fresh, Taken
  <2>3. pc[u] \in {"select", "choose", "send", "failed"} =>
          \A s \in Slots : s[1] = u => s \notin Taken
    BY OneSlotSplit DEF Live, Places
  <2> QED
    BY <2>1, <2>2, <2>3, SlotParts, TakesNothing DEF LocalEffect, Taken
<1>2. ASSUME NEW u \in Attempts, SendCreate(u) \/ Resend(u) PROVE OneSlotTaken'
  <2>1. /\ pc[u] = "send" \/ (pc[u] = "await" /\ reply[u] = "neterr")
        /\ pc' = [pc EXCEPT ![u] = "await"]
        /\ wire' = wire \cup {Slot(u)} /\ UNCHANGED <<puser, cur>>
    BY <1>2 DEF SendCreate, Resend, Goto
  <2>2. \A s \in Slots : s \in Taken /\ s[1] = u => s = Slot(u)
    BY <2>1, OneSlotSplit, SlotOf DEF Live, Places
  <2>3. \A s \in Slots : s \in Taken' => s \in Taken \/ s = Slot(u)
    BY <2>1 DEF Taken
  <2>4. (\A s, c \in Slots : s \in Taken /\ c \in Taken /\ s[1] = c[1] => s[2] = c[2])'
    BY <2>2, <2>3, OneSlotSplit, SlotOf
  <2>5. (\A s \in Slots : s \in Taken /\ pc[s[1]] \in Live =>
            pc[s[1]] \in {"await", "ok"} /\ cur[s[1]] = s[2])'
    BY <2>1, <2>2, <2>3, OneSlotSplit, SlotOf, SlotParts
  <2> QED
    BY <2>4, <2>5, OneSlotSplit, PTL
<1>3. ASSUME NEW u \in Attempts, CreateReturns(u) PROVE OneSlotTaken'
  <2>1. /\ pc[u] = "await" /\ UNCHANGED <<puser, wire, cur>>
        /\ \/ pc' = [pc EXCEPT ![u] = "ok"]
           \/ reply[u] \in {"fail", "neterr"} /\ pc' = [pc EXCEPT ![u] = "failed"]
    BY <1>3 DEF CreateReturns, Goto
  <2>2. \A s \in Slots : s \in Taken /\ s[1] = u => cur[u] = s[2]
    BY <2>1, OneSlotSplit DEF Live, Places
  <2>3. reply[u] \in {"fail", "neterr"} => \A s \in Slots : s[1] = u => s \notin Taken
    BY <2>1, <2>2 DEF OutboxInv, HandlersKnow, ToldKnows, Taken
  <2> QED
    BY <2>1, <2>2, <2>3, SlotParts, TakesNothing DEF Taken
<1>4. ASSUME NEW u \in Attempts, Rollback(u) \/ InsertPending(u) PROVE OneSlotTaken'
  <2>1. /\ pc[u] \in {"failed", "choose"} /\ UNCHANGED <<puser, wire>>
        /\ \A v \in Attempts \ {u} : pc'[v] = pc[v] /\ cur'[v] = cur[v]
    BY <1>4 DEF Rollback, InsertPending, Goto, TypeOK, HandlerTypeOK
  <2>2. \A s \in Slots : s[1] = u => s \notin Taken
    BY <2>1, OneSlotSplit DEF Live, Places
  <2> QED
    BY <2>1, <2>2, SlotParts, TakesNothing DEF Taken
<1>5. ASSUME NEW u \in Attempts, Confirm(u) PROVE OneSlotTaken'
  <2>1. pc' = [pc EXCEPT ![u] = "done"] /\ UNCHANGED <<puser, wire, cur>>
    BY <1>5 DEF Confirm, Goto, Return
  <2> QED
    BY <2>1, SlotParts, TakesNothing DEF Taken
<1>6. ASSUME NEW c \in Slots, Network(c) PROVE OneSlotTaken'
  <2>1. UNCHANGED <<pc, cur>> /\ Taken' \subseteq Taken
    BY <1>6 DEF Network, PanelCreates, PanelRefuses, RequestTimesOut, Taken
  <2> QED
    BY <2>1, TakesNothing
<1> QED
  BY <1>1, <1>2, <1>3, <1>4, <1>5, <1>6 DEF HandlerNext, HandlerStep, LocalStep

LEMMA OneSlotNext ==
    ASSUME TypeOK, TypeOK', OutboxInv, Told, OneSlotTaken, [Next]_vars
    PROVE  OneSlotTaken'
<1>1. CASE HandlerNext /\ UNCHANGED <<jobVars, envVars>>
  BY <1>1, OneSlotHandler
<1>2. CASE JanitorNext /\ UNCHANGED <<handlerVars, envVars>>
  <2>1. UNCHANGED <<pc, cur, wire>> /\ puser' \subseteq puser
    BY <1>2, JanitorRuns DEF RunStep, JobFrame
  <2> QED
    BY <2>1, TakesNothing DEF Taken
<1>3. CASE Crash
  <2>1. /\ UNCHANGED <<puser, wire, cur>>
        /\ \A u \in Attempts : pc'[u] = pc[u] \/ pc'[u] = "done"
    BY <1>3 DEF Crash, TypeOK, HandlerTypeOK
  <2> QED
    BY <2>1, SlotParts, TakesNothing DEF Taken
<1>4. ASSUME UNCHANGED <<pc, cur, puser, wire>> PROVE OneSlotTaken'
  BY <1>4, TakesNothing DEF Taken
<1>5. CASE Admin
  BY <1>4, <1>5 DEF Admin, AddPanel, TogglePanel, DeletePanel, SetPanel, DeleteUserFull
<1>6. CASE \/ UNCHANGED vars \/ NewDay \/ MidnightReset
           \/ \E s \in Slots : GrowOld(s) \/ Expire(s)
           \/ \E t \in Users : Register(t)
  BY <1>4, <1>6 DEF NewDay, MidnightReset, GrowOld, Expire, Register
<1> QED
  BY <1>1, <1>2, <1>3, <1>5, <1>6 DEF Next, Quiet

\* While no answer of a panel is lost, an attempt that tries panel after panel ends
\* up on at most one of them (claim.go:140), whatever else fails.
THEOREM OnePanelOnly ==
    ASSUME Told
    PROVE  Spec => []OnePanelPerAttempt
<1>1. Init => OneSlotTaken
  BY DEF Init, PanelInit, OneSlotTaken
<1>2. IInv /\ IInv' /\ OneSlotTaken /\ [Next]_vars => OneSlotTaken'
  BY OneSlotNext DEF IInv
<1>3. OneSlotTaken => OnePanelPerAttempt
  BY DEF OneSlotTaken, OnePanelPerAttempt
<1> QED
  BY <1>1, <1>2, <1>3, Inductive, PTL DEF Spec
=============================================================================
