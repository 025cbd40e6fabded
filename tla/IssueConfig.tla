------------------------------ MODULE IssueConfig ------------------------------
(***************************************************************************)
(* The handler that issues a config: tryClaim up to its daily check, then  *)
(* issueConfig (internal/bot/claim.go) with Client.CreateUser and its      *)
(* retrying Client.do (internal/hiddify).  telebot runs every update in a  *)
(* goroutine of its own, so any number of attempts run at once, also for   *)
(* the same user.                                                          *)
(*                                                                         *)
(*   idle -> select -> choose -> send -> await -> ok ----> done            *)
(*                       ^  |      |       |                 ^             *)
(*                       |  +------|-------|-- no panel left -+            *)
(*                       +-- failed <------+                               *)
(***************************************************************************)
EXTENDS PanelClient

CONSTANTS
    MaxTries   \* maxAttempts of Client.do

ASSUME HandlerAssumption == MaxTries \in Nat \ {0}

VARIABLES
    pc,       \* where attempt u is
    tg,       \* its user
    today,    \* the day it read at its start; claim_date of its rows
    left,     \* panels it has still to try
    seen,     \* their used_today_mb when they were selected
    cur,      \* the panel it is trying
    reply,    \* what Client.do has got from the panel so far
    tries     \* requests Client.do has sent

handlerVars == <<pc, tg, today, left, seen, cur, reply, tries>>

Places == {"idle", "select", "choose", "send", "await", "ok", "failed", "done"}
Live == Places \ {"idle", "done"}

HandlerTypeOK ==
    /\ pc \in [Attempts -> Places]
    /\ tg \in [Attempts -> Users]
    /\ today \in [Attempts -> Days]
    /\ left \in [Attempts -> SUBSET Panels]
    /\ seen \in [Attempts -> [Panels -> Nat]]
    /\ cur \in [Attempts -> Panels]
    /\ reply \in [Attempts -> {"none", "ok", "fail", "neterr"}]
    /\ tries \in [Attempts -> 0 .. MaxTries]

NoUsage == [p \in Panels |-> 0]

HandlerInit ==
    /\ pc = [u \in Attempts |-> "idle"]
    /\ tg = [u \in Attempts |-> CHOOSE t \in Users : TRUE]
    /\ today = [u \in Attempts |-> 0]
    /\ left = [u \in Attempts |-> {}]
    /\ seen = [u \in Attempts |-> NoUsage]
    /\ cur = [u \in Attempts |-> CHOOSE p \in Panels : TRUE]
    /\ reply = [u \in Attempts |-> "none"]
    /\ tries = [u \in Attempts |-> 0]

Goto(u, place) == pc' = [pc EXCEPT ![u] = place]

\* The handler returns and its locals are gone.
Return(u) ==
    /\ Goto(u, "done")
    /\ left' = [left EXCEPT ![u] = {}]
    /\ seen' = [seen EXCEPT ![u] = NoUsage]

\* The slot attempt u is working on.
Slot(u) == <<u, cur[u]>>

(***************************************************************************)
(* tryClaim: upsert the user, read the row, refuse a second config on the  *)
(* same Tehran day.  The membership gate that follows takes network calls  *)
(* and changes nothing here; SelectPanels is a later step for that reason. *)
(* A user who is banned, or who comes during maintenance, starts nothing.  *)
(***************************************************************************)
StartClaim(u, t) ==
    /\ pc[u] = "idle"
    /\ lastClaim[t] # day
    /\ Goto(u, "select")
    /\ known' = known \cup {t}
    /\ tg' = [tg EXCEPT ![u] = t]
    /\ today' = [today EXCEPT ![u] = day]
    /\ UNCHANGED <<claimRows, lastClaim, panelRows, clock, panelVars,
                   left, seen, cur, reply, tries>>

\* The gate asks the user to join a channel first, or one of its queries fails.
GateRefuses(u) ==
    /\ pc[u] = "select"
    /\ Return(u)
    /\ UNCHANGED <<storeVars, panelVars, tg, today, cur, reply, tries>>

SelectPanels(u) ==
    /\ pc[u] = "select"
    /\ \/ {} \in Rows(PanelsForVolume) /\ Return(u)
       \/ /\ PanelsForVolume # {}
          /\ left' = [left EXCEPT ![u] = PanelsForVolume]
          /\ seen' = [seen EXCEPT ![u] = used]
          /\ Goto(u, "choose")
    /\ UNCHANGED <<storeVars, panelVars, tg, today, cur, reply, tries>>

LeastUsed(u) == {p \in left[u] : \A q \in left[u] : seen[u][p] <= seen[u][q]}

\* One round of the panel loop: the outbox row goes in before the create.
InsertPending(u) ==
    /\ pc[u] = "choose"
    /\ \E p \in LeastUsed(u) :
         /\ InsertPendingClaim(<<u, p>>)
         /\ cur' = [cur EXCEPT ![u] = p]
         /\ left' = [left EXCEPT ![u] = @ \ {p}]
    /\ Goto(u, "send")
    /\ UNCHANGED <<userRows, panelRows, clock, panelVars, tg, today, seen, reply, tries>>

\* The insert fails: the handler gives up.
InsertFails(u) ==
    /\ "dbError" \in Faults
    /\ pc[u] = "choose" /\ left[u] # {}
    /\ Return(u)
    /\ UNCHANGED <<storeVars, panelVars, tg, today, cur, reply, tries>>

\* Every panel was tried.
NoPanelLeft(u) ==
    /\ pc[u] = "choose" /\ left[u] = {}
    /\ Return(u)
    /\ UNCHANGED <<storeVars, panelVars, tg, today, cur, reply, tries>>

(***************************************************************************)
(* CreateUser waits for the panel's mutex without regard to its context,   *)
(* whose 40 s run from before the insert.  A context that has expired lets *)
(* no request out; one that has not belongs to a row younger than the 10   *)
(* minutes of the reconciliation.                                          *)
(***************************************************************************)

\* A mutant of CtxLive: the request goes out however long the mutex was waited for.
CtxIgnored(u) == TRUE

CtxLive(u) == Slot(u) \notin old

SendCreate(u) ==
    /\ pc[u] = "send"
    /\ CtxLive(u)
    /\ Acquire(cur[u], "handler")
    /\ wire' = wire \cup {Slot(u)}
    /\ reply' = [reply EXCEPT ![u] = "none"]
    /\ tries' = [tries EXCEPT ![u] = 1]
    /\ Goto(u, "await")
    /\ UNCHANGED <<storeVars, puser, tg, today, left, seen, cur>>

\* The context expired while the mutex was held by others.
CreateExpired(u) ==
    /\ pc[u] = "send"
    /\ lock[cur[u]] = "free"
    /\ Goto(u, "failed")
    /\ UNCHANGED <<storeVars, panelVars, tg, today, left, seen, cur, reply, tries>>

\* A mutant of the next definition: one request too many.
MayRetryOnceMore(u) == tries[u] <= MaxTries

MayRetry(u) == tries[u] < MaxTries

\* Every method is retried after a network error, a POST too.
Resend(u) ==
    /\ pc[u] = "await" /\ reply[u] = "neterr"
    /\ MayRetry(u) /\ CtxLive(u)
    /\ wire' = wire \cup {Slot(u)}
    /\ reply' = [reply EXCEPT ![u] = "none"]
    /\ tries' = [tries EXCEPT ![u] = @ + 1]
    /\ UNCHANGED <<storeVars, puser, lock, pc, tg, today, left, seen, cur>>

\* CreateUser returns (after its pacing pause) and drops the mutex: with the user
\* it created, with ErrPanelFull or another answer of the panel, or with the last
\* network error once the retries are used up or the 40 s are over.
CreateReturns(u) ==
    /\ pc[u] = "await"
    /\ \/ reply[u] = "ok" /\ Goto(u, "ok")
       \/ reply[u] \in {"fail", "neterr"} /\ Goto(u, "failed")
    /\ reply' = [reply EXCEPT ![u] = "none"]
    /\ tries' = [tries EXCEPT ![u] = 0]
    /\ Release(cur[u])
    /\ UNCHANGED <<storeVars, puser, wire, tg, today, left, seen, cur>>

\* The claim is confirmed, with the panel's numeric id, or 0 when the panel
\* answered with an empty body.
Confirm(u) ==
    /\ pc[u] = "ok"
    /\ \E id \in {0, 1} : ConfirmClaim(Slot(u), tg[u], today[u], id)
    /\ Return(u)
    /\ UNCHANGED <<clock, panelVars, tg, today, cur, reply, tries>>

\* A mutant of the next definition: the loop goes on instead of breaking.
ConfirmFailsContinues(u) ==
    /\ "dbError" \in Faults
    /\ pc[u] = "ok"
    /\ Goto(u, "choose")
    /\ UNCHANGED <<storeVars, panelVars, tg, today, left, seen, cur, reply, tries>>

\* The transaction fails: logged, and the config is delivered all the same.
ConfirmFails(u) ==
    /\ "dbError" \in Faults
    /\ pc[u] = "ok"
    /\ Return(u)
    /\ UNCHANGED <<storeVars, panelVars, tg, today, cur, reply, tries>>

\* A mutant of the next definition: the row of a failed create stays.
RollbackForgotten(u) ==
    /\ pc[u] = "failed"
    /\ Goto(u, "choose")
    /\ UNCHANGED <<storeVars, panelVars, tg, today, left, seen, cur, reply, tries>>

\* A failed create takes its pending row back, then the next panel is tried.
Rollback(u) ==
    /\ pc[u] = "failed"
    /\ DeleteClaimRows({Slot(u)})
    /\ Goto(u, "choose")
    /\ UNCHANGED <<clock, panelVars, tg, today, left, seen, cur, reply, tries>>

\* The error of the DELETE is ignored: the pending row stays.
RollbackFails(u) ==
    /\ "dbError" \in Faults
    /\ pc[u] = "failed"
    /\ Goto(u, "choose")
    /\ UNCHANGED <<storeVars, panelVars, tg, today, left, seen, cur, reply, tries>>

HandlerStep(u) ==
    \/ GateRefuses(u) \/ SelectPanels(u) \/ InsertPending(u) \/ InsertFails(u) \/ NoPanelLeft(u)
    \/ SendCreate(u) \/ CreateExpired(u) \/ Resend(u) \/ CreateReturns(u)
    \/ Confirm(u) \/ ConfirmFails(u) \/ Rollback(u) \/ RollbackFails(u)

(***************************************************************************)
(* The panel's side of a create, and the network between the two.          *)
(***************************************************************************)
Awaiting(s) == pc[s[1]] = "await" /\ cur[s[1]] = s[2] /\ reply[s[1]] = "none"

Answer(s, r) == reply' = IF Awaiting(s) THEN [reply EXCEPT ![s[1]] = r] ELSE reply

\* The panel creates the user.  Its answer may be lost, be a 5xx of the apply, or
\* not be readable.
PanelCreates(s) ==
    /\ s \in wire
    /\ wire' = wire \ {s}
    /\ puser' = puser \cup {s}
    /\ \E r \in {"ok"} \cup (IF "lostReply" \in Faults THEN {"neterr", "fail"} ELSE {}) :
         Answer(s, r)
    /\ UNCHANGED <<storeVars, lock, pc, tg, today, left, seen, cur, tries>>

\* The panel is full or refuses for another reason, or was never reached.
PanelRefuses(s) ==
    /\ s \in wire
    /\ wire' = wire \ {s}
    /\ \/ s \notin puser /\ Answer(s, "fail")
       \/ Answer(s, "neterr")
    /\ UNCHANGED <<storeVars, puser, lock, pc, tg, today, left, seen, cur, tries>>

\* The HTTP client gives up on a request the panel may still serve.
RequestTimesOut(s) ==
    /\ "lostReply" \in Faults
    /\ s \in wire /\ Awaiting(s)
    /\ Answer(s, "neterr")
    /\ UNCHANGED <<storeVars, panelVars, pc, tg, today, left, seen, cur, tries>>

Network(s) == PanelCreates(s) \/ PanelRefuses(s) \/ RequestTimesOut(s)

HandlerNext ==
    \/ \E u \in Attempts, t \in Users : StartClaim(u, t)
    \/ \E u \in Attempts : HandlerStep(u)
    \/ \E s \in Slots : Network(s)
=============================================================================
