-------------------------------- MODULE ClaimInv --------------------------------
(***************************************************************************)
(* The inductive invariant of the outbox.  It holds whatever fails; the    *)
(* parts that need more of the network say which faults they exclude:      *)
(*   Told      no answer of a panel is lost: a create that failed has not  *)
(*             happened;                                                   *)
(*   Reliable  also a lookup that failed is a 404, and a panel that        *)
(*             GetPanel does not return is gone.                           *)
(***************************************************************************)
EXTENDS ClaimSystem

Told == "lostReply" \notin Faults
Reliable == Faults \cap {"lostReply", "outage", "readError"} = {}

\* No run of the job starts while another is busy.
OneRun == \A j, k \in Jobs : j = k

\* Slots attempt u may still insert a row for.
Fresh(s) == pc[s[1]] \in {"idle", "select"} \/ s[2] \in left[s[1]]

\* The slot attempt u is at work on, from the insert to the settling statement.
Busy(s) == pc[s[1]] \in {"send", "await", "ok", "failed"} /\ cur[s[1]] = s[2]

\* No create of s can be sent any more, and none is in flight.
Inert(s) == ~Fresh(s) /\ s \notin wire /\ (Busy(s) => s \in old)

(***************************************************************************)
(* What holds of rows, requests and panel users between the handlers.      *)
(***************************************************************************)

FreshClean ==
    \A s \in Slots : Fresh(s) =>
        row[s] = "none" /\ s \notin puser /\ s \notin wire /\ s \notin old

\* An attempt never comes back to a panel.
CurTried == \A u \in Attempts :
    pc[u] \in {"send", "await", "ok", "failed"} => cur[u] \notin left[u]

ReturnedClean == \A u \in Attempts : pc[u] = "done" => left[u] = {}

\* Panels that rows and handlers name have been added.
RowsOnPanels == \A s \in Slots : row[s] # "none" => pstate[s[2]] # "absent"
LeftOnPanels == \A u \in Attempts : \A p \in left[u] : pstate[p] # "absent"

\* A request in flight is young.
WireYoung == wire \cap old = {}

\* What a handler knows of the slot it works on.
BusyKnows ==
    \A s \in Slots : Busy(s) =>
        /\ s \notin old => row[s] # "none" \/ s \in excused
        /\ s \in old => s \notin puser
        /\ pc[s[1]] \in {"await", "ok"} => s \notin old
        /\ pc[s[1]] = "send" => s \notin puser /\ s \notin wire
        /\ pc[s[1]] = "ok" => s \in puser /\ s \notin wire

\* An "ok" that Client.do has heard is true.
ReplyKnows ==
    \A s \in Slots : pc[s[1]] = "await" /\ cur[s[1]] = s[2] /\ reply[s[1]] = "ok" =>
        s \in puser /\ s \notin wire

\* No request for a confirmed slot is still to come: what a job deletes stays deleted.
ActiveInert == \A s \in Slots : row[s] = "active" => Inert(s)

\* With every answer heard, a request in flight is covered by a row, a failed create
\* has not happened, and Client.do can tell whether the user exists.
ToldKnows ==
    /\ \A s \in wire : row[s] # "none" \/ s \in excused
    /\ \A s \in Slots : Busy(s) /\ pc[s[1]] = "failed" => s \notin puser /\ s \notin wire
    /\ \A s \in Slots : pc[s[1]] = "await" /\ cur[s[1]] = s[2] =>
         /\ s \in wire <=> reply[s[1]] = "none"
         /\ s \in puser <=> reply[s[1]] = "ok"

HandlersKnow ==
    /\ FreshClean /\ CurTried /\ ReturnedClean
    /\ RowsOnPanels /\ LeftOnPanels
    /\ WireYoung /\ BusyKnows /\ ReplyKnows /\ ActiveInert
    /\ UnexpiredServed
    /\ Told => ToldKnows
    /\ Reliable => NoOrphan

(***************************************************************************)
(* What a run of the cleanup job knows, however old its reads are.         *)
(***************************************************************************)

InJob(j) == jtodo[j] \cup jhit[j] \cup jneed[j] \cup jids[j] \cup jhandled[j] \cup jdone[j]

\* A row may be on the list of rows to drop without good reason: when the error of a
\* query reads as "panel gone", and while a lookup of the reconciliation that failed
\* for want of a connection is acted on.
Misled(j) == "readError" \in Faults \/ ("outage" \in Faults /\ jat[j] = "judge")

JobKnows(j) ==
    /\ \A s \in InJob(j) : Inert(s) /\ pstate[s[2]] # "absent"
    /\ jtodo[j] \subseteq old
    /\ \A s \in jhit[j] : row[s] = "pending" => s \in puser
    /\ \A s \in jneed[j] \cup jids[j] : s \in expired /\ row[s] # "pending"
    /\ jat[j] \notin {"resolve", "bulk", "deleting"} => jhandled[j] = {}
    /\ \A s \in jhandled[j] : s[2] = jpanel[j] /\ (s \in jids[j] \/ s \notin puser)
    /\ \A s \in jdone[j] : s \notin puser \/ PanelDeleted(s) \/ Misled(j)

JobsKnow == \A j \in Jobs : JobKnows(j)

OutboxInv == HandlersKnow /\ JobsKnow

IInv == TypeOK /\ OutboxInv

(***************************************************************************)
(* What a run that has the rows to itself knows besides: nobody activates  *)
(* a row it is reconciling.                                                *)
(***************************************************************************)
AloneKnows ==
    \A j \in Jobs :
        /\ jat[j] \in {"reconcile", "judge"} => \A s \in jtodo[j] : row[s] # "active"
        /\ jat[j] = "judge" => /\ jhit[j] \cap jtodo[j] = {}
                             /\ \A s \in jdone[j] : row[s] # "active"

(***************************************************************************)
(* At most one slot of an attempt is, or is about to be, on a panel; and   *)
(* it is the one its handler works on, if that handler still runs.         *)
(***************************************************************************)
OneSlotTaken ==
    /\ \A u \in Attempts : \A p, q \in Panels :
         {<<u, p>>, <<u, q>>} \subseteq puser \cup wire => p = q
    /\ \A s \in puser \cup wire :
         pc[s[1]] \in Live => pc[s[1]] \in {"await", "ok"} /\ cur[s[1]] = s[2]

(***************************************************************************)
(* The handlers of one user taken in turn, which the code does not ensure: *)
(* telebot starts a goroutine for every update.                            *)
(***************************************************************************)
OneAtATime ==
    \A u, v \in Attempts : pc[u] \in Live /\ pc[v] \in Live /\ tg[u] = tg[v] => u = v

TurnsSpec == Init /\ [][Next /\ OneAtATime']_vars

\* What the daily check then rests on: a row is pending only while its handler runs,
\* last_claim_date accounts for every active row, and for no running handler.
TurnsInv ==
    /\ OneAtATime /\ OneConfigPerDay
    /\ \A s \in Slots : row[s] = "pending" => Busy(s)
    /\ \A s \in Slots : row[s] = "active" =>
         pc[s[1]] = "done" /\ today[s[1]] <= lastClaim[tg[s[1]]]
    /\ \A u \in Attempts : pc[u] \in Live =>
         tg[u] \in known /\ lastClaim[tg[u]] < today[u] /\ today[u] <= day
    /\ \A t \in Users : lastClaim[t] <= day
=============================================================================
