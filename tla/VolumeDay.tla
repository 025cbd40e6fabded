------------------------------ MODULE VolumeDay ------------------------------
(***************************************************************************)
(* A Tehran day of volume: updates that register, invite and claim, the    *)
(* panel budgets they charge, the health check, the job at midnight with   *)
(* its report, administrators who grant volume and delete users, crashes.  *)
(*                                                                         *)
(* Every update has a goroutine of its own, so updates of one user overlap *)
(* as those of different users do.  ClaimSystem has the details of a claim *)
(* between the choice of panels and the confirm; here the create succeeds  *)
(* or fails.                                                               *)
(***************************************************************************)
EXTENDS Referrals, PanelWatch

CONSTANTS
    Taps,         \* goroutines that handle updates: how many are under way at once
    MaxDay,       \* bound: the last Tehran day explored
    MaxRestarts,  \* bound: restarts come while warned was emptied fewer times in a day
    Scenes        \* bound: what is explored beside claims; {Everything} is no bound

Everything == {"overlap", "invite", "grant", "delete", "watch"}

ASSUME DayAssumption ==
    /\ {MaxDay, MaxRestarts} \subseteq Nat /\ Scenes \subseteq SUBSET Everything
    /\ IsFiniteSet(Panels) /\ IsFiniteSet(Taps) /\ Taps # {}

VARIABLES
    tap,        \* the locals of each goroutine
    lastClaim,  \* users.last_claim_date
    claims,     \* users with a claim row of a claim_date
    job,        \* the midnight job: "none", or what it does next
    tday,       \* the Tehran calendar day
    scene       \* what may happen, chosen once

rest == <<lastClaim, claims, job, tday, scene>>
dayVars == <<tap, rest>>
vars == <<userRows, inviteRows, used, watchVars, dayVars>>

Days == 0 .. MaxDay
Idle == [at |-> "idle", user |-> Nobody, ref |-> Nobody, date |-> 0, mb |-> 0, queue |-> <<>>]

TypeOK ==
    /\ ReferralTypeOK /\ WatchTypeOK
    /\ tap \in [Taps -> [at : {"idle", "invite", "gate", "create", "referral", "mark", "credit"},
                          user : Users \cup {Nobody}, ref : Users \cup {Nobody},
                          date : Days, mb : Nat, queue : Seq(Panels)]]
    /\ \A t \in Taps : /\ tap[t].at = "create" => tap[t].queue # <<>>
                       /\ tap[t].at = "idle" <=> tap[t].user = Nobody
    /\ lastClaim \in [Users -> Days \cup {-1}]
    /\ claims \in [Days -> SUBSET Users]
    /\ job \in {"none", "report", "reset", "clear"}
    /\ tday \in Days /\ scene \in Scenes

Init ==
    /\ ReferralInit /\ WatchInit
    /\ tap = [t \in Taps |-> Idle]
    /\ lastClaim = [u \in Users |-> -1]
    /\ claims = [d \in Days |-> {}]
    /\ job = "none"
    /\ tday = 0 /\ scene \in Scenes

\* A user sends an update when the one before is done.
InTurn == "overlap" \notin scene

\* Telegram hands an update of u to a goroutine.
Arrives(t, u) ==
    /\ tap[t].at = "idle"
    /\ InTurn => \A s \in Taps : tap[s].user # u

At(t, place) == tap[t].at = place
Go(t, place) == tap' = [tap EXCEPT ![t].at = place]
Return(t) == tap' = [tap EXCEPT ![t] = Idle]

(***************************************************************************)
(* onStart with another's link (internal/bot/user.go).  While intake is    *)
(* paused it turns strangers away without a change.                        *)
(***************************************************************************)

Register(t, u, r) ==
    /\ "invite" \in scene /\ Arrives(t, u) /\ UpsertUser(u)
    /\ tap' = IF r = u THEN tap
              ELSE [tap EXCEPT ![t] = [Idle EXCEPT !.at = "invite", !.user = u, !.ref = r]]
    /\ UNCHANGED <<used, watchVars, rest>>

RecordInvite(t) ==
    /\ At(t, "invite") /\ SetReferrer(tap[t].user, tap[t].ref) /\ Return(t)
    /\ UNCHANGED <<used, watchVars, rest>>

(***************************************************************************)
(* tryClaim and issueConfig (internal/bot/claim.go).                       *)
(***************************************************************************)

\* The row of the user is read once: the allowance of this claim.
Open(t, u) ==
    /\ Arrives(t, u) /\ lastClaim[u] # tday
    /\ UpsertUser(u)
    /\ tap' = [tap EXCEPT ![t] = [Idle EXCEPT !.at = "gate", !.user = u, !.date = tday,
                                             !.mb = DailyCapMB(u)]]
    /\ UNCHANGED <<used, watchVars, rest>>

\* The gate refuses, no panel has room, or the panels are tried in order.
SelectPanels(t) ==
    /\ At(t, "gate")
    /\ \/ Return(t)
       \/ \E q \in PanelsForVolume(tap[t].mb) \ {<<>>} :
            tap' = [tap EXCEPT ![t].at = "create", ![t].queue = q]
    /\ UNCHANGED <<userRows, inviteRows, used, watchVars, rest>>

\* ConfirmClaim, or its failure, which goes on as if it had succeeded.
Created(t) ==
    LET d == tap[t].date
        u == tap[t].user IN
    /\ At(t, "create")
    /\ claims' = [claims EXCEPT ![d] = @ \cup {u}]
    /\ \/ /\ AddPanelUsage(Head(tap[t].queue), tap[t].mb)
          /\ lastClaim' = IF u \in known THEN [lastClaim EXCEPT ![u] = d] ELSE lastClaim
       \/ UNCHANGED <<used, lastClaim>>
    /\ tap' = [tap EXCEPT ![t] = [Idle EXCEPT !.at = "referral", !.user = u]]
    /\ UNCHANGED <<userRows, inviteRows, watchVars, job, tday, scene>>

CreateFails(t) ==
    LET next == Tail(tap[t].queue) IN
    /\ At(t, "create")
    /\ tap' = [tap EXCEPT ![t] = IF next = <<>> THEN Idle ELSE [@ EXCEPT !.queue = next]]
    /\ UNCHANGED <<userRows, inviteRows, used, watchVars, rest>>

\* CountReferralIfPending: the query, and two updates, each of which may fail.
ReadReferral(t) ==
    LET u == tap[t].user IN
    /\ At(t, "referral")
    /\ \/ ReferralPending(u) /\ tap' = [tap EXCEPT ![t].at = "mark", ![t].ref = invitedBy[u]]
       \/ ~ReferralPending(u) /\ Return(t)
    /\ UNCHANGED <<userRows, inviteRows, used, watchVars, rest>>

CountReferral(t) ==
    /\ \/ At(t, "mark") /\ MarkPaid(tap[t].user) /\ Go(t, "credit")
       \/ At(t, "credit") /\ CreditInviter(tap[t].ref) /\ Return(t)
       \/ tap[t].at \in {"mark", "credit"} /\ Return(t) /\ UNCHANGED <<userRows, inviteRows>>
    /\ UNCHANGED <<used, watchVars, rest>>

TapStep(t) ==
    \/ \E u \in Users : Open(t, u) \/ \E r \in Users : Register(t, u, r)
    \/ RecordInvite(t) \/ SelectPanels(t) \/ Created(t) \/ CreateFails(t)
    \/ ReadReferral(t) \/ CountReferral(t)

(***************************************************************************)
(* The administrators.                                                     *)
(***************************************************************************)

Grant(u, n) ==
    /\ "grant" \in scene /\ SetGrant(u, n)
    /\ UNCHANGED <<used, watchVars, dayVars>>

DeleteUserFull(u) ==
    /\ "delete" \in scene /\ DeleteUserRows(u)
    /\ lastClaim' = [lastClaim EXCEPT ![u] = -1]
    /\ claims' = [d \in Days |-> claims[d] \ {u}]
    /\ UNCHANGED <<used, watchVars, tap, job, tday, scene>>

(***************************************************************************)
(* The clock, the midnight job and crashes.                                *)
(***************************************************************************)

\* The midnight job and a health check take less than a day.
NewDay ==
    /\ tday < MaxDay /\ job = "none" /\ ~hc.late
    /\ tday' = tday + 1
    /\ job' = "report"
    /\ CountAnew
    /\ UNCHANGED <<userRows, inviteRows, used, healthy, warned, hc, said, tap, lastClaim, claims,
                   scene>>

\* Stats(TehranDay()), asked when the new day has begun.
ReportedDay == tday

SendDailyReport ==
    /\ job = "report" /\ job' = "reset"
    /\ UNCHANGED <<userRows, inviteRows, used, watchVars, tap, lastClaim, claims, tday, scene>>

\* An error of the reset is logged.
Reset ==
    /\ job = "reset" /\ job' = "clear"
    /\ ResetPanelUsage \/ UNCHANGED used
    /\ UNCHANGED <<userRows, inviteRows, watchVars, tap, lastClaim, claims, tday, scene>>

ClearWarnings ==
    /\ job = "clear" /\ job' = "none"
    /\ ClearWarned
    /\ UNCHANGED <<userRows, inviteRows, used, tap, lastClaim, claims, tday, scene>>

\* Crash and restart; midnight may fall in between, and its job is then missed.
Crash ==
    /\ ForgetMaps
    /\ \/ clears < MaxRestarts /\ clears' = clears + 1 /\ UNCHANGED <<warnings, tday>>
       \/ tday < MaxDay /\ tday' = tday + 1 /\ CountAnew
    /\ tap' = [t \in Taps |-> Idle] /\ job' = "none"
    /\ UNCHANGED <<userRows, inviteRows, used, lastClaim, claims, scene>>

HealthCheck == "watch" \in scene /\ CheckStep /\ UNCHANGED <<userRows, inviteRows, dayVars>>

Next ==
    \/ \E t \in Taps : TapStep(t)
    \/ \E u \in Users : DeleteUserFull(u) \/ \E n \in Grants : Grant(u, n)
    \/ HealthCheck \/ NewDay \/ SendDailyReport \/ Reset \/ ClearWarnings \/ Crash

Spec == Init /\ [][Next]_vars

(***************************************************************************)
(* Properties.                                                             *)
(***************************************************************************)

\* The most a claim may take: the capped allowance and a bonus.
MostMB == MaxDailyMB + Max(Grants)

\* The budget is checked when the panels are chosen and charged at the confirm, maybe
\* after a reset: "would exceed today's budget" (panels.go:107) may be wrong by what
\* every other update under way charges, of whichever user, and by no more.
OvershootBounded ==
    \A p \in Panels : LimitMB > 0 => used[p] <= LimitMB + (Cardinality(Taps) - 1) * MostMB

\* An inviter is credited for each row at most once, whatever fails in between, if a
\* referee's updates come in turn: "counted after referee's first claim" (schema.sql:85).
CreditsBacked == InTurn => \A r \in Users : credits[r] <= Cardinality(PaidTo(r)) + erased[r]

\* "summarises the day for admins (called just before the reset)" (scheduler.go:127).
ReportSummarisesDay == job = "report" => claims[ReportedDay] = claims[tday - 1]
=============================================================================
