------------------------------ MODULE Referrals ------------------------------
(***************************************************************************)
(* Users, invitations and the daily allowance (internal/db/users.go,       *)
(* tables users and referrals).  Every statement and every transaction is  *)
(* one atomic step; CountReferralIfPending is three of them.               *)
(***************************************************************************)
EXTENDS Integers, FiniteSets

CONSTANTS
    Users,        \* Telegram ids
    BaseMB, PerReferralMB, MaxDailyMB,  \* settings
    Grants,       \* values of the two per-user numbers the administrators set
    MaxCredits,   \* bound: referral credits of one user
    MaxErased     \* bound: deleted invitations of one user

Nobody == "nobody"

ASSUME ReferralAssumption ==
    /\ IsFiniteSet(Users) /\ Nobody \notin Users
    /\ {BaseMB, PerReferralMB, MaxDailyMB, MaxCredits, MaxErased} \cup Grants \subseteq Nat
    /\ 0 \in Grants /\ IsFiniteSet(Grants)

VARIABLES
    known,      \* tg_ids with a row in users
    credits,    \* users.referrals_count
    bonus,      \* users.manual_bonus_mb
    override,   \* users.daily_cap_override_mb, 0 = none
    invitedBy,  \* referrals.referrer_id of a referee's row, Nobody without a row
    paid,       \* referees with counted = 1
    erased      \* history: rows of an inviter deleted with one of the two users

userRows == <<known, credits, bonus, override>>
inviteRows == <<invitedBy, paid, erased>>

ReferralTypeOK ==
    /\ known \subseteq Users
    /\ {credits, erased} \subseteq [Users -> Nat]
    /\ {bonus, override} \subseteq [Users -> Grants]
    /\ invitedBy \in [Users -> Users \cup {Nobody}]
    /\ paid \subseteq {u \in Users : invitedBy[u] # Nobody}

ReferralInit ==
    /\ known = {} /\ paid = {}
    /\ invitedBy = [u \in Users |-> Nobody]
    /\ credits = [u \in Users |-> 0]
    /\ bonus = credits /\ override = credits /\ erased = credits

DailyCapMB(u) ==
    LET earned == BaseMB + credits[u] * PerReferralMB IN
    IF override[u] > 0 THEN override[u]
    ELSE (IF earned > MaxDailyMB THEN MaxDailyMB ELSE earned) + bonus[u]

UpsertUser(u) ==
    /\ known' = known \cup {u}
    /\ UNCHANGED <<credits, bonus, override, inviteRows>>

\* INSERT OR IGNORE.  users.referrer_id, which the second statement sets, is read
\* by nothing and left out.
SetReferrer(u, r) ==
    /\ invitedBy' = IF invitedBy[u] = Nobody THEN [invitedBy EXCEPT ![u] = r] ELSE invitedBy
    /\ UNCHANGED <<userRows, paid, erased>>

\* Mutant of the next definition: counted is not looked at.
PendingOrPaid(u) == invitedBy[u] # Nobody

\* The row CountReferralIfPending goes on with.
ReferralPending(u) == invitedBy[u] # Nobody /\ u \notin paid

\* Mutant of the next definition: it inserts a row that is not there.
MarkPaidAnyway(u) ==
    /\ paid' = paid \cup {u}
    /\ UNCHANGED <<userRows, invitedBy, erased>>

\* UPDATE referrals SET counted=1: no effect without a row.
MarkPaid(u) ==
    /\ paid' = IF invitedBy[u] = Nobody THEN paid ELSE paid \cup {u}
    /\ UNCHANGED <<userRows, invitedBy, erased>>

CreditInviter(r) ==
    /\ credits[r] < MaxCredits
    /\ credits' = IF r \in known THEN [credits EXCEPT ![r] = @ + 1] ELSE credits
    /\ UNCHANGED <<known, bonus, override, inviteRows>>

\* SetManualBonus and SetCapOverride.
SetGrant(u, n) ==
    /\ u \in known
    /\ \/ bonus' = [bonus EXCEPT ![u] = n] /\ UNCHANGED override
       \/ override' = [override EXCEPT ![u] = n] /\ UNCHANGED bonus
    /\ UNCHANGED <<known, credits, inviteRows>>

\* The rows DeleteUserFull takes: the user's own and those of the referees.
ReferralsOf(u) == {e \in Users : e = u \/ invitedBy[e] = u}

DeleteUserRows(u) ==
    /\ u \in known /\ \A r \in Users : erased[r] < MaxErased
    /\ known' = known \ {u}
    /\ credits' = [credits EXCEPT ![u] = 0]
    /\ bonus' = [bonus EXCEPT ![u] = 0]
    /\ override' = [override EXCEPT ![u] = 0]
    /\ invitedBy' = [e \in Users |-> IF e \in ReferralsOf(u) THEN Nobody ELSE invitedBy[e]]
    /\ paid' = paid \ ReferralsOf(u)
    /\ erased' = [r \in Users |->
                    erased[r] + Cardinality({e \in ReferralsOf(u) : invitedBy[e] = r})]

PaidTo(r) == {e \in paid : invitedBy[e] = r}
=============================================================================
