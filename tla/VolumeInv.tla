------------------------------- MODULE VolumeInv -------------------------------
(***************************************************************************)
(* The inductive invariant of a day of volume: what claims in flight may   *)
(* still charge, which credits are owed, what the health check remembers.  *)
(***************************************************************************)
EXTENDS VolumeDay

(***************************************************************************)
(* Budgets.                                                                *)
(***************************************************************************)

InQueue(p, q) == \E i \in DOMAIN q : q[i] = p

\* Updates whose claim may yet be charged to p.
InFlight(p) == {t \in Taps : At(t, "create") /\ InQueue(p, tap[t].queue)}

AmountsBounded == \A t \in Taps : tap[t].mb <= MostMB

Ceiling == LimitMB + (Cardinality(Taps) - 1) * MostMB

\* Whoever was last to find room found it for himself; others charge at most MostMB each.
RoomLeft(p) ==
    LET n == Cardinality(InFlight(p)) IN
    \/ used[p] + n * MostMB <= Ceiling
    \/ \E t \in InFlight(p) : used[p] + tap[t].mb + (n - 1) * MostMB <= Ceiling

BudgetKept == LimitMB > 0 => \A p \in Panels : RoomLeft(p)

(***************************************************************************)
(* Referral credits.                                                       *)
(***************************************************************************)

OneEach == \A s, t \in Taps : s # t /\ tap[s].user = tap[t].user => tap[s].user = Nobody

\* Referees for whom r is about to be credited: the row is marked, or it was deleted.
Owed(r) ==
    {u \in Users : \E t \in Taps : /\ tap[t].user = u /\ tap[t].ref = r
                                   /\ At(t, "credit") \/ (At(t, "mark") /\ invitedBy[u] = Nobody)}

\* The row an update works on is as it was read, or it is gone.
RowKept ==
    \A t \in Taps : At(t, "mark") /\ invitedBy[tap[t].user] # Nobody =>
        invitedBy[tap[t].user] = tap[t].ref /\ tap[t].user \notin paid

CreditsKept ==
    \A r \in Users : credits[r] + Cardinality(Owed(r)) <= Cardinality(PaidTo(r)) + erased[r]

(***************************************************************************)
(* The health check.                                                       *)
(***************************************************************************)

\* A change of health is about to be announced as it is.
AlertKnows == hc.at = "alert" => (hc.now <=> hc.cur \in healthy)

\* What was read of the map at the ping is still so if it says "warned".
QuietKnows == hc.at \in {"alert", "usage"} /\ hc.cur \in warned => hc.quiet

Sending(p) == hc.at = "send" /\ hc.cur = p

\* Warnings of the day, one on its way included.
Count(p) == warnings[p] + (IF Sending(p) THEN 1 ELSE 0)

\* Between two clears there is one warning, and the map knows of it.
WarningsKnown ==
    \A p \in Panels :
        /\ Sending(p) /\ ~hc.late => p \in warned
        /\ Count(p) <= clears + (IF p \in warned THEN 1 ELSE 0)

\* The inductive invariant of the day: what claims in flight may still charge, which
\* credits are owed and what the health check remembers.
VolumeInv ==
    /\ AmountsBounded /\ BudgetKept
    /\ InTurn => OneEach /\ RowKept /\ CreditsKept
    /\ AlertKnows /\ QuietKnows /\ WarningsKnown /\ AlertMatchesHealth
=============================================================================
