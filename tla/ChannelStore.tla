----------------------------- MODULE ChannelStore -----------------------------
(***************************************************************************)
(* The advertising channels and the per-user snapshots of membership       *)
(* (internal/db/channels.go, tables channels and channel_user), with the   *)
(* statements run on them.  One connection: every statement and every      *)
(* transaction is one atomic step.                                         *)
(*                                                                         *)
(* Titles, links, priorities and prices are left out: they decide the      *)
(* order and the odds of a draw, not what may be drawn.                    *)
(***************************************************************************)
EXTENDS Integers, FiniteSets

CONSTANTS
    Users,        \* Telegram ids
    Channels,     \* ids of channel rows; AUTOINCREMENT never reuses one
    Troubled,     \* channels the administrators re-add, toggle or delete, and
                  \* where lookups and writes of the gate may fail
    Targets,      \* quota targets in use; 0 = none
    RandomPerDay, \* setting random_channels_per_day
    MaxDay,       \* bound: the last Tehran day explored
    MaxJoins      \* bound: joins counted for one sturdy channel

NoRow == -1
Days == 0 .. MaxDay
Pairs == Channels \X Users
Sturdy == Channels \ Troubled

ASSUME ChannelAssumption ==
    /\ Troubled \subseteq Channels
    /\ 0 \in Targets /\ Targets \subseteq Nat
    /\ RandomPerDay \in Nat
    /\ MaxDay \in Nat /\ MaxJoins \in Nat
    /\ IsFiniteSet(Users)
    /\ Users # {} /\ Channels # {}

VARIABLES
    there,     \* channel row: absent (not added yet), kept, deleted
    on,        \* enabled channels
    kind,      \* "quota" or "permanent"
    target,    \* quota_target
    joins,     \* new_joins_count
    notified,  \* channels with notified_done = 1
    shown,     \* channel_user.shown_date of a pair, NoRow without a row
    was,       \* pairs with was_member_before = 1
    counted    \* pairs with counted = 1

channelRows == <<there, on, kind, target, joins, notified>>
pairRows == <<shown, was, counted>>

ChannelTypeOK ==
    /\ there \in [Channels -> {"absent", "kept", "deleted"}]
    /\ on \in SUBSET Channels
    /\ kind \in [Channels -> {"quota", "permanent"}]
    /\ target \in [Channels -> Targets]
    /\ joins \in [Channels -> Nat]
    /\ notified \in SUBSET Channels
    /\ shown \in [Pairs -> Days \cup {NoRow}]
    /\ was \in SUBSET Pairs
    /\ counted \in SUBSET Pairs

ChannelInit ==
    /\ there = [c \in Channels |-> "absent"]
    /\ on = {}
    /\ kind = [c \in Channels |-> "quota"]
    /\ target = [c \in Channels |-> 0]
    /\ joins = [c \in Channels |-> 0]
    /\ notified = {}
    /\ shown = [x \in Pairs |-> NoRow]
    /\ was = {}
    /\ counted = {}

(***************************************************************************)
(* Queries.                                                                *)
(***************************************************************************)

Enabled(c) == there[c] = "kept" /\ c \in on

\* The channels of a user for a day; a disabled one is not asked for.
TodaysChannels(u, date) == {c \in Channels : Enabled(c) /\ shown[<<c, u>>] = date}

Permanent == {c \in Channels : Enabled(c) /\ kind[c] = "permanent"}

\* Orders with joins to go that this user has not been counted for.
OpenOrders(u) ==
    {c \in Channels : Enabled(c) /\ kind[c] = "quota" /\ joins[c] < target[c]
                      /\ <<c, u>> \notin counted}

\* What weightedSample may return: no priority is negative, so every channel has
\* a chance, and every n of them (all, if there are no more) may be drawn.
Draws(pool) ==
    {S \in SUBSET pool : Cardinality(S) = RandomPerDay
                         \/ (S = pool /\ Cardinality(S) < RandomPerDay)}

(***************************************************************************)
(* Statements and transactions.                                            *)
(***************************************************************************)

\* ON CONFLICT(chat_id): a channel added again keeps its counter, its rows of
\* users, its switch and its completion flag.
AddChannel(c, k, n) ==
    /\ there[c] # "deleted"
    /\ there' = [there EXCEPT ![c] = "kept"]
    /\ on' = IF there[c] = "absent" THEN on \cup {c} ELSE on
    /\ kind' = [kind EXCEPT ![c] = k]
    /\ target' = [target EXCEPT ![c] = n]
    /\ UNCHANGED <<joins, notified, pairRows>>

\* DeleteChannel is two statements without a transaction.
DeletePairs(c) ==
    /\ shown' = [x \in Pairs |-> IF x[1] = c THEN NoRow ELSE shown[x]]
    /\ was' = {x \in was : x[1] # c}
    /\ counted' = {x \in counted : x[1] # c}
    /\ UNCHANGED channelRows

DeleteRow(c) ==
    /\ there' = [there EXCEPT ![c] = "deleted"]
    /\ on' = on \ {c}
    /\ notified' = notified \ {c}
    /\ kind' = [kind EXCEPT ![c] = "quota"]
    /\ target' = [target EXCEPT ![c] = 0]
    /\ joins' = [joins EXCEPT ![c] = 0]
    /\ UNCHANGED pairRows

SetChannelEnabled(c, yes) ==
    /\ on' = IF yes /\ there[c] = "kept" THEN on \cup {c} ELSE on \ {c}
    /\ UNCHANGED <<there, kind, target, joins, notified, pairRows>>

\* Mutant of the next definition: the alert is not armed again.
KeepAlert(c, n) == notified

\* A target above the joins so far arms the completion alert again.
Rearmed(c, n) == IF joins[c] < n THEN notified \ {c} ELSE notified

SetChannelQuota(c, n) ==
    /\ target' = [target EXCEPT ![c] = n]
    /\ notified' = Rearmed(c, n)
    /\ UNCHANGED <<there, on, kind, joins, pairRows>>

\* Mutants of the next definition: channel and user change places; the snapshot is
\* taken when the row is already there.
SwappedIds(c, u, member) ==
    IF member /\ shown[<<c, u>>] = NoRow THEN was \cup {<<u, c>>} ELSE was
LaterSnapshot(c, u, member) ==
    IF member /\ shown[<<c, u>>] # NoRow THEN was \cup {<<c, u>>} ELSE was

\* was_member_before is written with the row and never after.
FirstSnapshot(c, u, member) ==
    IF member /\ shown[<<c, u>>] = NoRow THEN was \cup {<<c, u>>} ELSE was

AssignChannel(c, u, date, member) ==
    /\ shown' = [shown EXCEPT ![<<c, u>>] = date]
    /\ was' = FirstSnapshot(c, u, member)
    /\ UNCHANGED <<counted, channelRows>>

\* UPDATE channel_user SET counted=1: no effect without a row.
Count(c, u) ==
    IF shown[<<c, u>>] = NoRow THEN counted ELSE counted \cup {<<c, u>>}

\* Mutant of the next definition: the counter before this join.
CompletesLate(c) == kind[c] = "quota" /\ target[c] > 0 /\ joins[c] >= target[c]

Completes(c) == kind[c] = "quota" /\ target[c] > 0 /\ joins[c] + 1 >= target[c]

\* Bound: one join is enough of a channel about whose counter nothing is claimed.
CreditsLeft(c) == joins[c] < IF c \in Troubled THEN 1 ELSE MaxJoins

\* One transaction; without the channel's row it rolls back.
CreditNewJoin(c, u) ==
    /\ there[c] = "kept" /\ CreditsLeft(c)
    /\ counted' = Count(c, u)
    /\ joins' = [joins EXCEPT ![c] = @ + 1]
    /\ notified' = IF Completes(c) THEN notified \cup {c} ELSE notified
    /\ UNCHANGED <<there, on, kind, target, shown, was>>

MarkCounted(c, u) ==
    /\ counted' = Count(c, u)
    /\ UNCHANGED <<channelRows, shown, was>>
=============================================================================
