------------------------------ MODULE ChannelGate ------------------------------
(***************************************************************************)
(* The membership gate of tryClaim (internal/bot/claim.go 49-94): handlers *)
(* that assign a user's channels for the day, look the user up in them and *)
(* credit new joins to the advertisers' orders, beside the users who come  *)
(* and go on Telegram and the administrators' channel menu.                *)
(***************************************************************************)
EXTENDS ChannelStore

CONSTANTS
    Handlers,  \* goroutines of updates
    Private,   \* channels joined by request only
    Resized,   \* bound: channels added as orders whose target the administrators change;
               \* others are permanent or ask for one join
    Overlap    \* a user's taps may be handled at the same time

ASSUME GateAssumption == Private \cup Resized \subseteq Channels /\ Overlap \in BOOLEAN

VARIABLES
    g,          \* the locals of each handler
    lastClaim,  \* users.last_claim_date
    member,     \* pairs of a channel and a user who is in it (Telegram)
    loyal,      \* history: members of sturdy channels who joined before they were shown them
    dropping,   \* channels whose deletion is between its two statements
    tday        \* the Tehran calendar day

gateVars == <<g, lastClaim, member, loyal, dropping, tday>>
vars == <<channelRows, pairRows, gateVars>>

Places == {"idle", "look", "pick", "snapshot", "assign", "check", "state", "credit", "mark", "issue"}

TypeOK ==
    /\ ChannelTypeOK
    /\ g \in [Handlers -> [at : Places, user : Users, date : Days, chs : SUBSET Channels,
                           todo : SUBSET Channels, cur : Channels, saw : BOOLEAN,
                           missing : SUBSET Channels]]
    /\ lastClaim \in [Users -> Days \cup {NoRow}]
    /\ loyal \subseteq member /\ member \subseteq Pairs
    /\ dropping \subseteq Troubled
    /\ tday \in Days

At(h, place) == g[h].at = place
User(h) == g[h].user

\* The handler returns; its locals are gone.
Idle == [at |-> "idle", user |-> CHOOSE u \in Users : TRUE, date |-> 0, chs |-> {}, todo |-> {},
         cur |-> CHOOSE c \in Channels : TRUE, saw |-> FALSE, missing |-> {}]
Return(h) == g' = [g EXCEPT ![h] = Idle]

Init ==
    /\ ChannelInit
    /\ g = [h \in Handlers |-> Idle]
    /\ lastClaim = [u \in Users |-> NoRow]
    /\ member = {} /\ loyal = {}
    /\ dropping = {}
    /\ tday = 0

(***************************************************************************)
(* tryClaim.                                                               *)
(***************************************************************************)

LiveOf(u) == {h \in Handlers : ~At(h, "idle") /\ User(h) = u}

Open(h, u) ==
    /\ At(h, "idle")
    /\ Overlap \/ LiveOf(u) = {}
    /\ lastClaim[u] # tday
    /\ g' = [g EXCEPT ![h] = [Idle EXCEPT !.at = "look", !.user = u, !.date = tday]]
    /\ UNCHANGED <<channelRows, pairRows, lastClaim, member, loyal, dropping, tday>>

\* The day's set, if there is one already.
Look(h) ==
    /\ At(h, "look")
    /\ LET S == TodaysChannels(User(h), g[h].date) IN
       \/ /\ S # {}
          /\ g' = [g EXCEPT ![h].at = "check", ![h].chs = S, ![h].todo = S]
       \/ /\ S = {}
          /\ g' = [g EXCEPT ![h].at = "pick"]
    /\ UNCHANGED <<channelRows, pairRows, lastClaim, member, loyal, dropping, tday>>

Pick(h) ==
    /\ At(h, "pick")
    /\ \E Q \in Draws(OpenOrders(User(h))) :
         g' = [g EXCEPT ![h].chs = Permanent \cup Q, ![h].todo = Permanent \cup Q,
                        ![h].at = IF Permanent \cup Q = {} THEN "check" ELSE "snapshot"]
    /\ UNCHANGED <<channelRows, pairRows, lastClaim, member, loyal, dropping, tday>>

\* isMember before the assignment; an error counts as "not a member".
Snapshot(h, c) ==
    /\ At(h, "snapshot") /\ c \in g[h].todo
    /\ \E saw \in BOOLEAN :
         /\ IF saw THEN <<c, User(h)>> \in member ELSE c \in Troubled \/ <<c, User(h)>> \notin member
         /\ g' = [g EXCEPT ![h].at = "assign", ![h].cur = c, ![h].saw = saw]
    /\ UNCHANGED <<channelRows, pairRows, lastClaim, member, loyal, dropping, tday>>

\* The error of the write is ignored.
Assign(h) ==
    LET c == g[h].cur
        rest == g[h].todo \ {c} IN
    /\ At(h, "assign")
    /\ \/ AssignChannel(c, User(h), g[h].date, g[h].saw)
       \/ c \in Troubled /\ UNCHANGED <<channelRows, pairRows>>
    /\ g' = [g EXCEPT ![h].todo = IF rest = {} THEN g[h].chs ELSE rest,
                      ![h].at = IF rest = {} THEN "check" ELSE "snapshot", ![h].saw = FALSE]
    /\ UNCHANGED <<lastClaim, member, loyal, dropping, tday>>

\* isMember of the next channel; a channel whose lookup fails is no requirement.
Check(h, c) ==
    /\ At(h, "check") /\ c \in g[h].todo
    /\ \/ /\ <<c, User(h)>> \in member
          /\ g' = [g EXCEPT ![h].at = "state", ![h].cur = c, ![h].todo = @ \ {c}]
       \/ /\ <<c, User(h)>> \notin member
          /\ g' = [g EXCEPT ![h].todo = @ \ {c}, ![h].missing = @ \cup {c}]
       \/ /\ c \in Troubled
          /\ g' = [g EXCEPT ![h].todo = @ \ {c}]
    /\ UNCHANGED <<channelRows, pairRows, lastClaim, member, loyal, dropping, tday>>

\* Mutant of the next definition: counted is not looked at.
UncountedOrNot(x) == IF x \in was THEN "mark" ELSE "credit"

\* What ChannelUserState makes the handler do; without a row both flags are 0.
NextAct(x) == IF x \in counted THEN "check" ELSE IF x \in was THEN "mark" ELSE "credit"

ReadState(h) ==
    /\ At(h, "state")
    /\ g' = [g EXCEPT ![h].at = NextAct(<<g[h].cur, User(h)>>)]
    /\ UNCHANGED <<channelRows, pairRows, lastClaim, member, loyal, dropping, tday>>

\* CreditNewJoin or MarkCounted, whose errors are ignored.
Settle(h) ==
    /\ \/ At(h, "credit") /\ CreditNewJoin(g[h].cur, User(h))
       \/ At(h, "mark") /\ MarkCounted(g[h].cur, User(h))
       \/ At(h, "credit") /\ g[h].cur \in Troubled /\ UNCHANGED <<channelRows, pairRows>>
    /\ g' = [g EXCEPT ![h].at = "check"]
    /\ UNCHANGED <<lastClaim, member, loyal, dropping, tday>>

\* Mutant of the next definition: one channel may be missing.
AlmostAllJoined(h) == Cardinality(g[h].missing) <= 1

AllJoined(h) == g[h].missing = {}

\* All channels are looked at: the prompt to join, or issueConfig, which may
\* fail or sets last_claim_date in the end.
Verdict(h) ==
    /\ At(h, "check") /\ g[h].todo = {}
    /\ \/ AllJoined(h) /\ g' = [g EXCEPT ![h].at = "issue"]
       \/ ~AllJoined(h) /\ Return(h)
    /\ UNCHANGED <<channelRows, pairRows, lastClaim, member, loyal, dropping, tday>>

Issue(h) ==
    /\ At(h, "issue")
    /\ \/ lastClaim' = [lastClaim EXCEPT ![User(h)] = g[h].date]
       \/ UNCHANGED lastClaim
    /\ Return(h)
    /\ UNCHANGED <<channelRows, pairRows, member, loyal, dropping, tday>>

\* A crash, at once for every goroutine; the database survives.
Crash ==
    /\ \E h \in Handlers : ~At(h, "idle")
    /\ g' = [h \in Handlers |-> Idle]
    /\ dropping' = {}
    /\ UNCHANGED <<channelRows, pairRows, lastClaim, member, loyal, tday>>

(***************************************************************************)
(* Telegram: users join and leave.  onJoinRequest approves a request only  *)
(* when GetChannelByChat finds the channel, disabled ones included.        *)
(***************************************************************************)

Join(c, u) ==
    /\ <<c, u>> \notin member
    /\ c \in Private => there[c] = "kept"
    /\ member' = member \cup {<<c, u>>}
    /\ loyal' = IF c \in Sturdy /\ shown[<<c, u>>] = NoRow /\ LiveOf(u) = {} THEN loyal \cup {<<c, u>>} ELSE loyal
    /\ UNCHANGED <<channelRows, pairRows, g, lastClaim, dropping, tday>>

Leave(c, u) ==
    /\ <<c, u>> \in member
    /\ member' = member \ {<<c, u>>}
    /\ loyal' = loyal \ {<<c, u>>}
    /\ UNCHANGED <<channelRows, pairRows, g, lastClaim, dropping, tday>>

(***************************************************************************)
(* The administrators' channel menu (internal/bot/admin.go).               *)
(***************************************************************************)

\* finishAddChannel: a target of 0 makes the channel permanent.
FinishAddChannel(c, n) ==
    /\ there[c] = "kept" => c \in Troubled
    /\ IF c \in Resized THEN n > 0 ELSE n <= 1
    /\ AddChannel(c, IF n = 0 THEN "permanent" ELSE "quota", n)
    /\ UNCHANGED gateVars

ChangeQuota(c, n) ==
    /\ c \in Resized /\ there[c] = "kept"
    /\ SetChannelQuota(c, n)
    /\ UNCHANGED gateVars

\* cbChannelToggle: a read and a write of the opposite, in one step here.
ToggleChannel(c) ==
    /\ c \in Troubled /\ there[c] = "kept"
    /\ SetChannelEnabled(c, c \notin on)
    /\ UNCHANGED gateVars

BeginDelete(c) ==
    /\ c \in Troubled /\ there[c] = "kept" /\ c \notin dropping
    /\ DeletePairs(c)
    /\ dropping' = dropping \cup {c}
    /\ UNCHANGED <<g, lastClaim, member, loyal, tday>>

\* The second statement goes through or fails.
EndDelete(c) ==
    /\ c \in dropping
    /\ DeleteRow(c) \/ UNCHANGED <<channelRows, pairRows>>
    /\ dropping' = dropping \ {c}
    /\ UNCHANGED <<g, lastClaim, member, loyal, tday>>

NewDay ==
    /\ tday < MaxDay
    /\ tday' = tday + 1
    /\ UNCHANGED <<channelRows, pairRows, g, lastClaim, member, loyal, dropping>>

HandlerStep(h) ==
    \/ \E u \in Users : Open(h, u)
    \/ \E c \in Channels : Snapshot(h, c) \/ Check(h, c)
    \/ Look(h) \/ Pick(h) \/ Assign(h) \/ ReadState(h) \/ Settle(h)
    \/ Verdict(h) \/ Issue(h)

Menu ==
    \E c \in Channels :
        \/ \E n \in Targets : FinishAddChannel(c, n) \/ ChangeQuota(c, n)
        \/ ToggleChannel(c) \/ BeginDelete(c) \/ EndDelete(c)

Next ==
    \/ \E h \in Handlers : HandlerStep(h)
    \/ \E c \in Channels, u \in Users : Join(c, u) \/ Leave(c, u)
    \/ Menu \/ NewDay \/ Crash

Spec == Init /\ [][Next]_vars

(***************************************************************************)
(* Properties.                                                             *)
(***************************************************************************)

\* The snapshots "count only NEW joins and de-dupe" (schema.sql:71): the counter
\* an advertiser pays for is the number of users counted who were not members
\* when first shown the channel.  Taps that do not overlap keep it so.
CounterMatchesRows ==
    \A c \in Sturdy : joins[c] = Cardinality({u \in Users : <<c, u>> \in counted \ was})

\* "You pay for new, real members only" (user.go:175): a member who joined before
\* the bot first showed the channel and never left is not counted as a new join.
NewJoinsOnly ==
    \A c \in Sturdy : \A u \in Users : <<c, u>> \in loyal => <<c, u>> \notin counted \ was

\* The completion alert of an order is out only while the order is complete, also
\* after its target was raised or lowered (channels.go:71, 172).
NoticeMatchesOrder == \A c \in Sturdy \cap notified : joins[c] >= target[c]

\* No config without the day's channels: when a handler comes to issue one, the
\* user was seen in, and counted for, every channel shown to him that day.
NoFreePass ==
    \A h \in Handlers : At(h, "issue") =>
        \A c \in Sturdy :
            shown[<<c, User(h)>>] = g[h].date /\ Enabled(c) => <<c, User(h)>> \in counted

(***************************************************************************)
(* The gate implements the advertisers' ledger.                            *)
(***************************************************************************)

\* What channel_user says of a user and a channel.
Stand(x) ==
    IF shown[x] = NoRow THEN "unmet"
    ELSE IF x \in was THEN (IF x \in counted THEN "excused" ELSE "old")
    ELSE IF x \in counted THEN "billed" ELSE "new"

Standing == [x \in Sturdy \X Users |-> Stand(x)]
Counters == [c \in Sturdy |-> joins[c]]
Sizing == [c \in Sturdy |-> IF kind[c] = "quota" THEN target[c] ELSE 0]

Advert == INSTANCE AdvertLedger WITH
    Orders <- Sturdy, People <- Users, Sizes <- Targets,
    stand <- Standing, fans <- loyal \cap (Sturdy \X Users), billed <- Counters,
    size <- Sizing, done <- notified \cap Sturdy

\* "Count only NEW joins and de-dupe" (schema.sql:71) as a specification: of every
\* step of tryClaim, of the menu and of a crash, the advertiser sees a person met
\* once, billed once, with counter and notice in one step, or nothing.
ImplementsAdvert == Advert!AdvertSpec
=============================================================================
