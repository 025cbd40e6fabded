--------------------------- MODULE ChannelGate_proofs ---------------------------
(***************************************************************************)
(* What the membership gate guarantees for any number of users, channels   *)
(* and handlers: the type invariant, then an inductive invariant with a    *)
(* part that holds however taps overlap and a part for one tap at a time.  *)
(***************************************************************************)
EXTENDS GateInv, FiniteSetTheorems, TLAPS

USE DEF channelRows, pairRows, gateVars, vars

(***************************************************************************)
(* Type correctness.                                                       *)
(***************************************************************************)

Local == [at : Places, user : Users, date : Days, chs : SUBSET Channels,
          todo : SUBSET Channels, cur : Channels, saw : BOOLEAN,
          missing : SUBSET Channels]

EnvTypeOK ==
    /\ lastClaim \in [Users -> Days \cup {NoRow}]
    /\ loyal \subseteq member /\ member \subseteq Pairs
    /\ dropping \subseteq Troubled
    /\ tday \in Days

LEMMA TypeSplit == TypeOK <=> ChannelTypeOK /\ g \in [Handlers -> Local] /\ EnvTypeOK
BY DEF TypeOK, Local, EnvTypeOK

LEMMA TypeSplitNext == TypeOK' <=> ChannelTypeOK' /\ g' \in [Handlers -> Local] /\ EnvTypeOK'
BY DEF TypeOK, Local, EnvTypeOK

LEMMA IdleType == Idle \in Local
<1>1. PICK u \in Users : TRUE
  BY ChannelAssumption
<1>2. PICK c \in Channels : TRUE
  BY ChannelAssumption
<1>3. (CHOOSE x \in Users : TRUE) \in Users
  BY <1>1
<1>4. (CHOOSE x \in Channels : TRUE) \in Channels
  BY <1>2
<1>5. 0 \in Days
  BY ChannelAssumption DEF Days
<1> QED
  BY <1>3, <1>4, <1>5 DEF Idle, Local, Places

\* A handler's step touches its own locals only.
Moves(h) ==
    /\ g' \in [Handlers -> Local]
    /\ \A k \in Handlers \ {h} : g'[k] = g[k]

\* The locals of a handler after each of its steps, field by field.
LEMMA OpenLocals ==
    ASSUME TypeOK, NEW h \in Handlers, NEW u \in Users, Open(h, u)
    PROVE  /\ Moves(h)
           /\ g'[h].at = "look" /\ g'[h].user = u /\ g'[h].date = tday
<1>1. tday \in Days /\ g \in [Handlers -> Local]
  BY TypeSplit DEF EnvTypeOK
<1>2. [Idle EXCEPT !.at = "look", !.user = u, !.date = tday] \in Local
  BY <1>1, IdleType DEF Local, Places
<1>3. g' = [g EXCEPT ![h] = [Idle EXCEPT !.at = "look", !.user = u, !.date = tday]]
  BY DEF Open
<1> DEFINE r == [Idle EXCEPT !.at = "look", !.user = u, !.date = tday]
<1>4. r.at = "look" /\ r.user = u /\ r.date = tday
  BY IdleType DEF Local
<1>5. r \in Local /\ g' = [g EXCEPT ![h] = r]
  BY <1>2, <1>3
<1> HIDE DEF r
<1>6. g'[h] = r /\ Moves(h)
  BY <1>1, <1>5 DEF Moves
<1> QED
  BY <1>4, <1>6

LEMMA LookLocals ==
    ASSUME TypeOK, NEW h \in Handlers, Look(h)
    PROVE  /\ Moves(h)
           /\ g'[h].user = g[h].user /\ g'[h].date = g[h].date
           /\ LET S == TodaysChannels(User(h), g[h].date) IN
              \/ g'[h].at = "check" /\ g'[h].chs = S /\ g'[h].todo = S
              \/ g'[h].at = "pick" /\ S = {}
<1>1. g \in [Handlers -> Local]
  BY TypeSplit
<1>2. g[h] \in Local
  BY <1>1
<1> DEFINE S == TodaysChannels(User(h), g[h].date)
<1>3. S \in SUBSET Channels
  BY DEF TodaysChannels
<1>4. \/ g' = [g EXCEPT ![h].at = "check", ![h].chs = S, ![h].todo = S]
      \/ S = {} /\ g' = [g EXCEPT ![h].at = "pick"]
  BY DEF Look
<1> HIDE DEF S
<1>5. CASE g' = [g EXCEPT ![h].at = "check", ![h].chs = S, ![h].todo = S]
  BY <1>1, <1>2, <1>3, <1>5 DEF Moves, Local, Places, S
<1>6. CASE S = {} /\ g' = [g EXCEPT ![h].at = "pick"]
  BY <1>1, <1>2, <1>3, <1>6 DEF Moves, Local, Places, S
<1> QED
  BY <1>4, <1>5, <1>6

LEMMA PickLocals ==
    ASSUME TypeOK, NEW h \in Handlers, Pick(h)
    PROVE  /\ Moves(h)
           /\ g'[h].user = g[h].user /\ g'[h].date = g[h].date
           /\ g'[h].todo = g'[h].chs
           /\ \A c \in g'[h].chs : there[c] = "kept"
           /\ g'[h].at \in {"check", "snapshot"}
<1>1. g \in [Handlers -> Local] /\ g[h] \in Local
  BY TypeSplit
<1>2. PICK Q \in Draws(OpenOrders(User(h))) :
        g' = [g EXCEPT ![h].chs = Permanent \cup Q, ![h].todo = Permanent \cup Q,
                       ![h].at = IF Permanent \cup Q = {} THEN "check" ELSE "snapshot"]
  BY DEF Pick
<1> DEFINE S == Permanent \cup Q
           place == IF S = {} THEN "check" ELSE "snapshot"
<1>3. S \in SUBSET Channels /\ \A c \in S : there[c] = "kept"
  BY DEF Permanent, Draws, OpenOrders, Enabled
<1>4. place \in {"check", "snapshot"}
  OBVIOUS
<1>5. g' = [g EXCEPT ![h].chs = S, ![h].todo = S, ![h].at = place]
  BY <1>2
<1> HIDE DEF S, place
<1> QED
  BY <1>1, <1>3, <1>4, <1>5 DEF Moves, Local, Places

LEMMA SnapshotLocals ==
    ASSUME TypeOK, NEW h \in Handlers, NEW c \in Channels, Snapshot(h, c)
    PROVE  /\ Moves(h)
           /\ g'[h].user = g[h].user /\ g'[h].date = g[h].date
           /\ g'[h].chs = g[h].chs /\ g'[h].todo = g[h].todo /\ c \in g[h].todo
           /\ g'[h].at = "assign" /\ g'[h].cur = c
           /\ c \in Sturdy /\ <<c, User(h)>> \in member => g'[h].saw
<1>1. g \in [Handlers -> Local] /\ g[h] \in Local
  BY TypeSplit
<1>2. PICK saw \in BOOLEAN :
        /\ g' = [g EXCEPT ![h].at = "assign", ![h].cur = c, ![h].saw = saw]
        /\ c \in Sturdy /\ <<c, User(h)>> \in member => saw
  BY Zenon DEF Snapshot, Sturdy
<1>3. c \in g[h].todo
  BY DEF Snapshot
<1> QED
  BY <1>1, <1>2, <1>3 DEF Moves, Local, Places

LEMMA AssignLocals ==
    ASSUME TypeOK, NEW h \in Handlers, Assign(h)
    PROVE  /\ Moves(h)
           /\ g'[h].user = g[h].user /\ g'[h].date = g[h].date /\ g'[h].chs = g[h].chs
           /\ \/ /\ g'[h].at = "check" /\ g'[h].todo = g[h].chs
                 /\ g[h].todo \subseteq {g[h].cur}
              \/ g'[h].at = "snapshot" /\ g'[h].todo = g[h].todo \ {g[h].cur}
<1>1. g \in [Handlers -> Local] /\ g[h] \in Local
  BY TypeSplit
<1> DEFINE rest == g[h].todo \ {g[h].cur}
<1>2. g' = [g EXCEPT ![h].todo = IF rest = {} THEN g[h].chs ELSE rest,
                     ![h].at = IF rest = {} THEN "check" ELSE "snapshot", ![h].saw = FALSE]
  BY DEF Assign
<1>3. CASE rest = {}
  <2>1. g' = [g EXCEPT ![h].todo = g[h].chs, ![h].at = "check", ![h].saw = FALSE]
    BY <1>2, <1>3
  <2> QED
    BY <1>1, <1>3, <2>1 DEF Moves, Local, Places
<1>4. CASE rest # {}
  <2>1. g' = [g EXCEPT ![h].todo = rest, ![h].at = "snapshot", ![h].saw = FALSE]
    BY <1>2, <1>4
  <2> QED
    BY <1>1, <1>4, <2>1 DEF Moves, Local, Places
<1> QED
  BY <1>3, <1>4

LEMMA CheckLocals ==
    ASSUME TypeOK, NEW h \in Handlers, NEW c \in Channels, Check(h, c)
    PROVE  /\ Moves(h)
           /\ g'[h].user = g[h].user /\ g'[h].date = g[h].date /\ g'[h].chs = g[h].chs
           /\ g'[h].todo = g[h].todo \ {c} /\ c \in g[h].todo
           /\ \/ g'[h].at = "state" /\ g'[h].cur = c /\ g'[h].missing = g[h].missing
              \/ g'[h].at = "check" /\ g'[h].missing = g[h].missing \cup {c}
              \/ /\ g'[h].at = "check" /\ g'[h].missing = g[h].missing
                 /\ c \notin Sturdy
<1>1. g \in [Handlers -> Local] /\ g[h] \in Local
  BY TypeSplit
<1>2. c \in g[h].todo /\ g[h].at = "check"
  BY DEF Check, At
<1>3. CASE g' = [g EXCEPT ![h].at = "state", ![h].cur = c, ![h].todo = @ \ {c}]
  BY <1>1, <1>2, <1>3 DEF Moves, Local, Places
<1>4. CASE g' = [g EXCEPT ![h].todo = @ \ {c}, ![h].missing = @ \cup {c}]
  BY <1>1, <1>2, <1>4 DEF Moves, Local, Places
<1>5. CASE c \in Troubled /\ g' = [g EXCEPT ![h].todo = @ \ {c}]
  BY <1>1, <1>2, <1>5 DEF Moves, Local, Places, Sturdy
<1> QED
  BY <1>3, <1>4, <1>5 DEF Check

LEMMA PlaceLocals ==
    ASSUME TypeOK, NEW h \in Handlers, NEW place \in Places, g' = [g EXCEPT ![h].at = place]
    PROVE  /\ Moves(h)
           /\ g'[h] = [g[h] EXCEPT !.at = place]
           /\ g'[h].user = g[h].user /\ g'[h].date = g[h].date /\ g'[h].chs = g[h].chs
           /\ g'[h].todo = g[h].todo /\ g'[h].cur = g[h].cur
           /\ g'[h].missing = g[h].missing /\ g'[h].at = place
<1>1. g \in [Handlers -> Local] /\ g[h] \in Local
  BY TypeSplit
<1> QED
  BY <1>1 DEF Moves, Local

LEMMA ReturnLocals ==
    ASSUME TypeOK, NEW h \in Handlers, Return(h)
    PROVE  /\ Moves(h)
           /\ g'[h].at = "idle"
<1>1. g \in [Handlers -> Local] /\ g[h] \in Local
  BY TypeSplit
<1>2. Idle \in Local /\ Idle.at = "idle"
  BY IdleType DEF Idle
<1>3. g' = [g EXCEPT ![h] = Idle]
  BY DEF Return
<1> QED
  BY <1>1, <1>2, <1>3 DEF Moves

LEMMA StoreStepsType ==
    ASSUME ChannelTypeOK, NEW c \in Channels, NEW u \in Users, NEW d \in Days
    PROVE  /\ \A n \in Targets, k \in {"quota", "permanent"} : AddChannel(c, k, n) => ChannelTypeOK'
           /\ \A n \in Targets : SetChannelQuota(c, n) => ChannelTypeOK'
           /\ \A yes : SetChannelEnabled(c, yes) => ChannelTypeOK'
           /\ DeletePairs(c) => ChannelTypeOK'
           /\ DeleteRow(c) => ChannelTypeOK'
           /\ \A yes : AssignChannel(c, u, d, yes) => ChannelTypeOK'
           /\ CreditNewJoin(c, u) => ChannelTypeOK'
           /\ MarkCounted(c, u) => ChannelTypeOK'
<1> USE DEF ChannelTypeOK
<1>0. <<c, u>> \in Pairs
  BY DEF Pairs
<1>1. ASSUME NEW n \in Targets, NEW k \in {"quota", "permanent"}, AddChannel(c, k, n)
      PROVE  ChannelTypeOK'
  BY <1>1 DEF AddChannel
<1>2. ASSUME NEW n \in Targets, SetChannelQuota(c, n) PROVE ChannelTypeOK'
  BY <1>2 DEF SetChannelQuota, Rearmed
<1>3. ASSUME NEW yes, SetChannelEnabled(c, yes) PROVE ChannelTypeOK'
  <2>1. on' = on \cup {c} \/ on' = on \ {c}
    BY <1>3, Zenon DEF SetChannelEnabled
  <2>2. UNCHANGED <<there, kind, target, joins, notified, pairRows>>
    BY <1>3, Zenon DEF SetChannelEnabled
  <2> QED
    BY <2>1, <2>2
<1>4. ASSUME DeletePairs(c) PROVE ChannelTypeOK'
  BY <1>4 DEF DeletePairs
<1>5. ASSUME DeleteRow(c) PROVE ChannelTypeOK'
  BY <1>5, ChannelAssumption DEF DeleteRow
<1>6. ASSUME NEW yes, AssignChannel(c, u, d, yes) PROVE ChannelTypeOK'
  <2>1. shown' = [shown EXCEPT ![<<c, u>>] = d]
    BY <1>6, Zenon DEF AssignChannel
  <2>2. was' = was \/ was' = was \cup {<<c, u>>}
    BY <1>6, Zenon DEF AssignChannel, FirstSnapshot
  <2>3. UNCHANGED <<counted, channelRows>>
    BY <1>6, Zenon DEF AssignChannel
  <2> QED
    BY <1>0, <2>1, <2>2, <2>3
<1>7. ASSUME CreditNewJoin(c, u) PROVE ChannelTypeOK'
  BY <1>0, <1>7 DEF CreditNewJoin, Count
<1>8. ASSUME MarkCounted(c, u) PROVE ChannelTypeOK'
  BY <1>0, <1>8 DEF MarkCounted, Count
<1> QED
  BY <1>1, <1>2, <1>3, <1>4, <1>5, <1>6, <1>7, <1>8

LEMMA InitType == Init => TypeOK
<1> SUFFICES ASSUME Init PROVE TypeOK
  OBVIOUS
<1>1. ChannelTypeOK
  BY ChannelAssumption DEF Init, ChannelInit, ChannelTypeOK
<1>2. g \in [Handlers -> Local]
  BY IdleType DEF Init
<1>3. EnvTypeOK
  BY ChannelAssumption DEF Init, EnvTypeOK, Days
<1> QED
  BY <1>1, <1>2, <1>3, TypeSplit

\* The database after a step of a handler.
LEMMA HandlerMoves ==
    ASSUME TypeOK, NEW h \in Handlers, HandlerStep(h)
    PROVE  Moves(h)
<1>1. ASSUME NEW u \in Users, Open(h, u) PROVE Moves(h)
  BY <1>1, OpenLocals
<1>2. ASSUME NEW c \in Channels, Snapshot(h, c) PROVE Moves(h)
  BY <1>2, SnapshotLocals
<1>3. ASSUME NEW c \in Channels, Check(h, c) PROVE Moves(h)
  BY <1>3, CheckLocals
<1>4. CASE Look(h)
  BY <1>4, LookLocals
<1>5. CASE Pick(h)
  BY <1>5, PickLocals
<1>6. CASE Assign(h)
  BY <1>6, AssignLocals
<1>7. CASE ReadState(h)
  <2>1. NextAct(<<g[h].cur, User(h)>>) \in Places
    BY DEF NextAct, Places
  <2> QED
    BY <1>7, <2>1, PlaceLocals DEF ReadState
<1>8. CASE Settle(h)
  <2>1. "check" \in Places
    BY DEF Places
  <2> QED
    BY <1>8, <2>1, PlaceLocals DEF Settle
<1>9. CASE Verdict(h)
  <2>1. "issue" \in Places
    BY DEF Places
  <2> QED
    BY <1>9, <2>1, PlaceLocals, ReturnLocals DEF Verdict
<1>10. CASE Issue(h)
  BY <1>10, ReturnLocals DEF Issue
<1> QED
  BY <1>1, <1>2, <1>3, <1>4, <1>5, <1>6, <1>7, <1>8, <1>9, <1>10 DEF HandlerStep

LEMMA HandlerType ==
    ASSUME TypeOK, NEW h \in Handlers, HandlerStep(h)
    PROVE  TypeOK'
<1>1. g[h] \in Local /\ ChannelTypeOK /\ EnvTypeOK
  BY TypeSplit
<1>2. g' \in [Handlers -> Local]
  BY HandlerMoves DEF Moves
<1>3. g[h].cur \in Channels /\ User(h) \in Users /\ g[h].date \in Days
  BY <1>1 DEF Local, User
<1>4. UNCHANGED <<member, loyal, dropping, tday>>
  BY Zenon DEF HandlerStep, Open, Snapshot, Check, Look, Pick, Assign, ReadState, Settle, Verdict, Issue
<1>5. EnvTypeOK'
  <2>1. lastClaim' = lastClaim \/ lastClaim' = [lastClaim EXCEPT ![User(h)] = g[h].date]
    BY Zenon DEF HandlerStep, Open, Snapshot, Check, Look, Pick, Assign, ReadState, Settle, Verdict, Issue
  <2> QED
    BY <1>1, <1>3, <1>4, <2>1 DEF EnvTypeOK
<1>6. ChannelTypeOK'
  <2>1. CASE UNCHANGED <<channelRows, pairRows>>
    BY <1>1, <2>1 DEF ChannelTypeOK
  <2>2. CASE Assign(h)
    BY <1>1, <1>3, <2>1, <2>2, StoreStepsType DEF Assign
  <2>3. CASE Settle(h)
    BY <1>1, <1>3, <2>1, <2>3, StoreStepsType DEF Settle
  <2> QED
    BY <2>1, <2>2, <2>3, Zenon
    DEF HandlerStep, Open, Snapshot, Check, Look, Pick, ReadState, Verdict, Issue
<1> QED
  BY <1>2, <1>5, <1>6, TypeSplitNext

LEMMA StepType == TypeOK /\ [Next]_vars => TypeOK'
<1> SUFFICES ASSUME TypeOK, [Next]_vars PROVE TypeOK'
  OBVIOUS
<1>1. ChannelTypeOK /\ EnvTypeOK /\ g \in [Handlers -> Local]
  BY TypeSplit
<1>2. PICK u \in Users : TRUE
  BY ChannelAssumption
<1>3. 0 \in Days
  BY ChannelAssumption DEF Days
<1>4. CASE UNCHANGED vars
  BY <1>4 DEF TypeOK, ChannelTypeOK
<1>5. ASSUME NEW h \in Handlers, HandlerStep(h) PROVE TypeOK'
  BY <1>5, HandlerType
<1>6. ASSUME NEW c \in Channels, NEW v \in Users, Join(c, v) \/ Leave(c, v) PROVE TypeOK'
  <2>1. ChannelTypeOK' /\ g' \in [Handlers -> Local]
    BY <1>1, <1>6 DEF Join, Leave, ChannelTypeOK
  <2>2. <<c, v>> \in Pairs
    BY DEF Pairs
  <2>3. EnvTypeOK'
    BY <1>1, <1>6, <2>2 DEF Join, Leave, EnvTypeOK
  <2> QED
    BY <2>1, <2>3, TypeSplitNext
<1>7. ASSUME NEW c \in Channels, NEW n \in Targets, FinishAddChannel(c, n) \/ ChangeQuota(c, n)
      PROVE  TypeOK'
  <2>1. ChannelTypeOK'
    BY <1>1, <1>2, <1>3, <1>7, StoreStepsType DEF FinishAddChannel, ChangeQuota
  <2>2. EnvTypeOK' /\ g' \in [Handlers -> Local]
    BY <1>1, <1>7 DEF FinishAddChannel, ChangeQuota, EnvTypeOK
  <2> QED
    BY <2>1, <2>2, TypeSplitNext
<1>8. ASSUME NEW c \in Channels, ToggleChannel(c) \/ BeginDelete(c) \/ EndDelete(c)
      PROVE  TypeOK'
  <2>0. UNCHANGED <<channelRows, pairRows>> => ChannelTypeOK'
    BY <1>1 DEF ChannelTypeOK
  <2>1. ChannelTypeOK'
    BY <1>1, <1>2, <1>3, <1>8, <2>0, StoreStepsType DEF ToggleChannel, BeginDelete, EndDelete
  <2>2. EnvTypeOK' /\ g' \in [Handlers -> Local]
    BY <1>1, <1>8 DEF ToggleChannel, BeginDelete, EndDelete, EnvTypeOK
  <2> QED
    BY <2>1, <2>2, TypeSplitNext
<1>9. CASE NewDay
  <2>1. ChannelTypeOK' /\ g' \in [Handlers -> Local]
    BY <1>1, <1>9 DEF NewDay, ChannelTypeOK
  <2>2. EnvTypeOK'
    BY <1>1, <1>9, ChannelAssumption DEF NewDay, EnvTypeOK, Days
  <2> QED
    BY <2>1, <2>2, TypeSplitNext
<1>10. CASE Crash
  <2>1. ChannelTypeOK' /\ EnvTypeOK'
    BY <1>1, <1>10 DEF Crash, ChannelTypeOK, EnvTypeOK
  <2>2. g' \in [Handlers -> Local]
    BY <1>10, IdleType DEF Crash
  <2> QED
    BY <2>1, <2>2, TypeSplitNext
<1> QED
  BY <1>4, <1>5, <1>6, <1>7, <1>8, <1>9, <1>10 DEF Next, Menu

\* TypeOK: rows, locals of the handlers and the days keep their shapes, and
\* only members of a channel are loyal to it.
THEOREM GateTypeCorrect == Spec => []TypeOK
BY InitType, StepType, PTL DEF Spec

(***************************************************************************)
(* What a step may do to the pair of a sturdy channel and a user, to the   *)
(* channel, to a user's loyalty and to the locals of a handler.            *)
(***************************************************************************)

SamePair(x) ==
    /\ shown'[x] = shown[x]
    /\ x \in was' <=> x \in was
    /\ x \in counted' <=> x \in counted

Shows(h, c, u) ==
    LET x == <<c, u>> IN
    /\ Assign(h) /\ c = g[h].cur /\ u = User(h)
    /\ shown'[x] = g[h].date
    /\ x \in was' <=> x \in was \/ (g[h].saw /\ shown[x] = NoRow)
    /\ x \in counted' <=> x \in counted

Counts(h, c, u) ==
    LET x == <<c, u>> IN
    /\ Settle(h) /\ c = g[h].cur /\ u = User(h)
    /\ shown'[x] = shown[x]
    /\ x \in was' <=> x \in was
    /\ x \in counted' <=> x \in counted \/ shown[x] # NoRow

LEMMA SturdyChannel == \A c \in Sturdy : c \in Channels /\ c \notin Troubled
BY DEF Sturdy

LEMMA AssignPair ==
    ASSUME TypeOK, NEW h \in Handlers, Assign(h), NEW c \in Sturdy, NEW u \in Users
    PROVE  IF c = g[h].cur /\ u = User(h) THEN Shows(h, c, u) ELSE SamePair(<<c, u>>)
<1>1. ChannelTypeOK /\ g[h] \in Local /\ <<c, u>> \in Pairs
  BY TypeSplit DEF Pairs, Sturdy
<1>2. CASE g[h].cur \in Troubled /\ UNCHANGED <<channelRows, pairRows>>
  BY <1>2, SturdyChannel, Zenon DEF SamePair
<1>3. CASE AssignChannel(g[h].cur, User(h), g[h].date, g[h].saw)
  <2>1. shown' = [shown EXCEPT ![<<g[h].cur, User(h)>>] = g[h].date] /\ counted' = counted
    BY <1>3, Zenon DEF AssignChannel
  <2>2. was' = FirstSnapshot(g[h].cur, User(h), g[h].saw)
    BY <1>3, Zenon DEF AssignChannel
  <2>3. CASE c = g[h].cur /\ u = User(h)
    <3>1. shown'[<<c, u>>] = g[h].date
      BY <1>1, <2>1, <2>3 DEF ChannelTypeOK
    <3>2. <<c, u>> \in was' <=> <<c, u>> \in was \/ (g[h].saw /\ shown[<<c, u>>] = NoRow)
      BY <2>2, <2>3, Zenon DEF FirstSnapshot
    <3> QED
      BY <2>1, <2>3, <3>1, <3>2, Zenon DEF Shows
  <2>4. CASE ~(c = g[h].cur /\ u = User(h))
    <3>1. <<c, u>> # <<g[h].cur, User(h)>>
      BY <2>4
    <3>2. shown'[<<c, u>>] = shown[<<c, u>>]
      BY <1>1, <2>1, <3>1 DEF ChannelTypeOK
    <3>3. was' = was \/ was' = was \cup {<<g[h].cur, User(h)>>}
      BY <2>2, Zenon DEF FirstSnapshot
    <3> QED
      BY <2>1, <3>1, <3>2, <3>3, Zenon DEF SamePair
  <2> QED
    BY <2>3, <2>4
<1> QED
  BY <1>2, <1>3, Zenon DEF Assign

LEMMA SettlePair ==
    ASSUME TypeOK, NEW h \in Handlers, Settle(h), NEW c \in Sturdy, NEW u \in Users
    PROVE  IF c = g[h].cur /\ u = User(h) THEN Counts(h, c, u) ELSE SamePair(<<c, u>>)
<1>1. shown' = shown /\ was' = was
  BY Zenon DEF Settle, CreditNewJoin, MarkCounted
<1>2. counted' = counted \/ counted' = Count(g[h].cur, User(h))
  BY Zenon DEF Settle, CreditNewJoin, MarkCounted
<1>3. CASE c = g[h].cur /\ u = User(h)
  <2>1. counted' = Count(c, u)
    BY <1>3, SturdyChannel, Zenon DEF Settle, CreditNewJoin, MarkCounted
  <2>2. <<c, u>> \in counted' <=> <<c, u>> \in counted \/ shown[<<c, u>>] # NoRow
    BY <2>1, Zenon DEF Count
  <2> QED
    BY <1>1, <1>3, <2>2, Zenon DEF Counts
<1>4. CASE ~(c = g[h].cur /\ u = User(h))
  <2>1. <<c, u>> # <<g[h].cur, User(h)>>
    BY <1>4
  <2>2. counted' = counted \/ counted' = counted \cup {<<g[h].cur, User(h)>>}
    BY <1>2, Zenon DEF Count
  <2> QED
    BY <1>1, <2>1, <2>2, Zenon DEF SamePair
<1> QED
  BY <1>3, <1>4

LEMMA PairEffect ==
    ASSUME TypeOK, [Next]_vars, NEW c \in Sturdy, NEW u \in Users
    PROVE  \/ SamePair(<<c, u>>)
           \/ \E h \in Handlers : Shows(h, c, u) \/ Counts(h, c, u)
<1>1. UNCHANGED pairRows => SamePair(<<c, u>>)
  BY Zenon DEF SamePair
<1>2. ASSUME NEW h \in Handlers, HandlerStep(h)
      PROVE  SamePair(<<c, u>>) \/ Shows(h, c, u) \/ Counts(h, c, u)
  <2>1. UNCHANGED pairRows \/ Assign(h) \/ Settle(h)
    BY <1>2, Zenon
    DEF HandlerStep, Open, Snapshot, Check, Look, Pick, ReadState, Verdict, Issue
  <2> QED
    BY <1>1, <2>1, AssignPair, SettlePair
<1>3. ASSUME NEW d \in Channels, BeginDelete(d) PROVE SamePair(<<c, u>>)
  <2>1. c # d /\ <<c, u>> \in Pairs
    BY <1>3 DEF BeginDelete, Sturdy, Pairs
  <2>2. shown' = [x \in Pairs |-> IF x[1] = d THEN NoRow ELSE shown[x]]
        /\ was' = {x \in was : x[1] # d} /\ counted' = {x \in counted : x[1] # d}
    BY <1>3 DEF BeginDelete, DeletePairs
  <2>3. <<c, u>>[1] # d
    BY <2>1
  <2> QED
    BY <2>1, <2>2, <2>3 DEF SamePair
<1>4. ASSUME Menu PROVE UNCHANGED pairRows \/ \E d \in Channels : BeginDelete(d)
  BY <1>4, Zenon DEF Menu, FinishAddChannel, AddChannel, ChangeQuota, SetChannelQuota,
     ToggleChannel, SetChannelEnabled, EndDelete, DeleteRow
<1>5. ASSUME NEW d \in Channels, NEW v \in Users, Join(d, v) \/ Leave(d, v) PROVE UNCHANGED pairRows
  BY <1>5, Zenon DEF Join, Leave
<1>6. NewDay \/ Crash \/ UNCHANGED vars => UNCHANGED pairRows
  BY Zenon DEF NewDay, Crash
<1> QED
  BY <1>1, <1>2, <1>3, <1>4, <1>5, <1>6, Zenon DEF Next

\* The row of a sturdy channel.
SameRow(c) ==
    /\ there'[c] = there[c] /\ joins'[c] = joins[c]
    /\ c \in on' <=> c \in on

Appears(c) == there[c] # "kept" /\ there'[c] = "kept" /\ joins'[c] = joins[c]

Credits(h, c) ==
    /\ Settle(h) /\ At(h, "credit") /\ c = g[h].cur
    /\ there[c] = "kept" /\ there'[c] = there[c] /\ joins'[c] = joins[c] + 1
    /\ c \in on' <=> c \in on

LEMMA RowEffect ==
    ASSUME TypeOK, [Next]_vars, NEW c \in Sturdy
    PROVE  SameRow(c) \/ Appears(c) \/ \E h \in Handlers : Credits(h, c)
<1>0. ChannelTypeOK /\ dropping \subseteq Troubled /\ c \in Channels /\ c \notin Troubled
  BY TypeSplit, SturdyChannel DEF EnvTypeOK
<1>1. UNCHANGED <<there, joins, on>> => SameRow(c)
  BY Zenon DEF SameRow
<1>2. ASSUME NEW h \in Handlers, HandlerStep(h) PROVE SameRow(c) \/ Credits(h, c)
  <2>1. \/ UNCHANGED channelRows
        \/ At(h, "credit") /\ Settle(h) /\ CreditNewJoin(g[h].cur, User(h))
    <3>1. UNCHANGED channelRows \/ Settle(h)
      BY <1>2, Zenon DEF HandlerStep, Open, Snapshot, Check, Look, Pick, Assign,
         AssignChannel, ReadState, Verdict, Issue
    <3>2. Settle(h) => \/ UNCHANGED channelRows
                       \/ At(h, "credit") /\ CreditNewJoin(g[h].cur, User(h))
      BY Zenon DEF Settle, MarkCounted
    <3> QED
      BY <3>1, <3>2, Zenon
  <2>2. ASSUME At(h, "credit"), Settle(h), CreditNewJoin(g[h].cur, User(h))
        PROVE  SameRow(c) \/ Credits(h, c)
    <3>1. there[g[h].cur] = "kept" /\ there' = there /\ on' = on
          /\ joins' = [joins EXCEPT ![g[h].cur] = @ + 1]
      BY <2>2, Zenon DEF CreditNewJoin
    <3>2. CASE c = g[h].cur
      BY <1>0, <2>2, <3>1, <3>2 DEF Credits, ChannelTypeOK
    <3>3. CASE c # g[h].cur
      BY <1>0, <3>1, <3>3 DEF SameRow, ChannelTypeOK
    <3> QED
      BY <3>2, <3>3
  <2> QED
    BY <1>1, <2>1, <2>2, Zenon
<1>3. ASSUME NEW d \in Channels, NEW n \in Targets, FinishAddChannel(d, n)
      PROVE  SameRow(c) \/ Appears(c)
  <2>1. there' = [there EXCEPT ![d] = "kept"] /\ joins' = joins /\ (on' = on \/ on' = on \cup {d})
        /\ (there[d] = "kept" => d \in Troubled)
    BY <1>3, Zenon DEF FinishAddChannel, AddChannel
  <2>2. CASE c = d
    BY <1>0, <2>1, <2>2 DEF Appears, ChannelTypeOK
  <2>3. CASE c # d
    BY <1>0, <2>1, <2>3 DEF SameRow, ChannelTypeOK
  <2> QED
    BY <2>2, <2>3
<1>4. ASSUME NEW d \in Channels, NEW n \in Targets, ChangeQuota(d, n) PROVE SameRow(c)
  BY <1>1, <1>4, Zenon DEF ChangeQuota, SetChannelQuota
<1>5. ASSUME NEW d \in Channels, ToggleChannel(d) PROVE SameRow(c)
  <2>1. d # c /\ there' = there /\ joins' = joins /\ (on' = on \cup {d} \/ on' = on \ {d})
    BY <1>0, <1>5, Zenon DEF ToggleChannel, SetChannelEnabled
  <2> QED
    BY <2>1, Zenon DEF SameRow
<1>6. ASSUME NEW d \in Channels, EndDelete(d) PROVE SameRow(c)
  <2>1. d # c
    BY <1>0, <1>6, Zenon DEF EndDelete
  <2>2. UNCHANGED channelRows \/ DeleteRow(d)
    BY <1>6, Zenon DEF EndDelete
  <2>3. CASE DeleteRow(d)
    BY <1>0, <2>1, <2>3 DEF DeleteRow, SameRow, ChannelTypeOK
  <2> QED
    BY <1>1, <2>2, <2>3
<1>7. ASSUME NEW d \in Channels, BeginDelete(d) PROVE SameRow(c)
  BY <1>1, <1>7, Zenon DEF BeginDelete, DeletePairs
<1>8. ASSUME NEW d \in Channels, NEW v \in Users, Join(d, v) \/ Leave(d, v) PROVE SameRow(c)
  BY <1>1, <1>8, Zenon DEF Join, Leave
<1>9. NewDay \/ Crash \/ UNCHANGED vars => SameRow(c)
  BY <1>1, Zenon DEF NewDay, Crash
<1> QED
  BY <1>2, <1>3, <1>4, <1>5, <1>6, <1>7, <1>8, <1>9, Zenon DEF Next, Menu

\* Somebody becomes loyal only while none of his taps is handled.
LEMMA LoyalEffect ==
    ASSUME TypeOK, [Next]_vars, NEW c \in Sturdy, NEW u \in Users, <<c, u>> \in loyal'
    PROVE  \/ <<c, u>> \in loyal
           \/ shown[<<c, u>>] = NoRow /\ LiveOf(u) = {} /\ UNCHANGED <<g, pairRows>>
<1>1. ASSUME NEW d \in Channels, NEW v \in Users, Join(d, v)
      PROVE  \/ <<c, u>> \in loyal
             \/ shown[<<c, u>>] = NoRow /\ LiveOf(u) = {} /\ UNCHANGED <<g, pairRows>>
  <2>1. UNCHANGED <<g, pairRows>>
    BY <1>1, Zenon DEF Join
  <2>2. \/ loyal' = loyal
        \/ loyal' = loyal \cup {<<d, v>>} /\ shown[<<d, v>>] = NoRow /\ LiveOf(v) = {}
    BY <1>1, Zenon DEF Join
  <2>3. <<c, u>> = <<d, v>> => c = d /\ u = v
    OBVIOUS
  <2> QED
    BY <2>1, <2>2, <2>3, Zenon
<1>2. ASSUME NEW d \in Channels, NEW v \in Users, Leave(d, v) PROVE <<c, u>> \in loyal
  BY <1>2, Zenon DEF Leave
<1>3. ASSUME NEW h \in Handlers, HandlerStep(h) PROVE loyal' = loyal
  BY <1>3, Zenon
  DEF HandlerStep, Open, Snapshot, Check, Look, Pick, Assign, ReadState, Settle, Verdict, Issue
<1>4. Menu => loyal' = loyal
  BY Zenon DEF Menu, FinishAddChannel, ChangeQuota, ToggleChannel, BeginDelete, EndDelete
<1>5. NewDay \/ Crash \/ UNCHANGED vars => loyal' = loyal
  BY Zenon DEF NewDay, Crash
<1> QED
  BY <1>1, <1>2, <1>3, <1>4, <1>5, Zenon DEF Next

\* The locals of a handler change with its own steps and with a crash.
LEMMA LocalsEffect ==
    ASSUME TypeOK, [Next]_vars, NEW k \in Handlers
    PROVE  g'[k] = g[k] \/ HandlerStep(k) \/ g'[k].at = "idle"
<1>1. ASSUME NEW h \in Handlers, HandlerStep(h) PROVE g'[k] = g[k] \/ HandlerStep(k)
  BY <1>1, HandlerMoves DEF Moves
<1>2. Menu => g' = g
  BY Zenon DEF Menu, FinishAddChannel, ChangeQuota, ToggleChannel, BeginDelete, EndDelete
<1>3. CASE Crash
  BY <1>3 DEF Crash, Idle
<1>4. NewDay \/ UNCHANGED vars => g' = g
  BY Zenon DEF NewDay
<1>5. ASSUME NEW c \in Channels, NEW u \in Users, Join(c, u) \/ Leave(c, u) PROVE g' = g
  BY <1>5, Zenon DEF Join, Leave
<1> QED
  BY <1>1, <1>2, <1>3, <1>4, <1>5, Zenon DEF Next

(***************************************************************************)
(* The part of the invariant that holds however taps overlap.              *)
(***************************************************************************)

LEMMA FlagsStep ==
    ASSUME TypeOK, [Next]_vars, FlagsHaveRow
    PROVE  FlagsHaveRow'
<1> SUFFICES ASSUME NEW c \in Sturdy, NEW u \in Users, shown'[<<c, u>>] = NoRow
             PROVE  <<c, u>> \notin was' /\ <<c, u>> \notin counted'
  BY Zenon DEF FlagsHaveRow, Row
<1>1. shown[<<c, u>>] = NoRow => <<c, u>> \notin was /\ <<c, u>> \notin counted
  BY Zenon DEF FlagsHaveRow, Row
<1>2. CASE SamePair(<<c, u>>)
  BY <1>1, <1>2, Zenon DEF SamePair
<1>3. ASSUME NEW h \in Handlers, Shows(h, c, u) PROVE FALSE
  <2>1. g[h].date \in Days
    BY TypeSplit DEF Local
  <2>2. g[h].date = NoRow
    BY <1>3, Zenon DEF Shows
  <2> QED
    BY <2>1, <2>2 DEF Days, NoRow
<1>4. ASSUME NEW h \in Handlers, Counts(h, c, u)
      PROVE  <<c, u>> \notin was' /\ <<c, u>> \notin counted'
  BY <1>1, <1>4, Zenon DEF Counts
<1> QED
  BY <1>2, <1>3, <1>4, PairEffect, Zenon

LEMMA LoyalStep ==
    ASSUME TypeOK, [Next]_vars, LoyalKnown, SightKept
    PROVE  LoyalKnown'
<1> SUFFICES ASSUME NEW c \in Sturdy, NEW u \in Users,
                    <<c, u>> \in loyal', shown'[<<c, u>>] # NoRow
             PROVE  <<c, u>> \in was'
  BY Zenon DEF LoyalKnown, Row
<1>1. CASE shown[<<c, u>>] = NoRow /\ UNCHANGED pairRows
  BY <1>1
<1>2. CASE <<c, u>> \in loyal
  <2>1. shown[<<c, u>>] # NoRow => <<c, u>> \in was
    BY <1>2, Zenon DEF LoyalKnown, Row
  <2>2. CASE SamePair(<<c, u>>)
    BY <2>1, <2>2, Zenon DEF SamePair
  <2>3. ASSUME NEW h \in Handlers, Shows(h, c, u) PROVE <<c, u>> \in was'
    <3>1. At(h, "assign") /\ c = g[h].cur /\ u = User(h)
      BY <2>3, Zenon DEF Shows, Assign
    <3>2. shown[<<c, u>>] = NoRow => g[h].saw
      BY <1>2, <3>1, Zenon DEF SightKept, Row
    <3> QED
      BY <2>1, <2>3, <3>2, Zenon DEF Shows
  <2>4. ASSUME NEW h \in Handlers, Counts(h, c, u) PROVE <<c, u>> \in was'
    BY <2>1, <2>4, Zenon DEF Counts
  <2> QED
    BY <2>2, <2>3, <2>4, PairEffect, Zenon
<1> QED
  BY <1>1, <1>2, LoyalEffect, Zenon

LEMMA SightStep ==
    ASSUME TypeOK, [Next]_vars, SightKept
    PROVE  SightKept'
<1> SUFFICES ASSUME NEW h \in Handlers, g'[h].at = "assign", g'[h].cur \in Sturdy,
                    <<g'[h].cur, g'[h].user>> \in loyal',
                    shown'[<<g'[h].cur, g'[h].user>>] = NoRow
             PROVE  g'[h].saw
  BY Zenon DEF SightKept, Row, At, User
<1> DEFINE c == g'[h].cur  u == g'[h].user
<1>1. g \in [Handlers -> Local] /\ loyal \subseteq member
  BY TypeSplit DEF EnvTypeOK
<1>2. g' \in [Handlers -> Local]
  BY StepType, TypeSplitNext
<1>3. c \in Sturdy /\ u \in Users
  BY <1>2 DEF Local
<1>4. shown[<<c, u>>] = NoRow
  <2>1. CASE SamePair(<<c, u>>)
    BY <2>1, Zenon DEF SamePair
  <2>2. ASSUME NEW k \in Handlers, Shows(k, c, u) PROVE FALSE
    <3>1. g[k].date \in Days
      BY <1>1 DEF Local
    <3>2. g[k].date = NoRow
      BY <2>2, Zenon DEF Shows
    <3> QED
      BY <3>1, <3>2 DEF Days, NoRow
  <2>3. ASSUME NEW k \in Handlers, Counts(k, c, u) PROVE shown[<<c, u>>] = NoRow
    BY <2>3, Zenon DEF Counts
  <2> QED
    BY <1>3, <2>1, <2>2, <2>3, PairEffect, Zenon
<1>5. CASE g'[h] = g[h]
  <2>1. ~At(h, "idle") /\ User(h) = u
    BY <1>5 DEF At, User
  <2>2. LiveOf(u) # {}
    BY <2>1, Zenon DEF LiveOf
  <2>3. <<c, u>> \in loyal
    BY <1>3, <2>2, LoyalEffect, Zenon
  <2> QED
    BY <1>3, <1>4, <1>5, <2>3, Zenon DEF SightKept, Row, At, User
<1>6. CASE HandlerStep(h)
  <2>1. ASSUME NEW d \in Channels, Snapshot(h, d) PROVE g'[h].saw
    <3>1. d = c /\ u = User(h) /\ UNCHANGED loyal
      BY <2>1, SnapshotLocals DEF Snapshot, User
    <3>2. <<c, u>> \in member
      BY <1>1, <3>1, Zenon
    <3> QED
      BY <1>3, <2>1, <3>1, <3>2, SnapshotLocals, Zenon
  <2>2. ASSUME NEW d \in Channels, Check(h, d) PROVE FALSE
    BY <2>2, CheckLocals
  <2>3. ASSUME NEW v \in Users, Open(h, v) PROVE FALSE
    BY <2>3, OpenLocals
  <2>4. CASE Look(h)
    BY <2>4, LookLocals
  <2>5. CASE Pick(h)
    BY <2>5, PickLocals
  <2>6. CASE Assign(h)
    BY <2>6, AssignLocals
  <2>7. CASE ReadState(h)
    <3>1. NextAct(<<g[h].cur, User(h)>>) \in Places \ {"assign"}
      BY DEF NextAct, Places
    <3> QED
      BY <2>7, <3>1, PlaceLocals DEF ReadState
  <2>8. CASE Settle(h) \/ Verdict(h) \/ Issue(h)
    <3>1. {"check", "issue"} \subseteq Places
      BY DEF Places
    <3> QED
      BY <2>8, <3>1, PlaceLocals, ReturnLocals DEF Settle, Verdict, Issue
  <2> QED
    BY <1>6, <2>1, <2>2, <2>3, <2>4, <2>5, <2>6, <2>7, <2>8, Zenon DEF HandlerStep
<1> QED
  BY <1>5, <1>6, LocalsEffect

LEMMA NoticeStep ==
    ASSUME TypeOK, [Next]_vars, NoticeBacked
    PROVE  NoticeBacked'
<1> SUFFICES ASSUME NEW c \in Sturdy, c \in notified'
             PROVE  there'[c] = "kept" /\ joins'[c] >= target'[c]
  BY Zenon DEF NoticeBacked
<1> DEFINE Backed == there'[c] = "kept" /\ joins'[c] >= target'[c]
<1>0. ChannelTypeOK /\ dropping \subseteq Troubled /\ c \in Channels /\ c \notin Troubled
  BY TypeSplit, SturdyChannel DEF EnvTypeOK
<1>1. c \in notified => there[c] = "kept" /\ joins[c] >= target[c]
  BY Zenon DEF NoticeBacked
<1>2. joins[c] \in Nat /\ target[c] \in Nat
  BY <1>0, ChannelAssumption DEF ChannelTypeOK
<1>3. UNCHANGED <<there, joins, target, notified>> => Backed
  BY <1>1, Zenon
<1>4. ASSUME NEW d \in Channels, NEW u \in Users, CreditNewJoin(d, u) PROVE Backed
  <2>1. there[d] = "kept" /\ there' = there /\ target' = target
        /\ joins' = [joins EXCEPT ![d] = @ + 1]
    BY <1>4, Zenon DEF CreditNewJoin
  <2>2. notified' = notified \/ (notified' = notified \cup {d} /\ Completes(d))
    BY <1>4, Zenon DEF CreditNewJoin
  <2>3. CASE c = d
    <3>1. joins'[c] = joins[c] + 1
      BY <1>0, <2>1, <2>3 DEF ChannelTypeOK
    <3>2. CASE Completes(d)
      BY <2>1, <2>3, <3>1, <3>2 DEF Completes
    <3>3. CASE c \in notified
      BY <1>1, <1>2, <2>1, <2>3, <3>1, <3>3
    <3> QED
      BY <2>2, <3>2, <3>3
  <2>4. CASE c # d
    <3>1. c \in notified /\ joins'[c] = joins[c]
      BY <1>0, <2>1, <2>2, <2>4 DEF ChannelTypeOK
    <3> QED
      BY <1>1, <2>1, <3>1, Zenon
  <2> QED
    BY <2>3, <2>4
<1>5. ASSUME NEW h \in Handlers, HandlerStep(h) PROVE Backed
  <2>1. UNCHANGED channelRows \/ Settle(h)
    BY <1>5, Zenon DEF HandlerStep, Open, Snapshot, Check, Look, Pick, Assign,
       AssignChannel, ReadState, Verdict, Issue
  <2>2. Settle(h) => \/ UNCHANGED channelRows
                     \/ CreditNewJoin(g[h].cur, User(h))
    BY Zenon DEF Settle, MarkCounted
  <2>3. g[h].cur \in Channels /\ User(h) \in Users
    BY TypeSplit DEF Local, User
  <2> QED
    BY <1>3, <1>4, <2>1, <2>2, <2>3, Zenon
<1>6. ASSUME NEW d \in Channels, NEW n \in Targets, FinishAddChannel(d, n) PROVE Backed
  <2>1. there' = [there EXCEPT ![d] = "kept"] /\ joins' = joins /\ notified' = notified
        /\ target' = [target EXCEPT ![d] = n] /\ (there[d] = "kept" => d \in Troubled)
    BY <1>6, Zenon DEF FinishAddChannel, AddChannel
  <2>2. c # d
    BY <1>0, <1>1, <2>1
  <2> QED
    BY <1>0, <1>1, <2>1, <2>2 DEF ChannelTypeOK
<1>7. ASSUME NEW d \in Channels, NEW n \in Targets, ChangeQuota(d, n) PROVE Backed
  <2>1. there' = there /\ joins' = joins /\ notified' = Rearmed(d, n)
        /\ target' = [target EXCEPT ![d] = n]
    BY <1>7, Zenon DEF ChangeQuota, SetChannelQuota
  <2>2. c \in notified /\ (c = d => ~(joins[c] < n))
    BY <2>1, Zenon DEF Rearmed
  <2>3. n \in Nat
    BY ChannelAssumption
  <2> QED
    BY <1>0, <1>1, <1>2, <2>1, <2>2, <2>3 DEF ChannelTypeOK
<1>8. ASSUME NEW d \in Channels, EndDelete(d) PROVE Backed
  <2>1. d # c
    BY <1>0, <1>8, Zenon DEF EndDelete
  <2>2. UNCHANGED channelRows \/ DeleteRow(d)
    BY <1>8, Zenon DEF EndDelete
  <2>3. CASE DeleteRow(d)
    BY <1>0, <1>1, <2>1, <2>3 DEF DeleteRow, ChannelTypeOK
  <2> QED
    BY <1>3, <2>2, <2>3
<1>9. ASSUME NEW d \in Channels, ToggleChannel(d) \/ BeginDelete(d) PROVE Backed
  BY <1>3, <1>9, Zenon DEF ToggleChannel, SetChannelEnabled, BeginDelete, DeletePairs
<1>10. ASSUME NEW d \in Channels, NEW v \in Users, Join(d, v) \/ Leave(d, v) PROVE Backed
  BY <1>3, <1>10, Zenon DEF Join, Leave
<1>11. NewDay \/ Crash \/ UNCHANGED vars => Backed
  BY <1>3, Zenon DEF NewDay, Crash
<1> QED
  BY <1>5, <1>6, <1>7, <1>8, <1>9, <1>10, <1>11, Zenon DEF Next, Menu

AlwaysPart == FlagsHaveRow /\ LoyalKnown /\ SightKept /\ NoticeBacked

LEMMA AlwaysInit == Init => AlwaysPart
<1> SUFFICES ASSUME Init PROVE AlwaysPart
  OBVIOUS
<1>1. FlagsHaveRow /\ LoyalKnown /\ NoticeBacked
  BY DEF Init, ChannelInit, FlagsHaveRow, LoyalKnown, NoticeBacked
<1>2. \A h \in Handlers : g[h].at = "idle"
  BY DEF Init, Idle
<1>3. SightKept
  BY <1>2 DEF SightKept, At
<1> QED
  BY <1>1, <1>3 DEF AlwaysPart

LEMMA AlwaysStep == TypeOK /\ AlwaysPart /\ [Next]_vars => AlwaysPart'
BY FlagsStep, LoyalStep, SightStep, NoticeStep DEF AlwaysPart

LEMMA AlwaysHolds == Spec => []AlwaysPart
BY GateTypeCorrect, AlwaysInit, AlwaysStep, PTL DEF Spec

\* NewJoinsOnly: a member who was in a channel before the bot showed it to him, and
\* stayed, is not billed as a new join, however many of his taps are handled at once.
THEOREM GateBillsNewOnly == Spec => []NewJoinsOnly
<1>1. AlwaysPart => NewJoinsOnly
  <2> SUFFICES ASSUME AlwaysPart, NEW c \in Sturdy, NEW u \in Users, <<c, u>> \in loyal
               PROVE  <<c, u>> \notin counted \ was
    BY Zenon DEF NewJoinsOnly
  <2>1. Row(c, u) => <<c, u>> \in was
    BY Zenon DEF AlwaysPart, LoyalKnown
  <2>2. ~Row(c, u) => <<c, u>> \notin counted
    BY Zenon DEF AlwaysPart, FlagsHaveRow
  <2> QED
    BY <2>1, <2>2
<1> QED
  BY <1>1, AlwaysHolds, PTL

\* NoticeMatchesOrder: the completion alert of an order is out only while the order
\* is complete, whatever targets it is given and however taps overlap.
THEOREM GateNoticeMatches == Spec => []NoticeMatchesOrder
<1>1. AlwaysPart => NoticeMatchesOrder
  BY Zenon DEF AlwaysPart, NoticeBacked, NoticeMatchesOrder
<1> QED
  BY <1>1, AlwaysHolds, PTL

(***************************************************************************)
(* One tap of a user at a time.                                            *)
(***************************************************************************)

LEMMA StepKeepsUser ==
    ASSUME TypeOK, NEW h \in Handlers, HandlerStep(h)
    PROVE  \/ \E u \in Users : Open(h, u)
           \/ ~At(h, "idle") /\ g'[h].at = "idle"
           \/ ~At(h, "idle") /\ g'[h].user = g[h].user /\ g'[h].date = g[h].date
<1>1. CASE \E c \in Channels : Snapshot(h, c) \/ Check(h, c)
  BY <1>1, SnapshotLocals, CheckLocals DEF Snapshot, Check, At
<1>2. CASE Look(h)
  BY <1>2, LookLocals DEF Look, At
<1>3. CASE Pick(h)
  BY <1>3, PickLocals DEF Pick, At
<1>4. CASE Assign(h)
  BY <1>4, AssignLocals DEF Assign, At
<1>5. CASE ReadState(h)
  <2>1. NextAct(<<g[h].cur, User(h)>>) \in Places
    BY DEF NextAct, Places
  <2> QED
    BY <1>5, <2>1, PlaceLocals DEF ReadState, At
<1>6. CASE Settle(h) \/ Verdict(h) \/ Issue(h)
  <2>1. {"check", "issue"} \subseteq Places
    BY DEF Places
  <2> QED
    BY <1>6, <2>1, PlaceLocals, ReturnLocals DEF Settle, Verdict, Issue, At
<1> QED
  BY <1>1, <1>2, <1>3, <1>4, <1>5, <1>6, Zenon DEF HandlerStep

\* What a step of one of two live handlers says about a user they share.
LEMMA StepOfOneTap ==
    ASSUME TypeOK, ~Overlap, OneTap, NEW h \in Handlers, NEW k \in Handlers,
           HandlerStep(h), g'[h].at # "idle", g'[k].at # "idle", g'[h].user = g'[k].user
    PROVE  h = k
<1> SUFFICES ASSUME h # k PROVE FALSE
  OBVIOUS
<1>1. g'[k] = g[k]
  BY HandlerMoves, Zenon DEF Moves
<1>2. ~At(k, "idle") /\ User(k) = g'[k].user
  BY <1>1, Zenon DEF At, User
<1>3. ASSUME NEW u \in Users, Open(h, u) PROVE FALSE
  <2>1. g'[h].user = u /\ LiveOf(u) = {}
    BY <1>3, OpenLocals DEF Open
  <2> QED
    BY <1>2, <2>1, Zenon DEF LiveOf
<1>4. CASE ~At(h, "idle") /\ g'[h].user = g[h].user
  BY <1>2, <1>4, Zenon DEF OneTap, User
<1> QED
  BY <1>3, <1>4, StepKeepsUser, Zenon

LEMMA OneTapStep ==
    ASSUME TypeOK, [Next]_vars, ~Overlap, OneTap
    PROVE  OneTap'
<1> SUFFICES ASSUME NEW h \in Handlers, NEW k \in Handlers, g'[h].at # "idle",
                    g'[k].at # "idle", g'[h].user = g'[k].user
             PROVE  h = k
  BY Zenon DEF OneTap, At, User
<1>1. CASE HandlerStep(h)
  BY <1>1, StepOfOneTap
<1>2. CASE HandlerStep(k)
  BY <1>2, StepOfOneTap
<1>3. CASE g'[h] = g[h] /\ g'[k] = g[k]
  BY <1>3, Zenon DEF OneTap, At, User
<1> QED
  BY <1>1, <1>2, <1>3, LocalsEffect, Zenon

LEMMA ShownKeptStep ==
    ASSUME TypeOK, [Next]_vars, ShownKept, TapInv
    PROVE  ShownKept'
<1> SUFFICES ASSUME NEW c \in Sturdy, NEW u \in Users, shown'[<<c, u>>] # NoRow
             PROVE  there'[c] = "kept"
  BY Zenon DEF ShownKept, Row
<1>1. there[c] = "kept"  => there'[c] = "kept"
  BY RowEffect, Zenon DEF SameRow, Appears, Credits
<1>2. CASE SamePair(<<c, u>>)
  BY <1>1, <1>2, Zenon DEF SamePair, ShownKept, Row
<1>3. ASSUME NEW h \in Handlers, Shows(h, c, u) PROVE there[c] = "kept"
  <2>1. At(h, "assign") /\ c = g[h].cur
    BY <1>3, Zenon DEF Shows, Assign
  <2>2. TapKnows(h, c)
    BY Zenon DEF TapInv
  <2> QED
    BY <2>1, <2>2 DEF TapKnows, At, Choosing, Judging, Settling
<1>4. ASSUME NEW h \in Handlers, Counts(h, c, u) PROVE there[c] = "kept"
  BY <1>4, Zenon DEF Counts, ShownKept, Row
<1> QED
  BY <1>1, <1>2, <1>3, <1>4, PairEffect, Zenon

(***************************************************************************)
(* What a handler knows survives the steps of others.                      *)
(***************************************************************************)

\* A channel becomes a requirement of nobody by appearing: nobody was shown it.
LEMMA RequirementFrame ==
    ASSUME TypeOK, [Next]_vars, ShownKept, NEW h \in Handlers, NEW c \in Sturdy,
           shown[<<c, User(h)>>] = g[h].date, Enabled(c)'
    PROVE  Enabled(c)
<1>1. g[h].date # NoRow /\ User(h) \in Users
  BY TypeSplit DEF Local, Days, NoRow, User
<1>2. there[c] = "kept"
  BY <1>1, Zenon DEF ShownKept, Row
<1>3. there'[c] = "kept" /\ c \in on'
  BY Zenon DEF Enabled
<1> QED
  BY <1>2, <1>3, RowEffect, Zenon DEF SameRow, Appears, Credits, Enabled

LEMMA TapFrame ==
    ASSUME TypeOK, [Next]_vars, OneTap, ShownKept, NEW h \in Handlers, NEW c \in Sturdy,
           TapKnows(h, c), g'[h] = g[h]
    PROVE  TapKnows(h, c)'
<1> DEFINE x == <<c, User(h)>>
<1>1. User(h) \in Users /\ User(h)' = User(h)
  BY TypeSplit DEF Local, User
<1>2. CASE At(h, "idle")
  BY <1>2 DEF TapKnows, At, Choosing, Judging, Settling
<1>3. CASE ~At(h, "idle")
  <2>1. SamePair(x)
    <3>1. ASSUME NEW k \in Handlers, Shows(k, c, User(h)) PROVE FALSE
      <4>1. ~At(k, "idle") /\ User(k) = User(h)
        BY <3>1 DEF Shows, Assign, At
      <4>2. k = h /\ Assign(h)
        BY <1>3, <3>1, <4>1, Zenon DEF OneTap, Shows
      <4> QED
        BY <4>2, AssignLocals DEF Assign, At
    <3>2. ASSUME NEW k \in Handlers, Counts(k, c, User(h)) PROVE FALSE
      <4>1. ~At(k, "idle") /\ User(k) = User(h)
        BY <3>2 DEF Counts, Settle, At
      <4>2. k = h /\ Settle(h)
        BY <1>3, <3>2, <4>1, Zenon DEF OneTap, Counts
      <4>3. "check" \in Places
        BY DEF Places
      <4> QED
        BY <4>2, <4>3, PlaceLocals DEF Settle, At
    <3> QED
      BY <1>1, <3>1, <3>2, PairEffect, Zenon
  <2>2. there[c] = "kept" => there'[c] = "kept"
    BY RowEffect, Zenon DEF SameRow, Appears, Credits
  <2>3. Requirement(h, c)' => Requirement(h, c)
    BY <1>1, <2>1, RequirementFrame, Zenon DEF Requirement, SamePair
  <2> HIDE DEF x
  <2>4. x' = x
    BY <1>1 DEF x
  <2> QED
    BY <2>1, <2>2, <2>3, <2>4 DEF TapKnows, SamePair, At, Choosing, Judging, Settling, x
<1> QED
  BY <1>2, <1>3

(***************************************************************************)
(* What a handler knows after a step of its own.                           *)
(***************************************************************************)

LEMMA TapKnowsAtRest ==
    ASSUME NEW h \in Handlers, NEW c \in Sturdy, g'[h].at \in {"idle", "look"}
    PROVE  TapKnows(h, c)'
BY DEF TapKnows, At, Choosing, Judging, Settling

LEMMA TapLook ==
    ASSUME TypeOK, NEW h \in Handlers, NEW c \in Sturdy, Look(h)
    PROVE  TapKnows(h, c)'
<1>1. UNCHANGED <<channelRows, pairRows>>
  BY Zenon DEF Look
<1>2. c \in TodaysChannels(User(h), g[h].date) <=> Requirement(h, c)
  BY SturdyChannel, Zenon DEF TodaysChannels, Requirement
<1>3. Requirement(h, c)' <=> Requirement(h, c)
  BY <1>1, LookLocals DEF Requirement, Enabled, User
<1>4. Requirement(h, c) => there[c] = "kept" /\ shown[<<c, User(h)>>] = g[h].date
  BY Zenon DEF Requirement, Enabled
<1> QED
  BY <1>1, <1>2, <1>3, <1>4, LookLocals
  DEF TapKnows, At, User, Choosing, Judging, Settling

LEMMA TapPick ==
    ASSUME TypeOK, NEW h \in Handlers, NEW c \in Sturdy, Pick(h), TapKnows(h, c)
    PROVE  TapKnows(h, c)'
<1>1. UNCHANGED <<channelRows, pairRows>> /\ At(h, "pick")
  BY Zenon DEF Pick
<1>2. Requirement(h, c)' <=> Requirement(h, c)
  BY <1>1, PickLocals DEF Requirement, Enabled, User
<1>3. ~Requirement(h, c)
  BY <1>1, Zenon DEF TapKnows
<1>4. g'[h].at = "check" => g'[h].chs = {}
  <2>1. PICK Q \in Draws(OpenOrders(User(h))) :
          g' = [g EXCEPT ![h].chs = Permanent \cup Q, ![h].todo = Permanent \cup Q,
                         ![h].at = IF Permanent \cup Q = {} THEN "check" ELSE "snapshot"]
    BY DEF Pick
  <2> DEFINE S == Permanent \cup Q
             place == IF S = {} THEN "check" ELSE "snapshot"
  <2>2. g' = [g EXCEPT ![h].chs = S, ![h].todo = S, ![h].at = place]
    BY <2>1
  <2>3. place = "check" => S = {}
    OBVIOUS
  <2>4. g \in [Handlers -> Local] /\ g[h] \in Local
    BY TypeSplit
  <2> HIDE DEF S, place
  <2>5. g'[h].at = place /\ g'[h].chs = S
    BY <2>2, <2>4 DEF Local
  <2> QED
    BY <2>3, <2>5
<1> QED
  BY <1>1, <1>2, <1>3, <1>4, PickLocals
  DEF TapKnows, At, User, Choosing, Judging, Settling

LEMMA TapSnapshot ==
    ASSUME TypeOK, NEW h \in Handlers, NEW c \in Sturdy, NEW d \in Channels, Snapshot(h, d),
           TapKnows(h, c), TodoChosen
    PROVE  TapKnows(h, c)'
<1>1. UNCHANGED <<channelRows, pairRows>> /\ At(h, "snapshot")
  BY Zenon DEF Snapshot
<1>2. Requirement(h, c)' <=> Requirement(h, c)
  BY <1>1, SnapshotLocals DEF Requirement, Enabled, User
<1>3. g[h].todo \subseteq g[h].chs
  BY <1>1 DEF TodoChosen, At, Choosing
<1> QED
  BY <1>1, <1>2, <1>3, SnapshotLocals
  DEF TapKnows, At, User, Choosing, Judging, Settling

LEMMA TapAssign ==
    ASSUME TypeOK, NEW h \in Handlers, NEW c \in Sturdy, Assign(h), TapKnows(h, c)
    PROVE  TapKnows(h, c)'
<1>1. UNCHANGED channelRows /\ At(h, "assign")
  BY Zenon DEF Assign, AssignChannel
<1>2. User(h) \in Users /\ User(h)' = User(h)
  BY TypeSplit, AssignLocals DEF Local, User
<1>3. c = g[h].cur => shown'[<<c, User(h)>>] = g[h].date
  BY <1>2, AssignPair, Zenon DEF Shows
<1>4. c # g[h].cur => shown'[<<c, User(h)>>] = shown[<<c, User(h)>>]
  BY <1>2, AssignPair, Zenon DEF SamePair
<1>5. Requirement(h, c)' => c = g[h].cur \/ Requirement(h, c)
  BY <1>1, <1>2, <1>4, AssignLocals DEF Requirement, Enabled
<1>6. c = g[h].cur => c \in g[h].chs
  BY <1>1 DEF TapKnows, At
<1>7. Requirement(h, c) => c \in g[h].chs
  BY <1>1 DEF TapKnows, At, Choosing
<1>8. c \in g[h].chs \ g[h].todo => shown[<<c, User(h)>>] = g[h].date
  BY <1>1 DEF TapKnows, At, Choosing
<1>9. c \in g[h].chs => there[c] = "kept"
  BY <1>1 DEF TapKnows, At, Choosing
<1> QED
  BY <1>1, <1>2, <1>3, <1>4, <1>5, <1>6, <1>7, <1>8, <1>9, AssignLocals
  DEF TapKnows, At, Choosing, Judging, Settling

LEMMA TapCheck ==
    ASSUME TypeOK, NEW h \in Handlers, NEW c \in Sturdy, NEW d \in Channels, Check(h, d),
           TapKnows(h, c), TodoChosen
    PROVE  TapKnows(h, c)'
<1>1. UNCHANGED <<channelRows, pairRows>> /\ At(h, "check")
  BY Zenon DEF Check
<1>2. Requirement(h, c)' <=> Requirement(h, c)
  BY <1>1, CheckLocals DEF Requirement, Enabled, User
<1>3. g[h].todo \subseteq g[h].chs
  BY <1>1 DEF TodoChosen, At, Judging
<1> QED
  BY <1>1, <1>2, <1>3, CheckLocals
  DEF TapKnows, At, User, Choosing, Judging, Settling

LEMMA TapReadState ==
    ASSUME TypeOK, NEW h \in Handlers, NEW c \in Sturdy, ReadState(h), TapKnows(h, c)
    PROVE  TapKnows(h, c)'
<1> DEFINE place == NextAct(<<g[h].cur, User(h)>>)
           x == <<c, User(h)>>
<1>1. UNCHANGED <<channelRows, pairRows>> /\ At(h, "state")
  BY Zenon DEF ReadState
<1>2. place \in {"check", "mark", "credit"} /\ place \in Places
  BY DEF NextAct, Places
<1>3. g' = [g EXCEPT ![h].at = place]
  BY Zenon DEF ReadState
<1>4. c = g[h].cur => /\ place = "check" => x \in counted
                      /\ place = "mark" => x \in was
                      /\ place = "credit" => x \notin was \cup counted
  BY DEF NextAct
<1> HIDE DEF place
<1>5. g'[h].user = g[h].user /\ g'[h].date = g[h].date /\ g'[h].chs = g[h].chs
      /\ g'[h].todo = g[h].todo /\ g'[h].cur = g[h].cur
      /\ g'[h].missing = g[h].missing /\ g'[h].at = place
  BY <1>2, <1>3, PlaceLocals
<1>6. Requirement(h, c)' <=> Requirement(h, c)
  BY <1>1, <1>5 DEF Requirement, Enabled, User
<1> QED
  BY <1>1, <1>2, <1>4, <1>5, <1>6 DEF TapKnows, At, User, Choosing, Judging, Settling

LEMMA TapSettle ==
    ASSUME TypeOK, NEW h \in Handlers, NEW c \in Sturdy, Settle(h), TapKnows(h, c)
    PROVE  TapKnows(h, c)'
<1> DEFINE x == <<c, User(h)>>
<1>1. UNCHANGED <<there, on, shown>> /\ (At(h, "credit") \/ At(h, "mark"))
  BY Zenon DEF Settle, CreditNewJoin, MarkCounted
<1>2. "check" \in Places /\ g' = [g EXCEPT ![h].at = "check"]
  BY DEF Settle, Places
<1>3. g'[h].user = g[h].user /\ g'[h].date = g[h].date /\ g'[h].chs = g[h].chs
      /\ g'[h].todo = g[h].todo /\ g'[h].missing = g[h].missing /\ g'[h].at = "check"
  BY <1>2, PlaceLocals
<1>4. User(h) \in Users /\ g[h].date # NoRow
  BY TypeSplit DEF Local, User, Days, NoRow
<1>5. Requirement(h, c)' <=> Requirement(h, c)
  BY <1>1, <1>3 DEF Requirement, Enabled, User
<1>6. c # g[h].cur => (x \in counted => x \in counted')
  BY <1>4, SettlePair, Zenon DEF SamePair
<1>7. c = g[h].cur => (shown[x] # NoRow => x \in counted')
  BY <1>4, SettlePair, Zenon DEF Counts
<1>8. Requirement(h, c) => shown[x] # NoRow
  BY <1>4, Zenon DEF Requirement
<1> QED
  BY <1>1, <1>3, <1>5, <1>6, <1>7, <1>8 DEF TapKnows, At, User, Choosing, Judging, Settling

LEMMA TapVerdict ==
    ASSUME TypeOK, NEW h \in Handlers, NEW c \in Sturdy, Verdict(h), TapKnows(h, c)
    PROVE  TapKnows(h, c)'
<1>1. UNCHANGED <<channelRows, pairRows>> /\ At(h, "check")
  BY Zenon DEF Verdict
<1>2. CASE Return(h)
  BY <1>2, ReturnLocals, TapKnowsAtRest
<1>3. CASE g' = [g EXCEPT ![h].at = "issue"]
  <2>1. "issue" \in Places
    BY DEF Places
  <2>2. g'[h].user = g[h].user /\ g'[h].date = g[h].date /\ g'[h].chs = g[h].chs
        /\ g'[h].todo = g[h].todo /\ g'[h].missing = g[h].missing /\ g'[h].at = "issue"
    BY <1>3, <2>1, PlaceLocals
  <2>3. Requirement(h, c)' <=> Requirement(h, c)
    BY <1>1, <2>2 DEF Requirement, Enabled, User
  <2> QED
    BY <1>1, <2>2, <2>3 DEF TapKnows, At, User, Choosing, Judging, Settling
<1> QED
  BY <1>2, <1>3, Zenon DEF Verdict

LEMMA TapOwn ==
    ASSUME TypeOK, NEW h \in Handlers, NEW c \in Sturdy, HandlerStep(h), TapKnows(h, c),
           TodoChosen
    PROVE  TapKnows(h, c)'
<1>1. ASSUME NEW u \in Users, Open(h, u) PROVE TapKnows(h, c)'
  BY <1>1, OpenLocals, TapKnowsAtRest
<1>2. CASE Issue(h)
  BY <1>2, ReturnLocals, TapKnowsAtRest DEF Issue
<1> QED
  BY <1>1, <1>2, TapLook, TapPick, TapSnapshot, TapAssign, TapCheck, TapReadState,
     TapSettle, TapVerdict, Zenon DEF HandlerStep

LEMMA TapStep ==
    ASSUME TypeOK, [Next]_vars, OneTap, ShownKept, TodoChosen, TapInv
    PROVE  TapInv'
<1> SUFFICES ASSUME NEW h \in Handlers, NEW c \in Sturdy PROVE TapKnows(h, c)'
  BY Zenon DEF TapInv
<1>1. TapKnows(h, c)
  BY Zenon DEF TapInv
<1> QED
  BY <1>1, LocalsEffect, TapFrame, TapOwn, TapKnowsAtRest

LEMMA TodoStep ==
    ASSUME TypeOK, [Next]_vars, TodoChosen
    PROVE  TodoChosen'
<1> USE DEF Choosing, Judging, Settling
<1> SUFFICES ASSUME NEW h \in Handlers, g'[h].at \in Choosing \cup Judging
             PROVE  g'[h].todo \subseteq g'[h].chs
  BY Zenon DEF TodoChosen
<1>1. CASE g'[h] = g[h]
  BY <1>1, Zenon DEF TodoChosen
<1>2. CASE HandlerStep(h)
  <2>1. CASE \E c \in Channels : Snapshot(h, c) \/ Check(h, c)
    <3>1. ASSUME NEW c \in Channels, Snapshot(h, c) PROVE g'[h].todo \subseteq g'[h].chs
      <4>1. At(h, "snapshot") /\ g'[h].chs = g[h].chs /\ g'[h].todo = g[h].todo
        BY <3>1, SnapshotLocals, Zenon DEF Snapshot
      <4> QED
        BY <4>1 DEF TodoChosen, At
    <3>2. ASSUME NEW c \in Channels, Check(h, c) PROVE g'[h].todo \subseteq g'[h].chs
      <4>1. At(h, "check") /\ g'[h].chs = g[h].chs /\ g'[h].todo = g[h].todo \ {c}
        BY <3>2, CheckLocals, Zenon DEF Check
      <4> QED
        BY <4>1 DEF TodoChosen, At
    <3> QED
      BY <2>1, <3>1, <3>2
  <2>2. CASE Look(h)
    BY <2>2, LookLocals
  <2>3. CASE Pick(h)
    BY <2>3, PickLocals
  <2>4. CASE Assign(h)
    BY <2>4, AssignLocals, ZenonT(40) DEF Assign, TodoChosen, At
  <2>5. CASE ReadState(h)
    <3>1. NextAct(<<g[h].cur, User(h)>>) \in Places
      BY DEF NextAct, Places
    <3> QED
      BY <2>5, <3>1, PlaceLocals DEF ReadState, TodoChosen, At
  <2>6. CASE Settle(h) \/ Verdict(h)
    <3>1. {"check", "issue"} \subseteq Places
      BY DEF Places
    <3>2. ~At(h, "idle") /\ g[h].at \in Judging
      BY <2>6 DEF Settle, Verdict, At
    <3>3. CASE Return(h)
      BY <3>3, ReturnLocals
    <3>4. ASSUME NEW place \in Places, g' = [g EXCEPT ![h].at = place]
          PROVE  g'[h].todo \subseteq g'[h].chs
      <4>1. g'[h].chs = g[h].chs /\ g'[h].todo = g[h].todo
        BY <3>4, PlaceLocals
      <4> QED
        BY <3>2, <4>1, Zenon DEF TodoChosen, Choosing, Judging
    <3> QED
      BY <2>6, <3>1, <3>3, <3>4, Zenon DEF Settle, Verdict
  <2>7. CASE Issue(h)
    BY <2>7, ReturnLocals DEF Issue
  <2>8. ASSUME NEW u \in Users, Open(h, u) PROVE FALSE
    BY <2>8, OpenLocals
  <2> QED
    BY <1>2, <2>1, <2>2, <2>3, <2>4, <2>5, <2>6, <2>7, <2>8, Zenon DEF HandlerStep
<1> QED
  BY <1>1, <1>2, LocalsEffect

LEMMA NothingLeftStep ==
    ASSUME TypeOK, [Next]_vars, NothingLeft
    PROVE  NothingLeft'
<1> SUFFICES ASSUME NEW h \in Handlers, g'[h].at = "issue"
             PROVE  g'[h].todo = {} /\ g'[h].missing = {}
  BY Zenon DEF NothingLeft, At
<1>1. CASE g'[h] = g[h]
  BY <1>1, Zenon DEF NothingLeft, At
<1>2. CASE HandlerStep(h)
  <2>1. CASE Verdict(h)
    <3>1. g[h].todo = {} /\ (Return(h) \/ (AllJoined(h) /\ g' = [g EXCEPT ![h].at = "issue"]))
      BY <2>1, Zenon DEF Verdict
    <3>2. "issue" \in Places
      BY DEF Places
    <3> QED
      BY <3>1, <3>2, ReturnLocals, PlaceLocals DEF AllJoined
  <2>2. CASE ReadState(h)
    <3>1. NextAct(<<g[h].cur, User(h)>>) \in Places \ {"issue"}
      BY DEF NextAct, Places
    <3> QED
      BY <2>2, <3>1, PlaceLocals DEF ReadState
  <2>3. CASE Settle(h) \/ Issue(h)
    <3>1. "check" \in Places
      BY DEF Places
    <3> QED
      BY <2>3, <3>1, PlaceLocals, ReturnLocals DEF Settle, Issue
  <2>4. CASE Look(h) \/ Pick(h) \/ Assign(h)
    BY <2>4, LookLocals, PickLocals, AssignLocals
  <2>5. ASSUME NEW c \in Channels, Snapshot(h, c) \/ Check(h, c) PROVE FALSE
    BY <2>5, SnapshotLocals, CheckLocals
  <2>6. ASSUME NEW u \in Users, Open(h, u) PROVE FALSE
    BY <2>6, OpenLocals
  <2> QED
    BY <1>2, <2>1, <2>2, <2>3, <2>4, <2>5, <2>6, Zenon DEF HandlerStep
<1> QED
  BY <1>1, <1>2, LocalsEffect

(***************************************************************************)
(* The counter of an order and the users it counts.                        *)
(***************************************************************************)

Billed(c) == {u \in Users : <<c, u>> \in counted \ was}

LEMMA SettleCredits ==
    ASSUME TypeOK, NEW h \in Handlers, Settle(h), At(h, "credit"), NEW c \in Sturdy,
           c = g[h].cur
    PROVE  joins'[c] = joins[c] + 1 /\ joins[c] \in Nat
<1>1. joins \in [Channels -> Nat] /\ c \in Channels /\ c \notin Troubled
  BY TypeSplit, SturdyChannel DEF ChannelTypeOK
<1>2. CreditNewJoin(c, User(h))
  <2>1. ~At(h, "mark")
    BY DEF At
  <2> QED
    BY <1>1, <2>1, Zenon DEF Settle
<1>3. joins' = [joins EXCEPT ![c] = @ + 1]
  BY <1>2, Zenon DEF CreditNewJoin
<1> QED
  BY <1>1, <1>3

\* Without a credit nobody's count changes.
LEMMA BilledFrame ==
    ASSUME TypeOK, [Next]_vars, FlagsHaveRow, TapInv, NEW c \in Sturdy, joins'[c] = joins[c],
           NEW u \in Users
    PROVE  <<c, u>> \in counted' \ was' <=> <<c, u>> \in counted \ was
<1>1. CASE SamePair(<<c, u>>)
  BY <1>1, Zenon DEF SamePair
<1>2. ASSUME NEW h \in Handlers, Shows(h, c, u)
      PROVE  <<c, u>> \in counted' \ was' <=> <<c, u>> \in counted \ was
  <2>1. shown[<<c, u>>] = NoRow => <<c, u>> \notin counted
    BY Zenon DEF FlagsHaveRow, Row
  <2>2. <<c, u>> \in was' <=> <<c, u>> \in was \/ (g[h].saw /\ shown[<<c, u>>] = NoRow)
    BY <1>2, Zenon DEF Shows
  <2>3. <<c, u>> \in counted' <=> <<c, u>> \in counted
    BY <1>2, Zenon DEF Shows
  <2> QED
    BY <2>1, <2>2, <2>3, Zenon
<1>3. ASSUME NEW h \in Handlers, Counts(h, c, u)
      PROVE  <<c, u>> \in counted' \ was' <=> <<c, u>> \in counted \ was
  <2>1. Settle(h) /\ c = g[h].cur /\ u = User(h)
    BY <1>3, Zenon DEF Counts
  <2>2. ~At(h, "credit")
    BY <2>1, SettleCredits
  <2>3. At(h, "mark")
    BY <2>1, <2>2, Zenon DEF Settle
  <2>4. TapKnows(h, c)
    BY Zenon DEF TapInv
  <2>5. <<c, u>> \in was
    BY <2>1, <2>3, <2>4, Zenon DEF TapKnows
  <2> QED
    BY <1>3, <2>5, Zenon DEF Counts
<1> QED
  BY <1>1, <1>2, <1>3, PairEffect, Zenon

\* A credit adds the user of the handler, who was not counted yet.
LEMMA BilledCredit ==
    ASSUME TypeOK, TapInv, NEW h \in Handlers, NEW c \in Sturdy, Credits(h, c)
    PROVE  User(h) \notin Billed(c) /\ Billed(c)' = Billed(c) \cup {User(h)}
<1>1. Settle(h) /\ At(h, "credit") /\ c = g[h].cur
  BY Zenon DEF Credits
<1>2. User(h) \in Users /\ g[h].date # NoRow
  BY TypeSplit DEF Local, User, Days, NoRow
<1>3. TapKnows(h, c)
  BY Zenon DEF TapInv
<1>4. <<c, User(h)>> \notin was \cup counted /\ shown[<<c, User(h)>>] # NoRow
  BY <1>1, <1>2, <1>3 DEF TapKnows, At, Choosing, Judging, Settling
<1>5. <<c, User(h)>> \in counted' \ was'
  <2>1. Counts(h, c, User(h))
    BY <1>1, <1>2, SettlePair, Zenon
  <2> QED
    BY <1>4, <2>1, Zenon DEF Counts
<1>6. ASSUME NEW u \in Users, u # User(h)
      PROVE  <<c, u>> \in counted' \ was' <=> <<c, u>> \in counted \ was
  <2>1. SamePair(<<c, u>>)
    BY <1>1, <1>6, SettlePair, Zenon
  <2> QED
    BY <2>1, Zenon DEF SamePair
<1> QED
  BY <1>2, <1>4, <1>5, <1>6 DEF Billed

LEMMA CounterStep ==
    ASSUME TypeOK, [Next]_vars, FlagsHaveRow, TapInv, CounterMatchesRows
    PROVE  CounterMatchesRows'
<1> SUFFICES ASSUME NEW c \in Sturdy PROVE joins'[c] = Cardinality(Billed(c)')
  BY DEF CounterMatchesRows, Billed
<1>1. joins[c] = Cardinality(Billed(c))
  BY DEF CounterMatchesRows, Billed
<1>2. CASE joins'[c] = joins[c]
  <2>1. Billed(c)' = Billed(c)
    BY <1>2, BilledFrame DEF Billed
  <2> QED
    BY <1>1, <1>2, <2>1
<1>3. ASSUME NEW h \in Handlers, Credits(h, c) PROVE joins'[c] = Cardinality(Billed(c)')
  <2>1. User(h) \notin Billed(c) /\ Billed(c)' = Billed(c) \cup {User(h)}
    BY <1>3, BilledCredit
  <2>2. joins'[c] = joins[c] + 1
    BY <1>3, Zenon DEF Credits
  <2>3. IsFiniteSet(Billed(c))
    BY ChannelAssumption, FS_Subset DEF Billed
  <2> QED
    BY <1>1, <2>1, <2>2, <2>3, FS_AddElement
<1> QED
  BY <1>2, <1>3, RowEffect DEF SameRow, Appears

(***************************************************************************)
(* The theorems.                                                           *)
(***************************************************************************)

LEMMA SplitGateInv ==
    GateInv <=> /\ AlwaysPart
                /\ ~Overlap => /\ OneTap /\ ShownKept /\ TodoChosen /\ NothingLeft
                               /\ TapInv /\ CounterMatchesRows
BY DEF GateInv, AlwaysPart

LEMMA GateInit == Init => GateInv
<1> SUFFICES ASSUME Init PROVE GateInv
  OBVIOUS
<1>1. \A h \in Handlers : g[h].at = "idle"
  BY DEF Init, Idle
<1>2. OneTap /\ TodoChosen /\ NothingLeft /\ TapInv
  BY <1>1 DEF OneTap, TodoChosen, NothingLeft, TapInv, TapKnows, At, Choosing, Judging, Settling
<1>3. ShownKept
  BY DEF Init, ChannelInit, ShownKept, Row, Pairs, Sturdy
<1>4. CounterMatchesRows
  <2> SUFFICES ASSUME NEW c \in Sturdy
               PROVE  joins[c] = Cardinality({u \in Users : <<c, u>> \in counted \ was})
    BY DEF CounterMatchesRows
  <2>1. joins[c] = 0
    BY DEF Init, ChannelInit, Sturdy
  <2>2. {u \in Users : <<c, u>> \in counted \ was} = {}
    BY DEF Init, ChannelInit
  <2> QED
    BY <2>1, <2>2, FS_EmptySet
<1> QED
  BY <1>2, <1>3, <1>4, AlwaysInit, SplitGateInv

LEMMA GateStep == TypeOK /\ GateInv /\ [Next]_vars => GateInv'
<1> SUFFICES ASSUME TypeOK, GateInv, [Next]_vars PROVE GateInv'
  OBVIOUS
<1>1. AlwaysPart /\ AlwaysPart'
  BY AlwaysStep, SplitGateInv
<1>2. ASSUME ~Overlap
      PROVE  /\ OneTap' /\ ShownKept' /\ TodoChosen' /\ NothingLeft' /\ TapInv'
             /\ CounterMatchesRows'
  <2>1. OneTap /\ ShownKept /\ TodoChosen /\ NothingLeft /\ TapInv /\ CounterMatchesRows
    BY <1>2, SplitGateInv
  <2>2. FlagsHaveRow
    BY <1>1 DEF AlwaysPart
  <2> QED
    BY <1>2, <2>1, <2>2, OneTapStep, ShownKeptStep, TodoStep, NothingLeftStep, TapStep, CounterStep
<1> QED
  BY <1>1, <1>2 DEF GateInv, AlwaysPart

\* GateInv: the inductive invariant holds in every reachable state.
THEOREM GateInvariant == Spec => []GateInv
BY GateTypeCorrect, GateInit, GateStep, PTL DEF Spec

\* CounterMatchesRows: the counter an advertiser pays for is the number of users
\* counted who were no members before, as long as a user's taps do not overlap.
THEOREM GateCounterMatches == ASSUME ~Overlap PROVE Spec => []CounterMatchesRows
<1>1. GateInv => CounterMatchesRows
  BY SplitGateInv
<1> QED
  BY <1>1, GateInvariant, PTL

\* NoFreePass: a handler that issues a config has seen its user in, and counted him
\* for, every channel shown to him that day, as long as his taps do not overlap.
THEOREM GateNoFreePass == ASSUME ~Overlap PROVE Spec => []NoFreePass
<1>1. GateInv => NoFreePass
  <2> SUFFICES ASSUME GateInv, NEW h \in Handlers, At(h, "issue"), NEW c \in Sturdy,
                      shown[<<c, User(h)>>] = g[h].date, Enabled(c)
               PROVE  <<c, User(h)>> \in counted
    BY Zenon DEF NoFreePass
  <2>1. TapKnows(h, c) /\ g[h].todo = {} /\ g[h].missing = {}
    BY SplitGateInv DEF TapInv, NothingLeft
  <2>2. Requirement(h, c)
    BY DEF Requirement
  <2> QED
    BY <2>1, <2>2 DEF TapKnows, At, Choosing, Judging, Settling
<1> QED
  BY <1>1, GateInvariant, PTL

(***************************************************************************)
(* The gate implements the advertisers' ledger: how a step shows in it.    *)
(***************************************************************************)

AdvertStep == [Advert!AdvertNext]_(Advert!advert)

LEMMA SameStanding ==
    ASSUME \A c \in Sturdy, u \in Users : SamePair(<<c, u>>)
    PROVE  Standing' = Standing
<1>1. \A x \in Sturdy \X Users : SamePair(x)
  OBVIOUS
<1> QED
  BY <1>1 DEF Standing, Stand, SamePair

LEMMA OneStanding ==
    ASSUME NEW c \in Sturdy, NEW u \in Users, NEW k, Stand(<<c, u>>)' = k,
           \A d \in Sturdy, v \in Users : <<d, v>> # <<c, u>> => SamePair(<<d, v>>)
    PROVE  Standing' = [Standing EXCEPT ![<<c, u>>] = k]
<1>1. \A x \in Sturdy \X Users : x # <<c, u>> => SamePair(x)
  OBVIOUS
<1>2. \A x \in Sturdy \X Users : x # <<c, u>> => Stand(x)' = Stand(x)
  BY <1>1 DEF Stand, SamePair
<1> QED
  BY <1>2 DEF Standing

\* Nothing the advertiser can see.
LEMMA Unseen ==
    ASSUME Standing' = Standing, UNCHANGED loyal,
           \A c \in Sturdy : /\ joins'[c] = joins[c] /\ kind'[c] = kind[c]
                             /\ target'[c] = target[c]
                             /\ c \in notified' <=> c \in notified
    PROVE  AdvertStep
<1>1. Counters' = Counters /\ Sizing' = Sizing
  BY DEF Counters, Sizing
<1>2. (notified \cap Sturdy)' = notified \cap Sturdy
  OBVIOUS
<1> QED
  BY <1>1, <1>2 DEF AdvertStep, Advert!advert

LEMMA UnseenRows ==
    ASSUME UNCHANGED <<channelRows, pairRows, loyal>>
    PROVE  AdvertStep
<1>1. Standing' = Standing
  BY SameStanding DEF SamePair
<1> QED
  BY <1>1, Unseen

\* A step that touches the counters and orders of one sturdy channel, or of none.
LEMMA OtherChannels ==
    ASSUME TypeOK, NEW c \in Channels,
           joins' = joins \/ joins' = [joins EXCEPT ![c] = @ + 1],
           kind' = kind \/ \E k : kind' = [kind EXCEPT ![c] = k],
           target' = target \/ \E n : target' = [target EXCEPT ![c] = n],
           notified \ {c} \subseteq notified', notified' \subseteq notified \cup {c}
    PROVE  \A d \in Sturdy \ {c} : /\ joins'[d] = joins[d] /\ kind'[d] = kind[d]
                                   /\ target'[d] = target[d]
                                   /\ d \in notified' <=> d \in notified
<1>1. ChannelTypeOK
  BY TypeSplit
<1> QED
  BY <1>1 DEF ChannelTypeOK, Sturdy

(***************************************************************************)
(* The handlers.                                                           *)
(***************************************************************************)

LEMMA AssignAdvert ==
    ASSUME TypeOK, GateInv, NEW h \in Handlers, Assign(h),
           NEW c \in Channels, NEW u \in Users, c = g[h].cur, u = User(h)
    PROVE  AdvertStep
<1> DEFINE k == IF g[h].saw THEN "old" ELSE "new"
<1>1. UNCHANGED <<channelRows, loyal>> /\ At(h, "assign")
  BY Zenon DEF Assign, AssignChannel
<1>2. g[h].date # NoRow /\ g[h].saw \in BOOLEAN
  BY TypeSplit DEF Local, Days, NoRow
<1>3. CASE c \notin Sturdy
  <2>1. \A d \in Sturdy, v \in Users : SamePair(<<d, v>>)
    BY <1>3, AssignPair
  <2> QED
    BY <1>1, <2>1, SameStanding, Unseen
<1>4. CASE c \in Sturdy
  <2>1. Shows(h, c, u)
    BY <1>2, <1>4, AssignPair
  <2>2. \A d \in Sturdy, v \in Users : <<d, v>> # <<c, u>> => SamePair(<<d, v>>)
    BY AssignPair
  <2>3. shown'[<<c, u>>] # NoRow
    BY <1>2, <2>1, Zenon DEF Shows
  <2>4. CASE shown[<<c, u>>] # NoRow
    <3>1. Stand(<<c, u>>)' = Stand(<<c, u>>)
      BY <2>1, <2>3, <2>4 DEF Shows, Stand
    <3>2. Standing' = [Standing EXCEPT ![<<c, u>>] = Stand(<<c, u>>)]
      BY <1>2, <1>4, <2>2, <3>1, OneStanding
    <3>3. Standing' = Standing
      BY <1>2, <1>4, <3>2 DEF Standing
    <3> QED
      BY <1>1, <3>3, Unseen
  <2>5. CASE shown[<<c, u>>] = NoRow
    <3>1. <<c, u>> \notin was \cup counted /\ (<<c, u>> \in loyal => g[h].saw)
      BY <1>1, <1>2, <1>4, <2>5, SplitGateInv DEF AlwaysPart, FlagsHaveRow, SightKept, Row
    <3>2. Stand(<<c, u>>)' = k
      BY <1>2, <2>1, <2>3, <2>5, <3>1 DEF Shows, Stand
    <3>3. Standing' = [Standing EXCEPT ![<<c, u>>] = k]
      BY <1>2, <1>4, <2>2, <3>2, OneStanding
    <3>4. Standing[<<c, u>>] = "unmet"
      BY <1>2, <1>4, <2>5 DEF Standing, Stand
    <3>5. Counters' = Counters /\ Sizing' = Sizing /\ UNCHANGED notified
      BY <1>1 DEF Counters, Sizing
    <3>6. Advert!Meet(<<c, u>>, k)
      BY <1>1, <3>1, <3>3, <3>4, <3>5 DEF Advert!Meet
    <3> QED
      BY <1>2, <1>4, <3>6 DEF AdvertStep, Advert!AdvertNext
  <2> QED
    BY <2>4, <2>5
<1> QED
  BY <1>3, <1>4

LEMMA CreditAdvert ==
    ASSUME TypeOK, GateInv, ~Overlap, NEW h \in Handlers, Settle(h), At(h, "credit"),
           NEW c \in Channels, NEW u \in Users, c = g[h].cur, u = User(h), CreditNewJoin(c, u)
    PROVE  AdvertStep
<1>1. /\ joins' = [joins EXCEPT ![c] = @ + 1] /\ UNCHANGED <<kind, target>>
      /\ notified' = IF Completes(c) THEN notified \cup {c} ELSE notified
  BY Zenon DEF CreditNewJoin
<1>2. UNCHANGED loyal
  BY Zenon DEF Settle
<1>3. g[h].date # NoRow /\ ChannelTypeOK
  BY TypeSplit DEF Local, Days, NoRow
<1>4. \A d \in Sturdy \ {c} : /\ joins'[d] = joins[d] /\ kind'[d] = kind[d]
                              /\ target'[d] = target[d]
                              /\ d \in notified' <=> d \in notified
  BY <1>1, <1>3, OtherChannels
<1>5. CASE c \notin Sturdy
  <2>1. \A d \in Sturdy, v \in Users : SamePair(<<d, v>>)
    BY <1>5, SettlePair
  <2> QED
    BY <1>2, <1>4, <1>5, <2>1, SameStanding, Unseen
<1>6. CASE c \in Sturdy
  <2>1. TapKnows(h, c)
    BY <1>6, SplitGateInv DEF TapInv
  <2>2. <<c, u>> \notin was \cup counted /\ shown[<<c, u>>] # NoRow
    BY <1>3, <2>1 DEF TapKnows, At, Choosing, Judging, Settling
  <2>3. Counts(h, c, u) /\ \A d \in Sturdy, v \in Users : <<d, v>> # <<c, u>> => SamePair(<<d, v>>)
    BY <1>3, <1>6, SettlePair
  <2>4. Stand(<<c, u>>)' = "billed" /\ Standing[<<c, u>>] = "new"
    BY <1>3, <1>6, <2>2, <2>3 DEF Counts, Stand, Standing
  <2>5. Standing' = [Standing EXCEPT ![<<c, u>>] = "billed"]
    BY <1>3, <1>6, <2>3, <2>4, OneStanding
  <2>6. Counters' = [Counters EXCEPT ![c] = @ + 1] /\ Sizing' = Sizing
    BY <1>1, <1>3, <1>6 DEF Counters, Sizing, ChannelTypeOK, Sturdy
  <2>7. Completes(c) <=> Sizing[c] > 0 /\ Counters[c] + 1 >= Sizing[c]
    BY <1>6 DEF Completes, Counters, Sizing
  <2>8. (notified \cap Sturdy)' = IF Sizing[c] > 0 /\ Counters[c] + 1 >= Sizing[c]
                                  THEN (notified \cap Sturdy) \cup {c} ELSE notified \cap Sturdy
    BY <1>1, <1>6, <2>7
  <2>9. Advert!Bill(c, u)
    BY <1>2, <2>4, <2>5, <2>6, <2>8 DEF Advert!Bill
  <2> QED
    BY <1>3, <1>6, <2>9 DEF AdvertStep, Advert!AdvertNext
<1> QED
  BY <1>5, <1>6

LEMMA MarkAdvert ==
    ASSUME TypeOK, GateInv, ~Overlap, NEW h \in Handlers, Settle(h), At(h, "mark"),
           UNCHANGED channelRows,
           NEW c \in Channels, NEW u \in Users, c = g[h].cur, u = User(h)
    PROVE  AdvertStep
<1>1. UNCHANGED loyal
  BY Zenon DEF Settle
<1>2. g[h].date # NoRow
  BY TypeSplit DEF Local, Days, NoRow
<1>3. CASE c \notin Sturdy
  <2>1. \A d \in Sturdy, v \in Users : SamePair(<<d, v>>)
    BY <1>3, SettlePair
  <2> QED
    BY <1>1, <2>1, SameStanding, Unseen
<1>4. CASE c \in Sturdy
  <2>1. TapKnows(h, c)
    BY <1>4, SplitGateInv DEF TapInv
  <2>2. <<c, u>> \in was /\ shown[<<c, u>>] # NoRow
    BY <1>2, <2>1 DEF TapKnows, At, Choosing, Judging, Settling
  <2>3. Counts(h, c, u) /\ \A d \in Sturdy, v \in Users : <<d, v>> # <<c, u>> => SamePair(<<d, v>>)
    BY <1>2, <1>4, SettlePair
  <2>4. Stand(<<c, u>>)' = "excused" /\ Standing[<<c, u>>] \in {"old", "excused"}
    BY <1>2, <1>4, <2>2, <2>3 DEF Counts, Stand, Standing
  <2>5. Standing' = [Standing EXCEPT ![<<c, u>>] = "excused"]
    BY <1>2, <1>4, <2>3, <2>4, OneStanding
  <2>6. CASE Standing[<<c, u>>] = "excused"
    <3>1. Standing' = Standing
      BY <1>2, <1>4, <2>5, <2>6 DEF Standing
    <3> QED
      BY <1>1, <3>1, Unseen
  <2>7. CASE Standing[<<c, u>>] = "old"
    <3>1. Counters' = Counters /\ Sizing' = Sizing /\ UNCHANGED notified
      BY DEF Counters, Sizing
    <3>2. Advert!Excuse(<<c, u>>)
      BY <1>1, <2>5, <2>7, <3>1 DEF Advert!Excuse
    <3> QED
      BY <1>2, <1>4, <3>2 DEF AdvertStep, Advert!AdvertNext
  <2> QED
    BY <2>4, <2>6, <2>7
<1> QED
  BY <1>3, <1>4

LEMMA HandlerAdvert ==
    ASSUME TypeOK, GateInv, ~Overlap, NEW h \in Handlers, HandlerStep(h)
    PROVE  AdvertStep
<1>1. UNCHANGED <<channelRows, pairRows, loyal>> \/ Assign(h) \/ Settle(h)
  BY Zenon DEF HandlerStep, Open, Snapshot, Check, Look, Pick, ReadState, Verdict, Issue
<1>2. Settle(h) => \/ UNCHANGED <<channelRows, pairRows, loyal>>
                   \/ At(h, "credit") /\ CreditNewJoin(g[h].cur, User(h))
                   \/ At(h, "mark") /\ UNCHANGED channelRows
  BY Zenon DEF Settle, MarkCounted
<1>3. g[h].cur \in Channels /\ User(h) \in Users
  BY TypeSplit DEF Local, User
<1> QED
  BY <1>1, <1>2, <1>3, UnseenRows, AssignAdvert, CreditAdvert, MarkAdvert

(***************************************************************************)
(* Telegram and the channel menu.                                          *)
(***************************************************************************)

LEMMA TelegramAdvert ==
    ASSUME NEW c \in Channels, NEW u \in Users, Join(c, u) \/ Leave(c, u)
    PROVE  AdvertStep
<1> DEFINE Fans == loyal \cap (Sturdy \X Users)
<1>1. UNCHANGED <<channelRows, pairRows>>
  BY Zenon DEF Join, Leave
<1>2. Standing' = Standing /\ Counters' = Counters /\ Sizing' = Sizing /\ UNCHANGED notified
  BY <1>1, SameStanding DEF SamePair, Counters, Sizing
<1>3. CASE Fans' = Fans
  BY <1>2, <1>3 DEF AdvertStep, Advert!advert
<1>4. CASE Fans' # Fans /\ Join(c, u)
  <2>1. loyal' = loyal \cup {<<c, u>>} /\ c \in Sturdy /\ shown[<<c, u>>] = NoRow
    BY <1>4 DEF Join
  <2>2. Advert!Come(<<c, u>>)
    BY <1>2, <2>1 DEF Advert!Come, Standing, Stand
  <2> QED
    BY <2>1, <2>2 DEF AdvertStep, Advert!AdvertNext
<1>5. CASE Fans' # Fans /\ Leave(c, u)
  <2>1. loyal' = loyal \ {<<c, u>>}
    BY <1>5 DEF Leave
  <2>2. c \in Sturdy
    BY <1>5, <2>1
  <2>3. Advert!Go(<<c, u>>)
    BY <1>2, <2>1 DEF Advert!Go
  <2> QED
    BY <2>2, <2>3 DEF AdvertStep, Advert!AdvertNext
<1> QED
  BY <1>3, <1>4, <1>5

\* A channel whose target the administrators change is an order.
ResizedOrders == \A c \in Resized : kind[c] = "quota"

LEMMA ResizedStep ==
    ASSUME TypeOK, ResizedOrders, [Next]_vars
    PROVE  ResizedOrders'
<1>1. kind \in [Channels -> {"quota", "permanent"}] /\ Resized \subseteq Channels
  BY TypeSplit, GateAssumption DEF ChannelTypeOK
<1>2. ASSUME NEW d \in Channels, NEW n \in Targets, FinishAddChannel(d, n) PROVE ResizedOrders'
  <2>1. /\ kind' = [kind EXCEPT ![d] = IF n = 0 THEN "permanent" ELSE "quota"]
        /\ d \in Resized => n > 0
    BY <1>2 DEF FinishAddChannel, AddChannel
  <2>2. n \in Nat
    BY ChannelAssumption
  <2> QED
    BY <1>1, <2>1, <2>2 DEF ResizedOrders
<1>3. ASSUME NEW d \in Channels, EndDelete(d) PROVE ResizedOrders'
  <2>1. kind' = kind \/ kind' = [kind EXCEPT ![d] = "quota"]
    BY <1>3, Zenon DEF EndDelete, DeleteRow
  <2> QED
    BY <1>1, <2>1 DEF ResizedOrders
<1>4. ASSUME NEW d \in Channels, ToggleChannel(d) \/ BeginDelete(d) \/ \E n \in Targets : ChangeQuota(d, n)
      PROVE  kind' = kind
  BY <1>4, Zenon DEF ToggleChannel, SetChannelEnabled, BeginDelete, DeletePairs, ChangeQuota, SetChannelQuota
<1>5. ASSUME NEW h \in Handlers, HandlerStep(h) PROVE kind' = kind
  BY <1>5, Zenon DEF HandlerStep, Open, Snapshot, Check, Look, Pick, Assign, AssignChannel, ReadState,
     Settle, CreditNewJoin, MarkCounted, Verdict, Issue
<1>6. ASSUME NEW d \in Channels, NEW v \in Users, Join(d, v) \/ Leave(d, v) PROVE kind' = kind
  BY <1>6, Zenon DEF Join, Leave
<1>7. NewDay \/ Crash \/ UNCHANGED vars => kind' = kind
  BY Zenon DEF NewDay, Crash
<1>8. kind' = kind => ResizedOrders'
  BY DEF ResizedOrders
<1> QED
  BY <1>2, <1>3, <1>4, <1>5, <1>6, <1>7, <1>8, Zenon DEF Next, Menu

LEMMA OrderAdvert ==
    ASSUME TypeOK, UNCHANGED <<pairRows, loyal, joins>>, NEW c \in Channels, NEW n \in Targets,
           kind' = kind \/ \E k : kind' = [kind EXCEPT ![c] = k],
           target' = [target EXCEPT ![c] = n],
           c \in Sturdy => (IF kind'[c] = "quota" THEN n ELSE 0) = n,
           c \in Sturdy => notified' = IF joins[c] < n THEN notified \ {c} ELSE notified,
           notified \ {c} \subseteq notified', notified' \subseteq notified \cup {c}
    PROVE  AdvertStep
<1>1. Standing' = Standing
  BY SameStanding DEF SamePair
<1>2. \A d \in Sturdy \ {c} : /\ joins'[d] = joins[d] /\ kind'[d] = kind[d]
                              /\ target'[d] = target[d]
                              /\ d \in notified' <=> d \in notified
  BY OtherChannels
<1>3. CASE c \notin Sturdy
  BY <1>1, <1>2, <1>3, Unseen
<1>4. CASE c \in Sturdy
  <2>1. target'[c] = n
    BY TypeSplit DEF ChannelTypeOK
  <2>2. Sizing' = [Sizing EXCEPT ![c] = n]
    BY <1>2, <1>4, <2>1 DEF Sizing
  <2>3. Counters' = Counters /\ Counters[c] = joins[c]
    BY <1>4 DEF Counters
  <2>4. (notified \cap Sturdy)' = IF Counters[c] < n THEN (notified \cap Sturdy) \ {c}
                                  ELSE notified \cap Sturdy
    BY <1>4, <2>3
  <2>5. Advert!Order(c, n)
    BY <1>1, <2>2, <2>3, <2>4 DEF Advert!Order
  <2> QED
    BY <1>4, <2>5 DEF AdvertStep, Advert!AdvertNext
<1> QED
  BY <1>3, <1>4

LEMMA MenuAdvert ==
    ASSUME TypeOK, GateInv, ResizedOrders, Menu
    PROVE  AdvertStep
<1>0. ChannelTypeOK /\ dropping \subseteq Troubled /\ \A d \in Sturdy : d \notin Troubled
  BY TypeSplit, SturdyChannel DEF EnvTypeOK
<1>1. ASSUME NEW c \in Channels, NEW n \in Targets, FinishAddChannel(c, n) PROVE AdvertStep
  <2>1. /\ UNCHANGED <<pairRows, loyal, joins, notified>> /\ target' = [target EXCEPT ![c] = n]
        /\ kind' = [kind EXCEPT ![c] = IF n = 0 THEN "permanent" ELSE "quota"]
        /\ there[c] = "kept" => c \in Troubled
    BY <1>1, Zenon DEF FinishAddChannel, AddChannel
  <2>2. c \in Sturdy => c \notin notified
    BY <1>0, <2>1, SplitGateInv DEF AlwaysPart, NoticeBacked
  <2>3. (IF kind'[c] = "quota" THEN n ELSE 0) = n
    BY <1>0, <2>1 DEF ChannelTypeOK
  <2> QED
    BY <2>1, <2>2, <2>3, OrderAdvert
<1>2. ASSUME NEW c \in Channels, NEW n \in Targets, ChangeQuota(c, n) PROVE AdvertStep
  <2>1. /\ UNCHANGED <<pairRows, loyal, joins, kind>> /\ target' = [target EXCEPT ![c] = n]
        /\ notified' = Rearmed(c, n) /\ c \in Resized
    BY <1>2, Zenon DEF ChangeQuota, SetChannelQuota
  <2>2. kind'[c] = "quota"
    BY <2>1 DEF ResizedOrders
  <2>3. notified' = IF joins[c] < n THEN notified \ {c} ELSE notified
    BY <2>1, Zenon DEF Rearmed
  <2> QED
    BY <2>1, <2>2, <2>3, OrderAdvert
<1>3. ASSUME NEW c \in Channels, ToggleChannel(c) PROVE AdvertStep
  <2>1. UNCHANGED <<pairRows, loyal, joins, kind, target, notified>>
    BY <1>3, Zenon DEF ToggleChannel, SetChannelEnabled
  <2>2. Standing' = Standing
    BY <2>1, SameStanding DEF SamePair
  <2> QED
    BY <2>1, <2>2, Unseen
<1>4. ASSUME NEW c \in Channels, BeginDelete(c) PROVE AdvertStep
  <2>1. UNCHANGED <<channelRows, loyal>> /\ c \notin Sturdy
    BY <1>0, <1>4 DEF BeginDelete, DeletePairs
  <2>2. shown' = [x \in Pairs |-> IF x[1] = c THEN NoRow ELSE shown[x]]
        /\ was' = {x \in was : x[1] # c} /\ counted' = {x \in counted : x[1] # c}
    BY <1>4 DEF BeginDelete, DeletePairs
  <2>3. ASSUME NEW d \in Sturdy, NEW u \in Users PROVE SamePair(<<d, u>>)
    <3>1. <<d, u>> \in Pairs /\ <<d, u>>[1] # c
      BY <2>1 DEF Pairs, Sturdy
    <3> QED
      BY <2>2, <3>1 DEF SamePair
  <2> QED
    BY <2>1, <2>3, SameStanding, Unseen
<1>5. ASSUME NEW c \in Channels, EndDelete(c) PROVE AdvertStep
  <2>1. c \notin Sturdy /\ UNCHANGED <<pairRows, loyal>> /\ (UNCHANGED channelRows \/ DeleteRow(c))
    BY <1>0, <1>5, Zenon DEF EndDelete, DeleteRow
  <2>2. Standing' = Standing
    BY <2>1, SameStanding DEF SamePair
  <2>3. CASE DeleteRow(c)
    <3>1. \A d \in Sturdy : /\ joins'[d] = joins[d] /\ kind'[d] = kind[d]
                            /\ target'[d] = target[d]
                            /\ d \in notified' <=> d \in notified
      BY <1>0, <2>1, <2>3 DEF DeleteRow, ChannelTypeOK, Sturdy
    <3> QED
      BY <2>1, <2>2, <3>1, Unseen
  <2> QED
    BY <2>1, <2>2, <2>3, Unseen
<1> QED
  BY <1>1, <1>2, <1>3, <1>4, <1>5, Zenon DEF Menu

LEMMA AdvertFirst == Init => Advert!AdvertInit /\ ResizedOrders
<1> SUFFICES ASSUME Init PROVE Advert!AdvertInit /\ ResizedOrders
  OBVIOUS
<1>1. /\ shown = [x \in Pairs |-> NoRow] /\ joins = [c \in Channels |-> 0]
      /\ target = [c \in Channels |-> 0] /\ kind = [c \in Channels |-> "quota"]
      /\ loyal = {} /\ notified = {}
  BY DEF Init, ChannelInit
<1>2. Standing = [x \in Sturdy \X Users |-> "unmet"]
  BY <1>1 DEF Standing, Stand, Pairs, Sturdy
<1>3. Counters = [c \in Sturdy |-> 0] /\ Sizing = [c \in Sturdy |-> 0]
  BY <1>1 DEF Counters, Sizing, Sturdy
<1> QED
  BY <1>1, <1>2, <1>3, GateAssumption DEF Advert!AdvertInit, ResizedOrders

LEMMA AdvertStepOf ==
    ASSUME TypeOK, GateInv, ResizedOrders, ~Overlap, [Next]_vars
    PROVE  AdvertStep
<1>1. NewDay \/ Crash \/ UNCHANGED vars => UNCHANGED <<channelRows, pairRows, loyal>>
  BY Zenon DEF NewDay, Crash
<1> QED
  BY <1>1, UnseenRows, HandlerAdvert, TelegramAdvert, MenuAdvert DEF Next

\* While the taps of a user do not overlap, every step of the handlers, of the menu,
\* of Telegram and of a crash is a step of the advertisers' ledger or none: a person
\* is met once and billed once at most, with counter and notice (channels.go:153).
THEOREM GateImplementsAdvert == ASSUME ~Overlap PROVE Spec => ImplementsAdvert
<1>1. Init => Advert!AdvertInit /\ ResizedOrders
  BY AdvertFirst
<1>2. TypeOK /\ ResizedOrders /\ [Next]_vars => ResizedOrders'
  BY ResizedStep
<1>3. TypeOK /\ GateInv /\ ResizedOrders /\ [Next]_vars => [Advert!AdvertNext]_(Advert!advert)
  BY AdvertStepOf DEF AdvertStep
<1> QED
  BY <1>1, <1>2, <1>3, GateTypeCorrect, GateInvariant, PTL DEF Spec, ImplementsAdvert, Advert!AdvertSpec
=============================================================================
