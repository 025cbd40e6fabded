---------------------------- MODULE VolumeDay_proofs ----------------------------
(***************************************************************************)
(* What a day of volume guarantees for any number of users, panels, days   *)
(* and grants, and any settings.                                           *)
(***************************************************************************)
EXTENDS VolumeInv, FiniteSetTheorems, WellFoundedInduction, TLAPS

USE DEF vars, userRows, inviteRows, watchVars, dayVars, rest

(***************************************************************************)
(* Types.                                                                  *)
(***************************************************************************)

TapPlaces == {"idle", "invite", "gate", "create", "referral", "mark", "credit"}
TapLocal == [at : TapPlaces, user : Users \cup {Nobody}, ref : Users \cup {Nobody},
             date : Days, mb : Nat, queue : Seq(Panels)]

\* A claim that creates has a panel to try; who has no update to handle has no user.
Sound(r) == /\ r.at = "create" => r.queue # <<>>
            /\ r.at = "idle" <=> r.user = Nobody

\* The locals of the updates, and what is left of the day.
TapTyped ==
    /\ tap \in [Taps -> TapLocal]
    /\ \A t \in Taps : Sound(tap[t])
DayTyped ==
    /\ lastClaim \in [Users -> Days \cup {-1}]
    /\ claims \in [Days -> SUBSET Users]
    /\ job \in {"none", "report", "reset", "clear"}
    /\ tday \in Days /\ scene \in Scenes

LEMMA TypeSplit == TypeOK <=> ReferralTypeOK /\ WatchTypeOK /\ TapTyped /\ DayTyped
BY DEF TypeOK, TapTyped, DayTyped, TapLocal, TapPlaces, Sound

LEMMA TypeSplitNext ==
    ASSUME ReferralTypeOK', WatchTypeOK', TapTyped', DayTyped'
    PROVE  TypeOK'
BY DEF TypeOK, TapTyped, DayTyped, TapLocal, TapPlaces, Sound

LEMMA ConstantTypes ==
    /\ BaseMB \in Nat /\ PerReferralMB \in Nat /\ MaxDailyMB \in Nat /\ LimitMB \in Nat
    /\ Grants \subseteq Nat /\ 0 \in Grants
    /\ 0 \in Days /\ Days \subseteq Nat /\ Nobody \notin Users
BY ReferralAssumption, WatchAssumption, DayAssumption DEF Days

LEMMA IdleType == Idle \in TapLocal /\ Idle.at = "idle" /\ Idle.user = Nobody /\ Sound(Idle)
BY ConstantTypes DEF Idle, TapLocal, TapPlaces, Sound

\* The allowance is a number, and the settings and grants bound it.
LEMMA CapType == ASSUME ReferralTypeOK, NEW u \in Users PROVE DailyCapMB(u) \in Nat
<1>1. credits[u] \in Nat /\ bonus[u] \in Nat /\ override[u] \in Nat
  BY ConstantTypes DEF ReferralTypeOK
<1>2. credits[u] * PerReferralMB \in Nat
  BY <1>1, ConstantTypes
<1> QED
  BY <1>1, <1>2, ConstantTypes DEF DailyCapMB

LEMMA QueueType ==
    ASSUME NEW mb, NEW q \in PanelsForVolume(mb)
    PROVE  /\ q \in Seq(Panels)
           /\ \A i \in DOMAIN q : HasRoom(q[i], mb)
<1>1. PICK S \in SUBSET {p \in Panels : HasRoom(p, mb)} : q \in [1 .. Cardinality(S) -> S] /\ IsFiniteSet(S)
  <2> DEFINE S == {p \in Panels : HasRoom(p, mb)}
  <2>1. q \in SetToSeqs(S)
    BY DEF PanelsForVolume
  <2>2. q \in [1 .. Cardinality(S) -> S]
    BY <2>1 DEF SetToSeqs
  <2>3. IsFiniteSet(S)
    BY DayAssumption, FS_Subset
  <2> QED
    BY <2>2, <2>3
<1>2. Cardinality(S) \in Nat
  BY <1>1, FS_CardinalityType
<1> QED
  BY <1>1, <1>2

Others(t) == \A s \in Taps \ {t} : tap'[s] = tap[s]

\* The locals of an update under way.
LEMMA Handling ==
    ASSUME TypeOK, NEW t \in Taps, tap[t].at # "idle"
    PROVE  tap[t].user \in Users
BY TypeSplit DEF TapTyped, TapLocal, Sound

LEMMA TapSteps ==
    ASSUME TypeOK, NEW t \in Taps, TapStep(t)
    PROVE  TapTyped' /\ Others(t)
<1>0. /\ tap \in [Taps -> TapLocal] /\ ReferralTypeOK /\ tday \in Days
      /\ \A s \in Taps : Sound(tap[s])
      /\ tap[t].queue \in Seq(Panels)
  BY TypeSplit DEF TapTyped, DayTyped, TapLocal
<1> DEFINE Goal == \E x \in TapLocal : tap' = [tap EXCEPT ![t] = x] /\ Sound(x)
<1> SUFFICES Goal
  BY <1>0 DEF TapTyped, Others
<1>1. CASE Return(t)
  BY <1>1, IdleType DEF Return
<1>2. ASSUME NEW u \in Users, NEW r \in Users, Register(t, u, r) PROVE Goal
  <2> DEFINE x == [Idle EXCEPT !.at = "invite", !.user = u, !.ref = r]
  <2>1. x \in TapLocal /\ Sound(x)
    BY IdleType, ConstantTypes DEF TapLocal, TapPlaces, Sound
  <2>2. CASE r # u
    <3>1. tap' = [tap EXCEPT ![t] = x]
      BY <1>2, <2>2 DEF Register
    <3> QED
      BY <2>1, <3>1
  <2>3. CASE r = u
    <3>1. tap' = [tap EXCEPT ![t] = tap[t]] /\ tap[t] \in TapLocal /\ Sound(tap[t])
      BY <1>0, <1>2, <2>3 DEF Register
    <3> QED
      BY <3>1
  <2> QED
    BY <2>2, <2>3
<1>3. ASSUME NEW u \in Users, Open(t, u) PROVE Goal
  <2> DEFINE x == [Idle EXCEPT !.at = "gate", !.user = u, !.date = tday, !.mb = DailyCapMB(u)]
  <2>1. x \in TapLocal /\ Sound(x)
    BY <1>0, IdleType, CapType, ConstantTypes DEF TapLocal, TapPlaces, Sound
  <2>2. tap' = [tap EXCEPT ![t] = x]
    BY <1>3 DEF Open
  <2> QED
    BY <2>1, <2>2
<1>4. CASE SelectPanels(t)
  <2>1. ASSUME NEW q \in PanelsForVolume(tap[t].mb) \ {<<>>},
               tap' = [tap EXCEPT ![t].at = "create", ![t].queue = q]
        PROVE  Goal
    <3> DEFINE x == [tap[t] EXCEPT !.at = "create", !.queue = q]
    <3>1. x \in TapLocal /\ Sound(x)
      BY <1>0, <1>4, <2>1, QueueType, ZenonT(40) DEF TapLocal, TapPlaces, Sound, SelectPanels, At
    <3>2. tap' = [tap EXCEPT ![t] = x]
      BY <1>0, <2>1
    <3> QED
      BY <3>1, <3>2
  <2> QED
    BY <1>1, <1>4, <2>1 DEF SelectPanels
<1>5. CASE Created(t)
  <2> DEFINE x == [Idle EXCEPT !.at = "referral", !.user = tap[t].user]
  <2>1. tap[t].user \in Users
    BY <1>5, Handling DEF Created, At
  <2>2. x \in TapLocal /\ Sound(x)
    BY <2>1, IdleType, ConstantTypes DEF TapLocal, TapPlaces, Sound
  <2>3. tap' = [tap EXCEPT ![t] = x]
    BY <1>5 DEF Created
  <2> QED
    BY <2>2, <2>3
<1>6. CASE CreateFails(t)
  <2> DEFINE left == Tail(tap[t].queue)
             x == IF left = <<>> THEN Idle ELSE [tap[t] EXCEPT !.queue = left]
  <2>1. tap[t].queue # <<>>
    BY <1>0, <1>6 DEF CreateFails, At, Sound
  <2>2. left \in Seq(Panels)
    BY <1>0, <2>1
  <2>3. x \in TapLocal /\ Sound(x)
    BY <1>0, <2>2, IdleType DEF TapLocal, Sound
  <2>4. tap' = [tap EXCEPT ![t] = x]
    BY <1>0, <1>6 DEF CreateFails
  <2> QED
    BY <2>3, <2>4
<1>7. CASE ReadReferral(t)
  <2>1. CASE ReferralPending(tap[t].user)
             /\ tap' = [tap EXCEPT ![t].at = "mark", ![t].ref = invitedBy[tap[t].user]]
    <3> DEFINE x == [tap[t] EXCEPT !.at = "mark", !.ref = invitedBy[tap[t].user]]
    <3>1. tap[t].user \in Users /\ At(t, "referral")
      BY <1>7, Handling DEF ReadReferral, At
    <3>2. invitedBy[tap[t].user] \in Users \cup {Nobody}
      BY <1>0, <3>1 DEF ReferralTypeOK
    <3>3. x \in TapLocal /\ Sound(x) /\ tap' = [tap EXCEPT ![t] = x]
      BY <1>0, <2>1, <3>1, <3>2 DEF TapLocal, TapPlaces, Sound, At
    <3> QED
      BY <3>3
  <2> QED
    BY <1>1, <1>7, <2>1 DEF ReadReferral
<1>8. CASE CountReferral(t)
  <2>1. CASE At(t, "mark") /\ Go(t, "credit")
    <3> DEFINE x == [tap[t] EXCEPT !.at = "credit"]
    <3>1. x \in TapLocal /\ Sound(x) /\ tap' = [tap EXCEPT ![t] = x]
      BY <1>0, <2>1 DEF TapLocal, TapPlaces, Sound, At, Go
    <3> QED
      BY <3>1
  <2> QED
    BY <1>1, <1>8, <2>1 DEF CountReferral
<1>9. CASE RecordInvite(t)
  BY <1>1, <1>9 DEF RecordInvite
<1> QED
  BY <1>2, <1>3, <1>4, <1>5, <1>6, <1>7, <1>8, <1>9 DEF TapStep

LEMMA UserSubsets == \A S \in SUBSET Users : IsFiniteSet(S) /\ Cardinality(S) \in Nat
BY ReferralAssumption, FS_Subset, FS_CardinalityType

LEMMA TapSubsets == \A S \in SUBSET Taps : IsFiniteSet(S) /\ Cardinality(S) \in Nat
BY DayAssumption, FS_Subset, FS_CardinalityType

LEMMA RowSteps ==
    ASSUME ReferralTypeOK, NEW u \in Users, NEW r \in Users \cup {Nobody}, NEW n \in Grants,
           \/ UpsertUser(u) \/ SetReferrer(u, r) \/ MarkPaid(u) \/ CreditInviter(r) \/ SetGrant(u, n)
           \/ DeleteUserRows(u) \/ UNCHANGED <<userRows, inviteRows>>
    PROVE  ReferralTypeOK'
<1> USE DEF ReferralTypeOK
<1>1. CASE UpsertUser(u)
  BY <1>1 DEF UpsertUser
<1>2. CASE SetReferrer(u, r)
  BY <1>2 DEF SetReferrer
<1>3. CASE MarkPaid(u)
  BY <1>3 DEF MarkPaid
<1>4. CASE CreditInviter(r)
  BY <1>4 DEF CreditInviter
<1>5. CASE SetGrant(u, n)
  BY <1>5 DEF SetGrant
<1>6. CASE DeleteUserRows(u)
  <2>1. \A x \in Users : Cardinality({e \in ReferralsOf(u) : invitedBy[e] = x}) \in Nat
    BY UserSubsets DEF ReferralsOf
  <2>2. erased' \in [Users -> Nat]
    BY <1>6, <2>1 DEF DeleteUserRows
  <2>3. invitedBy' \in [Users -> Users \cup {Nobody}]
    BY <1>6 DEF DeleteUserRows
  <2>4. paid' \subseteq {e \in Users : invitedBy'[e] # Nobody}
    BY <1>6 DEF DeleteUserRows
  <2>5. known' \subseteq Users /\ credits' \in [Users -> Nat]
        /\ bonus' \in [Users -> Grants] /\ override' \in [Users -> Grants]
    BY <1>6, ConstantTypes DEF DeleteUserRows
  <2> QED
    BY <2>2, <2>3, <2>4, <2>5
<1>7. CASE UNCHANGED <<userRows, inviteRows>>
  BY <1>7
<1> QED
  BY <1>1, <1>2, <1>3, <1>4, <1>5, <1>6, <1>7

\* What a step of an update changes besides its own locals.
TapEffect ==
    /\ ReferralTypeOK'
    /\ used' \in [Panels -> Nat]
    /\ lastClaim' \in [Users -> Days \cup {-1}] /\ claims' \in [Days -> SUBSET Users]
    /\ UNCHANGED <<watchVars, job, tday, scene>>

LEMMA TapStepEffect == ASSUME TypeOK, NEW t \in Taps, TapStep(t) PROVE TapEffect
<1>0. /\ ReferralTypeOK /\ used \in [Panels -> Nat]
      /\ lastClaim \in [Users -> Days \cup {-1}] /\ claims \in [Days -> SUBSET Users]
      /\ tap[t].ref \in Users \cup {Nobody} /\ tap[t].date \in Days /\ tap[t].mb \in Nat
      /\ tap[t].queue \in Seq(Panels) /\ (tap[t].at = "create" => tap[t].queue # <<>>)
      /\ tap[t].at # "idle" => tap[t].user \in Users
      /\ 0 \in Grants
  BY TypeSplit, Handling, ConstantTypes DEF WatchTypeOK, TapTyped, DayTyped, TapLocal, Sound
<1>1. ASSUME NEW u \in Users, NEW r \in Users, Register(t, u, r) PROVE TapEffect
  <2>1. UpsertUser(u)
    BY <1>1 DEF Register
  <2>2. ReferralTypeOK'
    BY <1>0, <2>1, RowSteps
  <2> QED
    BY <1>0, <1>1, <2>2 DEF Register, TapEffect
<1>2. CASE RecordInvite(t)
  <2>1. tap[t].user \in Users /\ SetReferrer(tap[t].user, tap[t].ref)
    BY <1>0, <1>2 DEF RecordInvite, At
  <2>2. ReferralTypeOK'
    BY <1>0, <2>1, RowSteps
  <2> QED
    BY <1>0, <1>2, <2>2 DEF RecordInvite, TapEffect
<1>3. ASSUME NEW u \in Users, Open(t, u) PROVE TapEffect
  <2>1. UpsertUser(u)
    BY <1>3 DEF Open
  <2>2. ReferralTypeOK'
    BY <1>0, <2>1, RowSteps
  <2> QED
    BY <1>0, <1>3, <2>2 DEF Open, TapEffect
<1>4. CASE SelectPanels(t) \/ CreateFails(t) \/ ReadReferral(t)
  <2>1. UNCHANGED <<userRows, inviteRows>>
    BY <1>4 DEF SelectPanels, CreateFails, ReadReferral
  <2>2. ReferralTypeOK'
    BY <1>0, <2>1 DEF ReferralTypeOK
  <2> QED
    BY <1>0, <1>4, <2>2 DEF SelectPanels, CreateFails, ReadReferral, TapEffect
<1>5. CASE Created(t)
  <2>0. tap[t].user \in Users
    BY <1>0, <1>5 DEF Created, At
  <2>1. ReferralTypeOK' /\ UNCHANGED <<watchVars, job, tday, scene>>
    BY <1>0, <1>5 DEF Created, ReferralTypeOK
  <2>2. claims' \in [Days -> SUBSET Users]
    BY <1>0, <1>5, <2>0 DEF Created
  <2>3. lastClaim' \in [Users -> Days \cup {-1}]
    BY <1>0, <1>5, <2>0 DEF Created
  <2>4. used' \in [Panels -> Nat]
    <3>1. Head(tap[t].queue) \in Panels
      BY <1>0, <1>5 DEF Created, At
    <3> QED
      BY <1>0, <1>5, <3>1 DEF Created, AddPanelUsage
  <2> QED
    BY <2>1, <2>2, <2>3, <2>4 DEF TapEffect
<1>6. CASE CountReferral(t)
  <2>1. tap[t].user \in Users
    BY <1>0, <1>6 DEF CountReferral, At
  <2>2. MarkPaid(tap[t].user) \/ CreditInviter(tap[t].ref) \/ UNCHANGED <<userRows, inviteRows>>
    BY <1>6 DEF CountReferral
  <2>3. ReferralTypeOK'
    BY <1>0, <2>1, <2>2, RowSteps
  <2> QED
    BY <1>0, <1>6, <2>3 DEF CountReferral, TapEffect
<1> QED
  BY <1>1, <1>2, <1>3, <1>4, <1>5, <1>6 DEF TapStep

LEMMA TapType == ASSUME TypeOK, NEW t \in Taps, TapStep(t) PROVE TypeOK'
<1>1. TapEffect /\ TapTyped'
  BY TapStepEffect, TapSteps
<1>2. WatchTypeOK' /\ DayTyped'
  BY <1>1, TypeSplit DEF TapEffect, WatchTypeOK, DayTyped
<1> QED
  BY <1>1, <1>2, TypeSplitNext DEF TapEffect

(***************************************************************************)
(* The health check beside the midnight job.                               *)
(***************************************************************************)

CheckPlaces == {"idle", "ping", "alert", "usage", "send"}
CheckLocal == [at : CheckPlaces, todo : SUBSET Panels, cur : Panels, near : SUBSET Panels,
               now : BOOLEAN, quiet : BOOLEAN, late : BOOLEAN]
MapsTyped ==
    /\ healthy \subseteq Panels /\ warned \subseteq Panels
    /\ said \in [Panels -> {"none", "down", "up", "void"}]
    /\ warnings \in [Panels -> Nat] /\ clears \in Nat

LEMMA WatchSplit == WatchTypeOK <=> used \in [Panels -> Nat] /\ hc \in CheckLocal /\ MapsTyped
BY DEF WatchTypeOK, CheckLocal, CheckPlaces, MapsTyped

LEMMA WatchSplitNext ==
    ASSUME used' \in [Panels -> Nat], hc' \in CheckLocal, MapsTyped'
    PROVE  WatchTypeOK'
BY DEF WatchTypeOK, CheckLocal, CheckPlaces, MapsTyped

LEMMA NoCheckType == NoCheck \in CheckLocal /\ NoCheck.at = "idle" /\ NoCheck.late = FALSE
BY WatchAssumption DEF NoCheck, CheckLocal, CheckPlaces

LEMMA NextPanelType ==
    ASSUME hc \in CheckLocal
    PROVE  /\ NextPanel \in CheckLocal /\ NextPanel.at \in {"idle", "ping"}
           /\ NextPanel.at = "ping" => NextPanel.late = hc.late
           /\ NextPanel.late => hc.late
BY NoCheckType DEF NextPanel, CheckLocal, CheckPlaces

\* What each step of the check does to its locals and the maps.
Pings(p) ==
    /\ hc'.at \in {"alert", "usage"} /\ hc'.cur = p /\ hc'.late = hc.late /\ hc.at = "ping"
    /\ hc'.quiet <=> p \in warned
    /\ healthy' = IF hc'.now THEN healthy \cup {p} ELSE healthy \ {p}
    /\ hc'.at = "alert" <=> (hc'.now <=> p \notin healthy)
    /\ UNCHANGED <<warned, said, warnings, clears>>

Alerts ==
    /\ hc.at = "alert" /\ hc'.at = "usage"
    /\ hc'.cur = hc.cur /\ hc'.quiet = hc.quiet /\ hc'.late = hc.late
    /\ \E word \in {IF hc.now THEN "up" ELSE "down", "void"} : said' = [said EXCEPT ![hc.cur] = word]
    /\ UNCHANGED <<healthy, warned, warnings, clears>>

Judges ==
    /\ hc.at = "usage" /\ (hc'.late => hc.late)
    /\ \/ /\ ~hc.quiet /\ warned' = warned \cup {hc.cur} /\ hc'.at = "send" /\ hc'.cur = hc.cur
       \/ hc'.at \in {"idle", "ping"} /\ warned' = warned
    /\ UNCHANGED <<healthy, said, warnings, clears>>

Warns ==
    /\ hc.at = "send" /\ hc'.at \in {"idle", "ping"} /\ (hc'.late => hc.late)
    /\ warnings' \in {warnings, [warnings EXCEPT ![hc.cur] = @ + 1]}
    /\ UNCHANGED <<healthy, warned, said, clears>>

Begins ==
    /\ hc.at = "idle" /\ hc'.at = "ping" /\ ~hc'.late
    /\ UNCHANGED <<healthy, warned, said, warnings, clears>>

CheckEffect == Begins \/ Alerts \/ Judges \/ Warns \/ \E p \in Panels : Pings(p)

LEMMA CheckStepEffect ==
    ASSUME WatchTypeOK, CheckStep
    PROVE  hc' \in CheckLocal /\ CheckEffect /\ UNCHANGED used
<1>0. hc \in CheckLocal
  BY WatchSplit
<1>1. CASE CheckStart
  <2>1. hc' = [NoCheck EXCEPT !.at = "ping", !.todo = Panels, !.near = {p \in Panels : NearCapacity(p)}]
    BY <1>1 DEF CheckStart
  <2>2. hc' \in CheckLocal /\ hc'.at = "ping" /\ ~hc'.late
    BY <2>1, NoCheckType DEF CheckLocal, CheckPlaces
  <2> QED
    BY <1>1, <2>2 DEF CheckStart, CheckEffect, Begins
<1>2. ASSUME NEW p \in Panels, PingPanel(p)
      PROVE  hc' \in CheckLocal /\ CheckEffect /\ UNCHANGED used
  <2>1. PICK now \in BOOLEAN, quiet \in BOOLEAN :
          /\ quiet <=> p \in warned
          /\ healthy' = IF now THEN healthy \cup {p} ELSE healthy \ {p}
          /\ hc' = [hc EXCEPT !.at = IF now <=> p \notin healthy THEN "alert" ELSE "usage",
                              !.cur = p, !.now = now, !.quiet = quiet]
    BY <1>2 DEF PingPanel
  <2>2. /\ hc' \in CheckLocal /\ hc'.at \in {"alert", "usage"} /\ hc'.cur = p
        /\ hc'.late = hc.late /\ hc'.now = now /\ hc'.quiet = quiet
        /\ hc'.at = IF now <=> p \notin healthy THEN "alert" ELSE "usage"
    BY <1>0, <2>1 DEF CheckLocal, CheckPlaces
  <2>3. hc'.at = "alert" <=> (now <=> p \notin healthy)
    BY <2>2
  <2>4. hc.at = "ping" /\ UNCHANGED <<used, warned, said, warnings, clears>>
    BY <1>2 DEF PingPanel
  <2> QED
    BY <2>1, <2>2, <2>3, <2>4 DEF CheckEffect, Pings
<1>3. CASE SendAlert
  <2>1. hc' \in CheckLocal /\ hc'.at = "usage" /\ hc'.cur = hc.cur /\ hc'.quiet = hc.quiet /\ hc'.late = hc.late
    BY <1>0, <1>3 DEF SendAlert, CheckLocal, CheckPlaces
  <2> QED
    BY <1>3, <2>1 DEF SendAlert, Announced, CheckEffect, Alerts
<1>4. CASE JudgeUsage
  <2>1. CASE hc' = [hc EXCEPT !.at = "send"] /\ warned' = Remembered(hc.cur) /\ ~hc.quiet
    <3>1. hc' \in CheckLocal /\ hc'.at = "send" /\ hc'.cur = hc.cur /\ hc'.late = hc.late
      BY <1>0, <2>1 DEF CheckLocal, CheckPlaces
    <3> QED
      BY <1>4, <2>1, <3>1 DEF JudgeUsage, Remembered, CheckEffect, Judges
  <2>2. CASE hc' = NextPanel /\ warned' = warned
    BY <1>0, <1>4, <2>2, NextPanelType DEF JudgeUsage, CheckEffect, Judges
  <2> QED
    BY <1>4, <2>1, <2>2 DEF JudgeUsage
<1>5. CASE SendWarning
  BY <1>0, <1>5, NextPanelType DEF SendWarning, CheckEffect, Warns
<1> QED
  BY <1>1, <1>2, <1>3, <1>4, <1>5 DEF CheckStep

LEMMA CheckType ==
    ASSUME WatchTypeOK, CheckStep
    PROVE  WatchTypeOK'
<1>1. /\ hc' \in CheckLocal /\ CheckEffect /\ used' \in [Panels -> Nat]
      /\ MapsTyped /\ hc.cur \in Panels
  BY CheckStepEffect, WatchSplit DEF CheckLocal
<1>2. MapsTyped'
  BY <1>1 DEF MapsTyped, CheckEffect, Begins, Pings, Alerts, Judges, Warns
<1> QED
  BY <1>1, <1>2, WatchSplitNext

WatchKnows == AlertKnows /\ QuietKnows /\ WarningsKnown /\ AlertMatchesHealth

LEMMA AlertStep ==
    ASSUME WatchTypeOK, AlertKnows, AlertMatchesHealth, CheckStep
    PROVE  AlertKnows' /\ AlertMatchesHealth'
<1>1. CheckEffect /\ hc.cur \in Panels /\ said \in [Panels -> {"none", "down", "up", "void"}]
  BY CheckStepEffect, WatchSplit DEF CheckLocal, MapsTyped
<1>2. CASE Begins \/ Judges \/ Warns
  <2>1. /\ hc.at # "alert" /\ hc'.at # "alert" /\ said' = said /\ healthy' = healthy
    BY <1>2 DEF Begins, Judges, Warns
  <2> QED
    BY <2>1 DEF AlertKnows, AlertMatchesHealth
<1>3. CASE Alerts
  BY <1>1, <1>3 DEF Alerts, AlertKnows, AlertMatchesHealth
<1>4. ASSUME NEW p \in Panels, Pings(p) PROVE AlertKnows' /\ AlertMatchesHealth'
  <2>1. AlertKnows'
    BY <1>4 DEF Pings, AlertKnows
  <2>2. ASSUME NEW q \in Panels
        PROVE  \/ hc'.at = "alert" /\ hc'.cur = q
               \/ said'[q] = "void"
               \/ (said'[q] = "down") <=> q \notin healthy'
    BY <1>4, <2>2 DEF Pings, AlertMatchesHealth
  <2> QED
    BY <2>1, <2>2 DEF AlertMatchesHealth
<1> QED
  BY <1>1, <1>2, <1>3, <1>4 DEF CheckEffect

LEMMA QuietStep ==
    ASSUME WatchTypeOK, QuietKnows, CheckStep
    PROVE  QuietKnows'
<1>1. CheckEffect
  BY CheckStepEffect
<1>2. CASE Begins \/ Judges \/ Warns
  <2>1. hc'.at \notin {"alert", "usage"}
    BY <1>2 DEF Begins, Judges, Warns
  <2> QED
    BY <2>1 DEF QuietKnows
<1>3. CASE Alerts
  BY <1>3 DEF Alerts, QuietKnows
<1>4. ASSUME NEW p \in Panels, Pings(p) PROVE QuietKnows'
  BY <1>4 DEF Pings, QuietKnows
<1> QED
  BY <1>1, <1>2, <1>3, <1>4 DEF CheckEffect

LEMMA WarningsStep ==
    ASSUME WatchTypeOK, QuietKnows, WarningsKnown, CheckStep
    PROVE  WarningsKnown'
<1>1. /\ CheckEffect /\ hc.cur \in Panels
      /\ warnings \in [Panels -> Nat] /\ clears \in Nat /\ clears' = clears
  BY CheckStepEffect, WatchSplit
  DEF CheckLocal, MapsTyped, CheckEffect, Begins, Alerts, Judges, Warns, Pings
<1>2. CASE Begins \/ Alerts
  BY <1>1, <1>2 DEF Begins, Alerts, WarningsKnown, Sending, Count
<1>3. ASSUME NEW p \in Panels, Pings(p) PROVE WarningsKnown'
  BY <1>1, <1>3 DEF Pings, WarningsKnown, Sending, Count
<1>4. CASE Judges
  <2>1. CASE hc'.at \in {"idle", "ping"} /\ warned' = warned
    <3>1. hc.at = "usage" /\ (hc'.late => hc.late) /\ warnings' = warnings
      BY <1>4 DEF Judges
    <3>2. \A p \in Panels : ~Sending(p)' /\ Count(p)' = Count(p)
      BY <2>1, <3>1 DEF Count, Sending
    <3> QED
      BY <1>1, <2>1, <3>1, <3>2 DEF WarningsKnown
  <2>2. CASE ~hc.quiet /\ warned' = warned \cup {hc.cur} /\ hc'.at = "send" /\ hc'.cur = hc.cur
    <3>1. hc.at = "usage" /\ hc.cur \notin warned /\ (hc'.late => hc.late) /\ warnings' = warnings
      BY <1>4, <2>2 DEF Judges, QuietKnows
    <3>2. \A p \in Panels : Count(p) = warnings[p] /\ warnings[p] \in Nat
      BY <1>1, <3>1 DEF Count, Sending
    <3>3. Count(hc.cur)' = warnings[hc.cur] + 1
          /\ \A p \in Panels \ {hc.cur} : ~Sending(p)' /\ Count(p)' = warnings[p]
      BY <1>1, <2>2, <3>1, <3>2 DEF Count, Sending
    <3>4. warnings[hc.cur] <= clears
      BY <1>1, <3>1, <3>2 DEF WarningsKnown
    <3> QED
      BY <1>1, <2>2, <3>1, <3>2, <3>3, <3>4 DEF WarningsKnown
  <2> QED
    BY <1>4, <2>1, <2>2 DEF Judges
<1>5. CASE Warns
  <2>1. /\ hc.at = "send" /\ hc'.at \in {"idle", "ping"} /\ warned' = warned
        /\ warnings' \in {warnings, [warnings EXCEPT ![hc.cur] = @ + 1]}
    BY <1>5 DEF Warns
  <2>2. \A p \in Panels : ~Sending(p)' /\ Count(p)' <= Count(p) /\ Count(p) \in Nat /\ Count(p)' \in Nat
    BY <1>1, <2>1 DEF Count, Sending
  <2> QED
    BY <1>1, <2>1, <2>2 DEF WarningsKnown
<1> QED
  BY <1>1, <1>2, <1>3, <1>4, <1>5 DEF CheckEffect

\* The steps of the midnight job, and the clock.
JobStep == NewDay \/ SendDailyReport \/ Reset \/ ClearWarnings

LEMMA JobType == ASSUME TypeOK, JobStep PROVE TypeOK'
<1>1. ReferralTypeOK /\ WatchTypeOK /\ TapTyped /\ DayTyped /\ hc \in CheckLocal
  BY TypeSplit, WatchSplit
<1>2. ReferralTypeOK' /\ TapTyped'
  BY <1>1 DEF JobStep, NewDay, SendDailyReport, Reset, ClearWarnings, ReferralTypeOK, TapTyped
<1>3. DayTyped'
  BY <1>1, DayAssumption
  DEF JobStep, NewDay, SendDailyReport, Reset, ClearWarnings, DayTyped, Days
<1>4. used' \in [Panels -> Nat]
  BY <1>1 DEF JobStep, NewDay, SendDailyReport, Reset, ResetPanelUsage, ClearWarnings, WatchTypeOK
<1>5. hc' \in CheckLocal
  <2>1. [hc EXCEPT !.late = TRUE] \in CheckLocal
    BY <1>1 DEF CheckLocal
  <2> QED
    BY <1>1, <2>1 DEF JobStep, NewDay, SendDailyReport, Reset, ClearWarnings, ClearWarned
<1>6. MapsTyped'
  BY <1>1, WatchSplit
  DEF JobStep, NewDay, CountAnew, SendDailyReport, Reset, ClearWarnings, ClearWarned, MapsTyped
<1> QED
  BY <1>2, <1>3, <1>4, <1>5, <1>6, WatchSplitNext, TypeSplitNext

LEMMA JobWatch == ASSUME TypeOK, WatchKnows, JobStep PROVE WatchKnows'
<1>1. /\ hc \in CheckLocal /\ warnings \in [Panels -> Nat] /\ clears \in Nat
      /\ AlertKnows /\ QuietKnows /\ WarningsKnown /\ AlertMatchesHealth
  BY TypeSplit, WatchSplit DEF MapsTyped, WatchKnows
<1>2. CASE NewDay
  <2>1. /\ ~hc.late /\ warnings' = [p \in Panels |-> 0] /\ clears' = 0
        /\ UNCHANGED <<healthy, warned, hc, said>>
    BY <1>2 DEF NewDay, CountAnew
  <2>2. \A p \in Panels : Sending(p)' = Sending(p) /\ Count(p)' = IF Sending(p) THEN 1 ELSE 0
    BY <2>1 DEF Sending, Count
  <2>3. WarningsKnown'
    BY <1>1, <2>1, <2>2 DEF WarningsKnown
  <2> QED
    BY <1>1, <2>1, <2>3 DEF WatchKnows, AlertKnows, QuietKnows, AlertMatchesHealth
<1>3. CASE SendDailyReport \/ Reset
  <2>1. UNCHANGED watchVars
    BY <1>3 DEF SendDailyReport, Reset
  <2> QED
    BY <1>1, <2>1
    DEF WatchKnows, AlertKnows, QuietKnows, AlertMatchesHealth, WarningsKnown, Sending, Count
<1>4. CASE ClearWarnings
  <2>1. /\ warned' = {} /\ clears' = clears + 1 /\ UNCHANGED <<healthy, said, warnings>>
        /\ hc' = IF hc.at = "idle" THEN hc ELSE [hc EXCEPT !.late = TRUE]
    BY <1>4 DEF ClearWarnings, ClearWarned
  <2>2. /\ hc'.at = hc.at /\ hc'.cur = hc.cur /\ hc'.now = hc.now /\ hc'.quiet = hc.quiet
        /\ hc.at # "idle" => hc'.late
    BY <1>1, <2>1 DEF CheckLocal
  <2>3. \A p \in Panels : /\ Sending(p)' = Sending(p) /\ Count(p)' = Count(p) /\ Count(p) \in Nat
                          /\ Count(p) <= clears + 1
    BY <1>1, <2>1, <2>2 DEF Sending, Count, WarningsKnown
  <2>4. WarningsKnown'
    BY <1>1, <2>1, <2>2, <2>3 DEF WarningsKnown, Sending
  <2> QED
    BY <1>1, <2>1, <2>2, <2>4 DEF WatchKnows, AlertKnows, QuietKnows, AlertMatchesHealth
<1> QED
  BY <1>2, <1>3, <1>4 DEF JobStep

\* A restart forgets what the map knew: that is one more clear, or a new day.
LEMMA CrashWatch == ASSUME TypeOK, WatchKnows, Crash PROVE WatchKnows'
<1>1. /\ hc'.at = "idle" /\ healthy' = Panels /\ warned' = {}
      /\ said' = [p \in Panels |-> IF said[p] = "none" THEN "none" ELSE "void"]
      /\ \/ warnings' = warnings /\ clears' = clears + 1
         \/ warnings' = [p \in Panels |-> 0] /\ clears' = 0
      /\ warnings \in [Panels -> Nat] /\ clears \in Nat
  BY NoCheckType, TypeSplit, WatchSplit DEF Crash, ForgetMaps, CountAnew, MapsTyped
<1>2. \A p \in Panels : /\ ~Sending(p)' /\ Count(p)' = warnings'[p]
                        /\ warnings[p] <= Count(p) /\ Count(p) <= clears + 1 /\ Count(p) \in Nat
  BY <1>1 DEF Sending, Count, WatchKnows, WarningsKnown
<1>3. WarningsKnown'
  BY <1>1, <1>2 DEF WarningsKnown
<1>4. AlertMatchesHealth'
  BY <1>1 DEF AlertMatchesHealth
<1> QED
  BY <1>1, <1>3, <1>4 DEF WatchKnows, AlertKnows, QuietKnows

LEMMA CrashType == ASSUME TypeOK, Crash PROVE TypeOK'
<1>1. ReferralTypeOK /\ used \in [Panels -> Nat] /\ DayTyped /\ MapsTyped
  BY TypeSplit, WatchSplit
<1>2. ReferralTypeOK' /\ used' \in [Panels -> Nat]
  BY <1>1 DEF Crash, ReferralTypeOK
<1>3. hc' \in CheckLocal /\ MapsTyped'
  <2>1. warnings' \in [Panels -> Nat] /\ clears' \in Nat
    BY <1>1 DEF Crash, CountAnew, MapsTyped
  <2> QED
    BY <1>1, <2>1, NoCheckType DEF Crash, ForgetMaps, MapsTyped
<1>4. TapTyped'
  BY IdleType DEF Crash, TapTyped
<1>5. DayTyped'
  BY <1>1, DayAssumption DEF Crash, DayTyped, Days, CountAnew
<1> QED
  BY <1>2, <1>3, <1>4, <1>5, WatchSplitNext, TypeSplitNext

(***************************************************************************)
(* Referral credits.                                                       *)
(***************************************************************************)

CreditRows == <<credits, invitedBy, paid, erased>>
CreditsKnown == OneEach /\ RowKept /\ CreditsKept
CreditsInTurn == InTurn => CreditsKnown

LEMMA SetsFinite ==
    \A r : /\ IsFiniteSet(Owed(r)) /\ Cardinality(Owed(r)) \in Nat
           /\ Owed(r) \subseteq Users
BY UserSubsets DEF Owed

LEMMA PaidFinite ==
    ASSUME ReferralTypeOK
    PROVE  \A r : IsFiniteSet(PaidTo(r)) /\ Cardinality(PaidTo(r)) \in Nat
BY UserSubsets DEF PaidTo, ReferralTypeOK

\* An update that comes in turn is the only one of its user, until it is done.
LEMMA OneEachStep ==
    ASSUME TypeOK, OneEach, InTurn, NEW t \in Taps, TapStep(t)
    PROVE  OneEach'
<1>0. Others(t) /\ tap \in [Taps -> TapLocal]
  BY TapSteps, TypeSplit DEF TapTyped
<1>1. ASSUME tap'[t].user \in {Nobody, tap[t].user} PROVE OneEach'
  BY <1>0, <1>1 DEF OneEach, Others
<1>2. Return(t) => tap'[t].user = Nobody
  BY <1>0, IdleType DEF Return
<1>3. ASSUME NEW u \in Users, NEW r \in Users, Register(t, u, r) \/ Open(t, u) PROVE OneEach'
  <2>1. \A s \in Taps : tap[s].user # u
    BY <1>3 DEF Register, Open, Arrives
  <2>2. tap'[t].user \in {u, tap[t].user}
    BY <1>0, <1>3, IdleType, ZenonT(40) DEF Register, Open, TapLocal
  <2> QED
    BY <1>0, <2>1, <2>2 DEF OneEach, Others
<1>4. CASE SelectPanels(t)
  BY <1>0, <1>1, <1>2, <1>4 DEF SelectPanels, TapLocal
<1>5. CASE Created(t)
  BY <1>0, <1>1, <1>5, IdleType DEF Created, TapLocal
<1>6. CASE CreateFails(t)
  BY <1>0, <1>1, <1>6, IdleType DEF CreateFails, TapLocal
<1>7. CASE ReadReferral(t)
  BY <1>0, <1>1, <1>2, <1>7 DEF ReadReferral, TapLocal
<1>8. CASE RecordInvite(t) \/ CountReferral(t)
  BY <1>0, <1>1, <1>2, <1>8 DEF RecordInvite, CountReferral, Go, TapLocal
<1> QED
  BY <1>3, <1>4, <1>5, <1>6, <1>7, <1>8 DEF TapStep

\* The user of an update under way is the user of no other.
LEMMA Alone ==
    ASSUME TypeOK, OneEach, NEW t \in Taps, tap[t].at # "idle"
    PROVE  tap[t].user \in Users /\ \A s \in Taps \ {t} : tap[s].user # tap[t].user
BY Handling, ConstantTypes DEF OneEach

\* Who owes, of an update: what Owed is made of.
OwedBy(t, r) ==
    tap[t].ref = r /\ (At(t, "credit") \/ (At(t, "mark") /\ invitedBy[tap[t].user] = Nobody))

LEMMA OwedIs ==
    /\ \A r : Owed(r) = {u \in Users : \E t \in Taps : tap[t].user = u /\ OwedBy(t, r)}
    /\ \A r : Owed(r)' = {u \in Users : \E t \in Taps : tap'[t].user = u /\ OwedBy(t, r)'}
BY DEF Owed, OwedBy, At

\* A tap outside of CountReferralIfPending owes nothing and touches no credit.
LEMMA CreditFrame ==
    ASSUME TypeOK, CreditsKnown, OneEach', NEW t \in Taps, Others(t), UNCHANGED CreditRows,
           tap'[t].at \notin {"mark", "credit"}
    PROVE  CreditsKnown'
<1>1. RowKept'
  BY DEF CreditsKnown, RowKept, At, Others, CreditRows
<1>2. ASSUME NEW r \in Users
      PROVE  (credits[r] + Cardinality(Owed(r)) <= Cardinality(PaidTo(r)) + erased[r])'
  <2>1. Owed(r)' \subseteq Owed(r)
    <3>1. \A s \in Taps : OwedBy(s, r)' => OwedBy(s, r) /\ tap'[s].user = tap[s].user
      BY DEF OwedBy, At, Others, CreditRows
    <3> QED
      BY <3>1, OwedIs
  <2>2. IsFiniteSet(Owed(r)')
    BY <2>1, SetsFinite, FS_Subset
  <2>3. Cardinality(Owed(r)') <= Cardinality(Owed(r)) /\ Cardinality(Owed(r)') \in Nat
    BY <2>1, <2>2, SetsFinite, FS_Subset, FS_CardinalityType
  <2>4. PaidTo(r)' = PaidTo(r)
    BY DEF PaidTo, CreditRows
  <2>5. credits[r] \in Nat /\ erased[r] \in Nat /\ Cardinality(PaidTo(r)) \in Nat
    BY TypeSplit, PaidFinite DEF ReferralTypeOK
  <2>6. credits[r] + Cardinality(Owed(r)) <= Cardinality(PaidTo(r)) + erased[r]
    BY DEF CreditsKnown, CreditsKept
  <2>7. credits'[r] = credits[r] /\ erased'[r] = erased[r]
    BY DEF CreditRows
  <2> QED
    BY <2>3, <2>4, <2>5, <2>6, <2>7, SetsFinite
<1> QED
  BY <1>1, <1>2 DEF CreditsKnown, CreditsKept

Backed(r) == credits[r] + Cardinality(Owed(r)) <= Cardinality(PaidTo(r)) + erased[r]

LEMMA CreditTypes ==
    ASSUME ReferralTypeOK
    PROVE  /\ \A r \in Users : credits[r] \in Nat /\ erased[r] \in Nat
           /\ known \subseteq Users /\ paid \subseteq {e \in Users : invitedBy[e] # Nobody}
           /\ invitedBy \in [Users -> Users \cup {Nobody}]
BY DEF ReferralTypeOK

\* An invitation is written only where there was none.
LEMMA InviteCredits ==
    ASSUME TypeOK, CreditsKnown, OneEach', NEW t \in Taps, RecordInvite(t), Others(t)
    PROVE  CreditsKnown'
<1> DEFINE u == tap[t].user
<1>1. /\ UNCHANGED <<credits, paid, erased>> /\ At(t, "invite")
      /\ invitedBy' = IF invitedBy[u] = Nobody THEN [invitedBy EXCEPT ![u] = tap[t].ref] ELSE invitedBy
      /\ invitedBy \in [Users -> Users \cup {Nobody}]
      /\ paid \subseteq {e \in Users : invitedBy[e] # Nobody}
      /\ tap \in [Taps -> TapLocal] /\ RowKept
  BY TypeSplit, CreditTypes DEF RecordInvite, SetReferrer, TapTyped, CreditsKnown
<1>2. tap'[t].at = "idle"
  BY <1>1, IdleType DEF RecordInvite, Return
<1>3. /\ u \in Users /\ \A e \in Users \ {u} : invitedBy'[e] = invitedBy[e]
      /\ \A s \in Taps \ {t} : tap[s].at # "idle" => invitedBy'[tap[s].user] = invitedBy[tap[s].user]
  BY <1>1, Alone, Handling DEF At, CreditsKnown
<1>4. \A e \in paid : invitedBy'[e] = invitedBy[e]
  BY <1>1
<1>5. \A r : PaidTo(r)' = PaidTo(r)
  BY <1>1, <1>4 DEF PaidTo
<1> HIDE DEF u
<1>6. \A r : Owed(r)' = Owed(r)
  <2>1. \A r : \A s \in Taps : OwedBy(s, r)' <=> OwedBy(s, r)
    BY <1>1, <1>2, <1>3 DEF OwedBy, At, Others
  <2>2. \A r : \A s \in Taps : OwedBy(s, r) => tap'[s].user = tap[s].user
    BY <1>1 DEF OwedBy, At, Others
  <2> QED
    BY <2>1, <2>2, OwedIs
<1>7. RowKept'
  BY <1>1, <1>2, <1>3 DEF RowKept, At, Others
<1> QED
  BY <1>1, <1>5, <1>6, <1>7 DEF CreditsKnown, CreditsKept

LEMMA ReadCredits ==
    ASSUME TypeOK, CreditsKnown, OneEach', NEW t \in Taps, ReadReferral(t), Others(t)
    PROVE  CreditsKnown'
<1> DEFINE u == tap[t].user
<1>1. UNCHANGED CreditRows /\ At(t, "referral") /\ tap \in [Taps -> TapLocal]
  BY TypeSplit DEF ReadReferral, CreditRows, TapTyped
<1>2. CASE Return(t)
  <2>1. tap'[t].at = "idle"
    BY <1>1, <1>2, IdleType DEF Return
  <2> QED
    BY <1>1, <2>1, CreditFrame
<1>3. CASE ReferralPending(u) /\ tap' = [tap EXCEPT ![t].at = "mark", ![t].ref = invitedBy[u]]
  <2>1. /\ tap'[t].at = "mark" /\ tap'[t].ref = invitedBy[u] /\ tap'[t].user = u
        /\ invitedBy[u] # Nobody /\ u \notin paid
    BY <1>1, <1>3 DEF TapLocal, ReferralPending
  <2>2. \A r : Owed(r)' = Owed(r)
    <3>1. \A r : \A s \in Taps : /\ OwedBy(s, r)' <=> OwedBy(s, r)
                                 /\ tap'[s].user = tap[s].user
      BY <1>1, <2>1 DEF OwedBy, At, Others, CreditRows
    <3> QED
      BY <3>1, OwedIs
  <2>3. \A r : PaidTo(r)' = PaidTo(r)
    BY <1>1 DEF PaidTo, CreditRows
  <2>4. RowKept'
    BY <1>1, <2>1 DEF CreditsKnown, RowKept, At, Others, CreditRows
  <2> QED
    BY <1>1, <2>2, <2>3, <2>4 DEF CreditsKnown, CreditsKept, CreditRows
<1> QED
  BY <1>2, <1>3 DEF ReadReferral

LEMMA MarkCredits ==
    ASSUME TypeOK, CreditsKnown, OneEach', NEW t \in Taps, Others(t),
           At(t, "mark"), MarkPaid(tap[t].user), Go(t, "credit")
    PROVE  CreditsKnown'
<1> DEFINE u == tap[t].user
<1>0. /\ UNCHANGED <<credits, invitedBy, erased>> /\ RowKept /\ CreditsKept
      /\ paid' = IF invitedBy[u] = Nobody THEN paid ELSE paid \cup {u}
      /\ tap \in [Taps -> TapLocal] /\ ReferralTypeOK
      /\ u \in Users /\ \A s \in Taps \ {t} : tap[s].user # u
  BY TypeSplit, Alone DEF MarkPaid, TapTyped, CreditsKnown, At
<1>1. tap'[t].at = "credit" /\ tap'[t].ref = tap[t].ref /\ tap'[t].user = u
  BY <1>0 DEF Go, TapLocal
<1>u. \A s \in Taps : tap'[s].user = tap[s].user
  BY <1>1 DEF Others
<1> HIDE DEF u
<1>2. RowKept'
  BY <1>0, <1>1 DEF RowKept, At, Others
<1>3. CASE invitedBy[u] = Nobody
  <2>1. \A r : \A s \in Taps : OwedBy(s, r)' <=> OwedBy(s, r)
    BY <1>0, <1>1, <1>3 DEF OwedBy, At, Others, u
  <2>2. \A r : Owed(r)' = Owed(r)
    BY <1>u, <2>1, OwedIs
  <2>3. \A r : PaidTo(r)' = PaidTo(r)
    BY <1>0, <1>3 DEF PaidTo
  <2> QED
    BY <1>0, <1>2, <2>2, <2>3 DEF CreditsKnown, CreditsKept
<1>4. CASE invitedBy[u] # Nobody
  <2>1. invitedBy[u] = tap[t].ref /\ u \notin paid
    BY <1>0, <1>4 DEF RowKept, u
  <2>0. /\ \A r : \A s \in Taps \ {t} : OwedBy(s, r)' <=> OwedBy(s, r)
        /\ \A r : ~OwedBy(t, r) /\ (OwedBy(t, r)' <=> r = tap[t].ref)
    BY <1>0, <1>1, <1>4 DEF OwedBy, At, Others, u
  <2>2. ASSUME NEW r \in Users, r # tap[t].ref PROVE Backed(r)'
    <3>1. Owed(r)' = Owed(r)
      BY <1>u, <2>0, <2>2, OwedIs
    <3>2. PaidTo(r)' = PaidTo(r)
      BY <1>0, <1>4, <2>1, <2>2 DEF PaidTo
    <3> QED
      BY <1>0, <2>2, <3>1, <3>2 DEF Backed, CreditsKept
  <2>3. ASSUME NEW r \in Users, r = tap[t].ref PROVE Backed(r)'
    <3>1. Owed(r)' = Owed(r) \cup {u} /\ u \notin Owed(r)
      <4>1. \A e \in Users : e \in Owed(r)' <=> e \in Owed(r) \/ e = u
        BY <1>0, <1>1, <1>u, <2>0, <2>3, OwedIs
      <4>2. u \notin Owed(r)
        BY <1>0, <2>0, OwedIs DEF u
      <4> QED
        BY <1>0, <4>1, <4>2, OwedIs
    <3>2. PaidTo(r)' = PaidTo(r) \cup {u} /\ u \notin PaidTo(r)
      BY <1>0, <1>4, <2>1, <2>3 DEF PaidTo
    <3>3. /\ Cardinality(Owed(r)') = Cardinality(Owed(r)) + 1
          /\ Cardinality(PaidTo(r)') = Cardinality(PaidTo(r)) + 1
      BY <1>0, <3>1, <3>2, SetsFinite, PaidFinite, FS_AddElement
    <3>4. credits'[r] = credits[r] /\ erased'[r] = erased[r]
          /\ credits[r] \in Nat /\ erased[r] \in Nat /\ Backed(r)
      BY <1>0, CreditTypes DEF CreditsKept, Backed
    <3> QED
      BY <1>0, <3>3, <3>4, SetsFinite, PaidFinite DEF Backed
  <2> QED
    BY <1>2, <2>2, <2>3 DEF CreditsKnown, CreditsKept, Backed
<1> QED
  BY <1>3, <1>4

LEMMA PayCredits ==
    ASSUME TypeOK, CreditsKnown, OneEach', NEW t \in Taps, Others(t),
           At(t, "credit"), CreditInviter(tap[t].ref), Return(t)
    PROVE  CreditsKnown'
<1> DEFINE u == tap[t].user
<1>0. /\ UNCHANGED <<invitedBy, paid, erased>> /\ RowKept /\ CreditsKept
      /\ credits' = IF tap[t].ref \in known THEN [credits EXCEPT ![tap[t].ref] = @ + 1] ELSE credits
      /\ tap \in [Taps -> TapLocal] /\ ReferralTypeOK /\ credits \in [Users -> Nat]
      /\ u \in Users /\ \A s \in Taps \ {t} : tap[s].user # u
  BY TypeSplit, Alone DEF CreditInviter, TapTyped, CreditsKnown, ReferralTypeOK, At
<1>1. tap'[t].at = "idle"
  BY <1>0, IdleType DEF Return
<1>2. CASE tap[t].ref \notin known
  BY <1>0, <1>1, <1>2, CreditFrame DEF CreditRows
<1>3. CASE tap[t].ref \in known
  <2>0. /\ \A r : \A s \in Taps \ {t} : (OwedBy(s, r)' <=> OwedBy(s, r)) /\ tap'[s].user = tap[s].user
        /\ \A r : ~OwedBy(t, r)' /\ (OwedBy(t, r) <=> r = tap[t].ref)
    BY <1>0, <1>1 DEF OwedBy, At, Others
  <2>1. RowKept'
    BY <1>0, <1>1 DEF RowKept, At, Others
  <2>2. \A r : PaidTo(r)' = PaidTo(r)
    BY <1>0 DEF PaidTo
  <2> HIDE DEF u
  <2>3. ASSUME NEW r \in Users, r # tap[t].ref PROVE Backed(r)'
    <3>1. Owed(r)' = Owed(r)
      BY <2>0, <2>3, OwedIs
    <3> QED
      BY <1>0, <1>3, <2>2, <2>3, <3>1 DEF Backed, CreditsKept
  <2>4. ASSUME NEW r \in Users, r = tap[t].ref PROVE Backed(r)'
    <3>1. Owed(r)' = Owed(r) \ {u} /\ u \in Owed(r)
      <4>1. \A e \in Users : e \in Owed(r) <=> e \in Owed(r)' \/ e = u
        BY <1>0, <2>0, <2>4, OwedIs DEF u
      <4>2. u \notin Owed(r)'
        BY <1>0, <2>0, OwedIs
      <4> QED
        BY <1>0, <4>1, <4>2, OwedIs
    <3>2. Cardinality(Owed(r)') = Cardinality(Owed(r)) - 1
      BY <3>1, SetsFinite, FS_RemoveElement
    <3>3. credits'[r] = credits[r] + 1 /\ erased'[r] = erased[r]
          /\ credits[r] \in Nat /\ erased[r] \in Nat /\ Backed(r)
      BY <1>0, <1>3, <2>4, CreditTypes DEF CreditsKept, Backed
    <3> QED
      BY <1>0, <2>2, <3>2, <3>3, SetsFinite, PaidFinite DEF Backed
  <2> QED
    BY <2>1, <2>3, <2>4 DEF CreditsKnown, CreditsKept, Backed
<1> QED
  BY <1>2, <1>3

\* A deleted row that was not paid becomes an erased one, of which a tap may know.
LEMMA DeleteCredits ==
    ASSUME TypeOK, CreditsKnown, NEW u \in Users, DeleteUserRows(u), UNCHANGED tap
    PROVE  CreditsKnown'
<1> DEFINE Lost(r) == {e \in ReferralsOf(u) : invitedBy[e] = r}
<1>0. /\ RowKept /\ CreditsKept /\ ReferralTypeOK /\ credits \in [Users -> Nat]
      /\ credits' = [credits EXCEPT ![u] = 0]
      /\ invitedBy' = [e \in Users |-> IF e \in ReferralsOf(u) THEN Nobody ELSE invitedBy[e]]
      /\ paid' = paid \ ReferralsOf(u)
      /\ \A r \in Users : erased'[r] = erased[r] + Cardinality(Lost(r))
  BY TypeSplit DEF DeleteUserRows, CreditsKnown, ReferralTypeOK
<1>1. RowKept' /\ OneEach'
  <2>1. \A t \in Taps : At(t, "mark") => tap[t].user \in Users
    BY Handling DEF At
  <2> QED
    BY <1>0, <2>1 DEF RowKept, OneEach, At, CreditsKnown
<1>2. ASSUME NEW r \in Users PROVE Backed(r)'
  <2> DEFINE Unpaid == Lost(r) \ PaidTo(r)
             Settled == Lost(r) \cap PaidTo(r)
  <2>1. ReferralsOf(u) \subseteq Users /\ Lost(r) \subseteq Users
    BY DEF ReferralsOf
  <2>2. /\ \A S \in {Lost(r), Unpaid, Settled} : IsFiniteSet(S) /\ Cardinality(S) \in Nat
    BY <2>1, UserSubsets
  <2>3. Cardinality(Lost(r)) = Cardinality(Unpaid) + Cardinality(Settled)
    <3>1. Lost(r) = Unpaid \cup Settled /\ Unpaid \cap Settled = {}
      OBVIOUS
    <3> QED
      BY <2>2, <3>1, FS_Union, FS_EmptySet
  <2>4. Cardinality(PaidTo(r)') = Cardinality(PaidTo(r)) - Cardinality(Settled)
    <3>1. PaidTo(r)' = PaidTo(r) \ Lost(r)
      BY <1>0, CreditTypes DEF PaidTo
    <3>2. PaidTo(r) \cap Lost(r) = Settled
      OBVIOUS
    <3>3. IsFiniteSet(PaidTo(r))
      BY <1>0, PaidFinite
    <3>4. Cardinality(PaidTo(r) \ Lost(r)) = Cardinality(PaidTo(r)) - Cardinality(PaidTo(r) \cap Lost(r))
      BY <3>3, FS_Difference
    <3> QED
      BY <3>1, <3>2, <3>4
  <2>5. Cardinality(Owed(r)') <= Cardinality(Owed(r)) + Cardinality(Unpaid)
        /\ Cardinality(Owed(r)') \in Nat
    <3>1. Owed(r)' \subseteq Owed(r) \cup Unpaid
      <4>1. ASSUME NEW t \in Taps, OwedBy(t, r)', tap[t].user \in Users
            PROVE  OwedBy(t, r) \/ tap[t].user \in Unpaid
        BY <1>0, <4>1 DEF OwedBy, At, RowKept, PaidTo
      <4> QED
        BY <4>1, OwedIs
    <3>2. IsFiniteSet(Owed(r) \cup Unpaid)
          /\ Cardinality(Owed(r) \cup Unpaid) = Cardinality(Owed(r)) + Cardinality(Unpaid) - Cardinality(Owed(r) \cap Unpaid)
      BY <2>2, SetsFinite, FS_Union
    <3>3. Cardinality(Owed(r) \cap Unpaid) \in Nat
      BY <2>1, UserSubsets
    <3>4. Cardinality(Owed(r)') <= Cardinality(Owed(r) \cup Unpaid) /\ Cardinality(Owed(r)') \in Nat
      BY <3>1, <3>2, FS_Subset, FS_CardinalityType
    <3> QED
      BY <3>2, <3>3, <3>4, <2>2, SetsFinite
  <2>6. credits'[r] <= credits[r] /\ credits'[r] \in Nat /\ credits[r] \in Nat /\ erased[r] \in Nat
    BY <1>0, CreditTypes
  <2>7. Backed(r)
    BY <1>0 DEF CreditsKept, Backed
  <2> HIDE DEF Unpaid, Settled, Lost
  <2>8. erased'[r] = erased[r] + Cardinality(Lost(r))
    BY <1>0
  <2>9. Cardinality(Owed(r)) \in Nat /\ Cardinality(PaidTo(r)) \in Nat
        /\ Cardinality(Unpaid) \in Nat /\ Cardinality(Settled) \in Nat
    BY <1>0, <2>2, SetsFinite, PaidFinite
  <2> QED
    BY <2>3, <2>4, <2>5, <2>6, <2>7, <2>8, <2>9 DEF Backed
<1> QED
  BY <1>1, <1>2 DEF CreditsKnown, CreditsKept, Backed

LEMMA TapCredits ==
    ASSUME TypeOK, CreditsInTurn, NEW t \in Taps, TapStep(t)
    PROVE  CreditsInTurn'
<1> SUFFICES ASSUME InTurn, CreditsKnown PROVE CreditsKnown'
  BY TapStepEffect DEF CreditsInTurn, InTurn, TapEffect
<1>0. Others(t) /\ tap \in [Taps -> TapLocal] /\ TapTyped' /\ OneEach'
  BY TapSteps, OneEachStep, TypeSplit DEF TapTyped, CreditsKnown
<1>f. ASSUME tap'[t].at \notin {"mark", "credit"}, UNCHANGED CreditRows PROVE CreditsKnown'
  BY <1>0, <1>f, CreditFrame
<1>1. ASSUME NEW u \in Users, NEW r \in Users, Register(t, u, r) PROVE CreditsKnown'
  <2>1. tap'[t].at \in {"idle", "invite"} /\ UNCHANGED CreditRows
    BY <1>0, <1>1, IdleType DEF Register, Arrives, UpsertUser, CreditRows, TapLocal
  <2> QED
    BY <2>1, <1>f
<1>2. CASE RecordInvite(t)
  BY <1>0, <1>2, InviteCredits
<1>3. ASSUME NEW u \in Users, Open(t, u) PROVE CreditsKnown'
  <2>1. tap'[t].at = "gate" /\ UNCHANGED CreditRows
    BY <1>0, <1>3, IdleType DEF Open, UpsertUser, CreditRows, TapLocal
  <2> QED
    BY <2>1, <1>f
<1>4. CASE SelectPanels(t)
  <2>1. tap'[t].at \in {"idle", "create"} /\ UNCHANGED CreditRows
    BY <1>0, <1>4, IdleType DEF SelectPanels, Return, CreditRows, TapLocal
  <2> QED
    BY <2>1, <1>f
<1>5. CASE Created(t)
  <2>1. tap'[t].at = "referral" /\ UNCHANGED CreditRows
    BY <1>0, <1>5, IdleType DEF Created, CreditRows, TapLocal
  <2> QED
    BY <2>1, <1>f
<1>6. CASE CreateFails(t)
  <2>1. tap'[t].at \in {"idle", "create"} /\ UNCHANGED CreditRows
    BY <1>0, <1>6, IdleType DEF CreateFails, At, CreditRows, TapLocal
  <2> QED
    BY <2>1, <1>f
<1>7. CASE ReadReferral(t)
  BY <1>0, <1>7, ReadCredits
<1>8. CASE CountReferral(t)
  <2>1. CASE Return(t) /\ UNCHANGED <<userRows, inviteRows>>
    <3>1. tap'[t].at = "idle" /\ UNCHANGED CreditRows
      BY <1>0, <2>1, IdleType DEF Return, CreditRows
    <3> QED
      BY <3>1, <1>f
  <2> QED
    BY <1>0, <1>8, <2>1, MarkCredits, PayCredits DEF CountReferral
<1> QED
  BY <1>1, <1>2, <1>3, <1>4, <1>5, <1>6, <1>7, <1>8 DEF TapStep

LEMMA SameCredits ==
    ASSUME CreditsInTurn, UNCHANGED <<CreditRows, tap, scene>>
    PROVE  CreditsInTurn'
<1>1. \A r : Owed(r)' = Owed(r) /\ PaidTo(r)' = PaidTo(r)
  BY DEF Owed, At, PaidTo, CreditRows
<1> QED
  BY <1>1 DEF CreditsInTurn, InTurn, CreditsKnown, OneEach, RowKept, CreditsKept, At, CreditRows

LEMMA CrashCredits == ASSUME TypeOK, CreditsInTurn, Crash PROVE CreditsInTurn'
<1> SUFFICES ASSUME InTurn, CreditsKnown PROVE CreditsKnown'
  BY DEF CreditsInTurn, InTurn, Crash
<1>1. UNCHANGED CreditRows /\ \A t \in Taps : tap'[t].at = "idle" /\ tap'[t].user = Nobody
  BY IdleType DEF Crash, CreditRows
<1>2. RowKept' /\ OneEach'
  BY <1>1 DEF RowKept, OneEach, At
<1>3. \A r : Owed(r)' = {} /\ PaidTo(r)' = PaidTo(r)
  BY <1>1 DEF Owed, At, PaidTo, CreditRows
<1>4. ASSUME NEW r \in Users PROVE Backed(r)'
  <2>1. /\ credits[r] \in Nat /\ erased[r] \in Nat /\ Backed(r)
        /\ Cardinality(PaidTo(r)) \in Nat
    BY TypeSplit, CreditTypes, PaidFinite DEF CreditsKnown, CreditsKept, Backed
  <2>2. Cardinality(Owed(r)') = 0 /\ Cardinality(Owed(r)) \in Nat
    BY <1>3, SetsFinite, FS_EmptySet
  <2>3. credits'[r] = credits[r] /\ erased'[r] = erased[r] /\ PaidTo(r)' = PaidTo(r)
    BY <1>1, <1>3 DEF CreditRows
  <2> QED
    BY <2>1, <2>2, <2>3 DEF Backed
<1> QED
  BY <1>2, <1>4 DEF CreditsKnown, CreditsKept, Backed

(***************************************************************************)
(* The most a claim may take.                                              *)
(***************************************************************************)

LEMMA MaxIsMax ==
    ASSUME NEW S \in SUBSET Nat, S # {}, IsFiniteSet(S)
    PROVE  Max(S) \in S /\ \A n \in S : n <= Max(S)
<1> DEFINE Higher(k) == {n \in S : n > k}
           Tails == {Higher(k) : k \in S}
<1>1. Tails # {} /\ Tails \subseteq FiniteSubsetsOf(S)
  <2>1. \A k \in S : Higher(k) \in SUBSET S /\ IsFiniteSet(Higher(k))
    BY FS_Subset
  <2> HIDE DEF Higher
  <2> QED
    BY <2>1 DEF FiniteSubsetsOf
<1>2. PICK A \in Tails : \A B \in Tails : ~ (<<B, A>> \in StrictSubsetOrdering(S))
  BY <1>1, FS_StrictSubsetOrderingWellFounded, WFMin, Zenon
<1>3. PICK k \in S : A = Higher(k)
  OBVIOUS
<1>4. ASSUME NEW j \in Higher(k) PROVE FALSE
  <2>1. j \in S /\ j > k /\ j \in Nat /\ k \in Nat
    BY <1>4
  <2>2. ASSUME NEW n \in Higher(j) PROVE n \in Higher(k)
    <3>1. n \in S /\ n > j /\ n \in Nat
      BY <2>2
    <3> QED
      BY <2>1, <3>1
  <2>3. Higher(j) \subseteq Higher(k) /\ j \notin Higher(j)
    <3>1. Higher(j) \subseteq Higher(k)
      BY <2>2
    <3>2. ~(j > j)
      BY <2>1
    <3> QED
      BY <3>1, <3>2
  <2>4. <<Higher(j), Higher(k)>> \in StrictSubsetOrdering(S)
    BY <1>4, <2>3 DEF StrictSubsetOrdering
  <2> QED
    BY <1>2, <1>3, <2>1, <2>4
<1>5. \A n \in S : k >= n
  BY <1>4
<1> HIDE DEF Higher, Tails
<1>6. \E x \in S : \A n \in S : x >= n
  BY <1>5
<1> QED
  BY <1>6 DEF Max

LEMMA MostType ==
    /\ MostMB \in Nat
    /\ ReferralTypeOK => \A u \in Users : DailyCapMB(u) <= MostMB
<1>2. Max(Grants) \in Nat /\ \A n \in Grants : n <= Max(Grants)
  BY MaxIsMax, ReferralAssumption, ConstantTypes
<1>3. MostMB = MaxDailyMB + Max(Grants)
  BY DEF MostMB
<1>5. ASSUME ReferralTypeOK, NEW u \in Users PROVE DailyCapMB(u) <= MostMB
  <2>1. credits[u] \in Nat /\ bonus[u] \in Grants /\ override[u] \in Grants
    BY <1>5 DEF ReferralTypeOK
  <2>2. BaseMB + credits[u] * PerReferralMB \in Nat
    BY <2>1, ConstantTypes
  <2> DEFINE earned == BaseMB + credits[u] * PerReferralMB
             capped == IF earned > MaxDailyMB THEN MaxDailyMB ELSE earned
  <2>3. capped <= MaxDailyMB /\ capped \in Nat
    BY <2>2, ConstantTypes
  <2>4. DailyCapMB(u) = IF override[u] > 0 THEN override[u] ELSE capped + bonus[u]
    BY DEF DailyCapMB
  <2> HIDE DEF capped, earned
  <2>5. /\ override[u] <= Max(Grants) /\ bonus[u] <= Max(Grants)
        /\ override[u] \in Nat /\ bonus[u] \in Nat
    BY <1>2, <2>1, ConstantTypes
  <2> QED
    <3>1. MaxDailyMB \in Nat /\ Max(Grants) \in Nat
      BY <1>2, ConstantTypes
    <3> QED
      BY <1>3, <2>3, <2>4, <2>5, <3>1
<1> QED
  BY <1>2, <1>3, <1>5, ConstantTypes

(***************************************************************************)
(* Budgets.                                                                *)
(***************************************************************************)

BudgetKnown == AmountsBounded /\ BudgetKept

LEMMA Products ==
    /\ \A n \in Int : n * MostMB \in Int /\ (n - 1) * MostMB = n * MostMB - MostMB
    /\ \A n \in Nat : n * MostMB \in Nat
    /\ \A m, n \in Nat : m <= n => m * MostMB <= n * MostMB
<1>1. MostMB \in Nat
  BY MostType
<1> SUFFICES ASSUME NEW M \in Nat
             PROVE  /\ \A n \in Int : n * M \in Int /\ (n - 1) * M = n * M - M
                    /\ \A n \in Nat : n * M \in Nat
                    /\ \A m, n \in Nat : m <= n => m * M <= n * M
  BY <1>1
<1> QED
  OBVIOUS

LEMMA BudgetTypes ==
    /\ Ceiling \in Int /\ Cardinality(Taps) \in Nat
    /\ \A p : /\ IsFiniteSet(InFlight(p)) /\ Cardinality(InFlight(p)) \in Nat
              /\ InFlight(p) \subseteq Taps /\ Cardinality(InFlight(p)) <= Cardinality(Taps)
<1>1. Cardinality(Taps) \in Nat /\ IsFiniteSet(Taps)
  BY TapSubsets
<1>2. Ceiling \in Int
  <2>1. Cardinality(Taps) - 1 \in Int
    BY <1>1
  <2>2. (Cardinality(Taps) - 1) * MostMB \in Int
    BY <2>1, Products
  <2> QED
    BY <2>2, ConstantTypes DEF Ceiling
<1>3. ASSUME NEW p
      PROVE  /\ IsFiniteSet(InFlight(p)) /\ Cardinality(InFlight(p)) \in Nat
             /\ InFlight(p) \subseteq Taps /\ Cardinality(InFlight(p)) <= Cardinality(Taps)
  <2>1. InFlight(p) \subseteq Taps
    BY DEF InFlight
  <2> QED
    BY <1>1, <2>1, TapSubsets, FS_Subset
<1> QED
  BY <1>1, <1>2, <1>3

\* The same, of any set of claims C with the amounts mb: what RoomLeft says.
Room(x, C, mb) ==
    \/ x + Cardinality(C) * MostMB <= Ceiling
    \/ \E t \in C : x + mb[t] + (Cardinality(C) - 1) * MostMB <= Ceiling

Amounts == [t \in Taps |-> tap[t].mb]

LEMMA RoomIs ==
    /\ \A p : RoomLeft(p) <=> Room(used[p], InFlight(p), Amounts)
    /\ \A p : RoomLeft(p)' <=> Room(used'[p], InFlight(p)', Amounts')
BY BudgetTypes DEF RoomLeft, Room, Amounts, InFlight

LEMMA RoomFrame ==
    ASSUME NEW C, IsFiniteSet(C), NEW x \in Nat, NEW y \in Nat, y <= x, NEW mb, NEW nb,
           \A t \in C : mb[t] \in Nat /\ nb[t] = mb[t], Room(x, C, mb)
    PROVE  Room(y, C, nb)
<1>1. Cardinality(C) \in Nat
  BY FS_CardinalityType
<1> DEFINE all == Cardinality(C) * MostMB
           most == (Cardinality(C) - 1) * MostMB
<1>2. all \in Int /\ most \in Int /\ Ceiling \in Int
  BY <1>1, Products, BudgetTypes
<1>3. x + all <= Ceiling \/ \E t \in C : x + mb[t] + most <= Ceiling
  BY DEF Room
<1> HIDE DEF all, most
<1>4. y + all <= Ceiling \/ \E t \in C : y + nb[t] + most <= Ceiling
  <2>1. CASE x + all <= Ceiling
    BY <1>2, <2>1
  <2>2. ASSUME NEW t \in C, x + mb[t] + most <= Ceiling PROVE y + nb[t] + most <= Ceiling
    BY <1>2, <2>2
  <2> QED
    BY <1>3, <2>1, <2>2
<1> QED
  BY <1>4 DEF Room, all, most

\* A claim leaves: it is charged its amount at most.
LEMMA RoomLeave ==
    ASSUME NEW C, IsFiniteSet(C), NEW w \in C, NEW x \in Nat, NEW y \in Nat, NEW mb, NEW nb,
           \A t \in C : mb[t] \in Nat /\ mb[t] <= MostMB,
           \A t \in C \ {w} : nb[t] = mb[t],
           y <= x + mb[w], Room(x, C, mb)
    PROVE  Room(y, C \ {w}, nb)
<1>1. Cardinality(C) \in Nat /\ Cardinality(C \ {w}) = Cardinality(C) - 1
  BY FS_CardinalityType, FS_RemoveElement
<1> DEFINE n == Cardinality(C)
           all == n * MostMB
           most == (n - 1) * MostMB
           less == (n - 1 - 1) * MostMB
<1>2. n - 1 \in Int /\ n \in Int
  BY <1>1
<1>3. /\ all \in Int /\ most = all - MostMB /\ less = most - MostMB
      /\ Ceiling \in Int /\ MostMB \in Nat
  BY <1>2, Products, BudgetTypes, MostType
<1>4. x + all <= Ceiling \/ \E t \in C : x + mb[t] + most <= Ceiling
  BY DEF Room
<1> SUFFICES y + most <= Ceiling \/ \E t \in C \ {w} : y + nb[t] + less <= Ceiling
  BY <1>1 DEF Room
<1> HIDE DEF all, most, less, n
<1>5. mb[w] \in Nat /\ mb[w] <= MostMB
  OBVIOUS
<1>6. CASE x + all <= Ceiling
  BY <1>3, <1>5, <1>6
<1>7. CASE x + mb[w] + most <= Ceiling
  BY <1>3, <1>5, <1>7
<1>8. ASSUME NEW t \in C \ {w}, x + mb[t] + most <= Ceiling PROVE y + nb[t] + less <= Ceiling
  BY <1>3, <1>5, <1>8
<1> QED
  BY <1>4, <1>6, <1>7, <1>8

\* A claim joins: there was room for it.
LEMMA RoomJoin ==
    ASSUME NEW C \in SUBSET Taps, NEW w \in Taps \ C, NEW x \in Nat, NEW mb, mb[w] \in Nat,
           x + mb[w] <= LimitMB
    PROVE  Room(x, C \cup {w}, mb)
<1> DEFINE n == Cardinality(C)
           N == Cardinality(Taps)
<1>1. IsFiniteSet(C) /\ n \in Nat /\ N \in Nat
  BY TapSubsets
<1>2. Cardinality(C \cup {w}) = n + 1
  BY <1>1, FS_AddElement
<1>3. n + 1 <= N
  <2>1. C \cup {w} \in SUBSET Taps /\ IsFiniteSet(Taps)
    BY DayAssumption
  <2> QED
    BY <1>2, <2>1, FS_Subset
<1> HIDE DEF n, N
<1>4. n <= N - 1 /\ N - 1 \in Nat
  BY <1>1, <1>3
<1>5. n * MostMB <= (N - 1) * MostMB /\ n * MostMB \in Nat /\ (N - 1) * MostMB \in Nat
  BY <1>1, <1>4, Products
<1>6. x + mb[w] + n * MostMB <= LimitMB + (N - 1) * MostMB
  BY <1>5, ConstantTypes
<1>7. (n + 1) - 1 = n /\ Ceiling = LimitMB + (N - 1) * MostMB
  BY <1>1 DEF Ceiling, N
<1> QED
  BY <1>2, <1>6, <1>7 DEF Room

\* Room for the claims in flight is room for what is charged already.
LEMMA RoomBounds ==
    ASSUME NEW C, IsFiniteSet(C), NEW x \in Nat, NEW mb, \A t \in C : mb[t] \in Nat, Room(x, C, mb)
    PROVE  x <= Ceiling
<1>1. Cardinality(C) \in Nat /\ (C # {} => Cardinality(C) - 1 \in Nat)
  BY FS_CardinalityType, FS_EmptySet
<1>2. Cardinality(C) * MostMB \in Nat /\ Ceiling \in Int
  BY <1>1, Products, BudgetTypes
<1>3. C # {} => (Cardinality(C) - 1) * MostMB \in Nat
  BY <1>1, Products
<1>4. CASE x + Cardinality(C) * MostMB <= Ceiling
  BY <1>2, <1>4
<1>5. ASSUME NEW t \in C, x + mb[t] + (Cardinality(C) - 1) * MostMB <= Ceiling PROVE x <= Ceiling
  BY <1>2, <1>3, <1>5
<1> QED
  BY <1>4, <1>5 DEF Room

\* What a step of t's update means for the budget of p.
ClaimEffect(t, p) ==
    /\ used'[p] <= used[p] + (IF t \in InFlight(p) THEN tap[t].mb ELSE 0)
    /\ t \in InFlight(p)' =>
          /\ tap'[t].mb = tap[t].mb /\ used'[p] = used[p]
          /\ t \notin InFlight(p) => HasRoom(p, tap[t].mb)

LEMMA TapAmounts ==
    ASSUME TypeOK, NEW t \in Taps, TapStep(t)
    PROVE  tap'[t].mb \in {0, tap[t].mb} \/ \E u \in Users : tap'[t].mb = DailyCapMB(u)
<1>0. tap \in [Taps -> TapLocal] /\ Idle.mb = 0
  BY TypeSplit DEF TapTyped, Idle
<1>1. Return(t) => tap'[t].mb = 0
  BY <1>0 DEF Return
<1>2. ASSUME NEW u \in Users, NEW r \in Users, Register(t, u, r) PROVE tap'[t].mb \in {0, tap[t].mb}
  BY <1>0, <1>2, IdleType DEF Register, TapLocal
<1>3. ASSUME NEW u \in Users, Open(t, u) PROVE tap'[t].mb = DailyCapMB(u)
  BY <1>0, <1>3, IdleType DEF Open, TapLocal
<1>4. CASE SelectPanels(t)
  BY <1>0, <1>1, <1>4 DEF SelectPanels, TapLocal
<1>5. CASE Created(t)
  BY <1>0, <1>5, IdleType DEF Created, TapLocal
<1>6. CASE CreateFails(t)
  BY <1>0, <1>6 DEF CreateFails, TapLocal
<1>7. CASE ReadReferral(t)
  BY <1>0, <1>1, <1>7 DEF ReadReferral, TapLocal
<1>8. CASE RecordInvite(t) \/ CountReferral(t)
  BY <1>0, <1>1, <1>8 DEF RecordInvite, CountReferral, Go, TapLocal
<1> QED
  BY <1>2, <1>3, <1>4, <1>5, <1>6, <1>7, <1>8 DEF TapStep

LEMMA AmountsStep ==
    ASSUME TypeOK, AmountsBounded, NEW t \in Taps, TapStep(t)
    PROVE  AmountsBounded'
<1>1. /\ Others(t)
      /\ tap'[t].mb \in {0, tap[t].mb} \/ \E u \in Users : tap'[t].mb = DailyCapMB(u)
  BY TapSteps, TapAmounts
<1>2. MostMB \in Nat /\ \A u \in Users : DailyCapMB(u) <= MostMB
  BY MostType, TypeSplit
<1>3. tap'[t].mb <= MostMB
  BY <1>1, <1>2 DEF AmountsBounded
<1> QED
  BY <1>1, <1>3 DEF Others, AmountsBounded

LEMMA TapClaims ==
    ASSUME TypeOK, NEW t \in Taps, TapStep(t), NEW p \in Panels
    PROVE  ClaimEffect(t, p)
<1>0. /\ tap \in [Taps -> TapLocal] /\ TapTyped' /\ used \in [Panels -> Nat]
      /\ tap[t].mb \in Nat /\ tap[t].queue \in Seq(Panels)
      /\ tap[t].at = "create" => tap[t].queue # <<>>
  BY TapSteps, TypeSplit, WatchSplit DEF TapTyped, TapLocal, Sound
<1>1. ASSUME used' = used, tap'[t].at # "create" PROVE ClaimEffect(t, p)
  BY <1>0, <1>1 DEF ClaimEffect, InFlight, At
<1>2. Return(t) => tap'[t].at # "create"
  BY <1>0, IdleType DEF Return
<1>3. ASSUME NEW u \in Users, NEW r \in Users, Register(t, u, r) PROVE ClaimEffect(t, p)
  <2>1. used' = used /\ tap'[t].at # "create"
    BY <1>0, <1>3, IdleType DEF Register, Arrives, TapLocal
  <2> QED
    BY <1>1, <2>1
<1>4. ASSUME NEW u \in Users, Open(t, u) PROVE ClaimEffect(t, p)
  <2>1. used' = used /\ tap'[t].at # "create"
    BY <1>0, <1>4, IdleType DEF Open, TapLocal
  <2> QED
    BY <1>1, <2>1
<1>5. CASE SelectPanels(t)
  <2>1. used' = used /\ At(t, "gate") /\ t \notin InFlight(p)
    BY <1>5 DEF SelectPanels, InFlight, At
  <2>2. ASSUME NEW q \in PanelsForVolume(tap[t].mb) \ {<<>>},
               tap' = [tap EXCEPT ![t].at = "create", ![t].queue = q]
        PROVE  ClaimEffect(t, p)
    <3>1. tap'[t].queue = q /\ tap'[t].mb = tap[t].mb
      BY <1>0, <2>2 DEF TapLocal
    <3>2. InQueue(p, q) => HasRoom(p, tap[t].mb)
      BY QueueType DEF InQueue
    <3>3. t \in InFlight(p)' => InQueue(p, q)
      BY <3>1 DEF InFlight, InQueue, At
    <3> QED
      BY <1>0, <2>1, <3>1, <3>2, <3>3 DEF ClaimEffect
  <2> QED
    BY <1>1, <1>2, <1>5, <2>1, <2>2 DEF SelectPanels
<1>6. CASE Created(t)
  <2>1. t \notin InFlight(p)'
    BY <1>0, <1>6, IdleType DEF Created, InFlight, At, TapLocal
  <2>2. At(t, "create")
    BY <1>6 DEF Created
  <2>3. CASE used' = used
    BY <1>0, <2>1, <2>3 DEF ClaimEffect
  <2>4. CASE AddPanelUsage(Head(tap[t].queue), tap[t].mb)
    <3>1. Head(tap[t].queue) = p => t \in InFlight(p)
      <4>1. 1 \in DOMAIN tap[t].queue /\ Head(tap[t].queue) = tap[t].queue[1]
        BY <1>0, <2>2 DEF At
      <4> QED
        BY <2>2, <4>1 DEF InFlight, InQueue
    <3>2. used'[p] = IF Head(tap[t].queue) = p THEN used[p] + tap[t].mb ELSE used[p]
      BY <1>0, <2>4 DEF AddPanelUsage
    <3> QED
      BY <1>0, <2>1, <3>1, <3>2 DEF ClaimEffect
  <2> QED
    BY <1>6, <2>3, <2>4 DEF Created
<1>7. CASE CreateFails(t)
  <2> DEFINE left == Tail(tap[t].queue)
  <2>1. used' = used /\ At(t, "create") /\ tap[t].queue # <<>>
    BY <1>0, <1>7 DEF CreateFails, At
  <2>2. CASE left = <<>>
    <3>1. tap'[t].at # "create"
      BY <1>0, <1>7, <2>2, IdleType DEF CreateFails
    <3> QED
      BY <1>1, <2>1, <3>1
  <2>3. CASE left # <<>>
    <3>1. tap' = [tap EXCEPT ![t] = [@ EXCEPT !.queue = left]]
      BY <1>7, <2>3 DEF CreateFails
    <3>2. tap'[t].queue = left /\ tap'[t].mb = tap[t].mb
      BY <1>0, <3>1 DEF TapLocal
    <3>3. InQueue(p, left) => InQueue(p, tap[t].queue)
      BY <1>0, <2>1 DEF InQueue
    <3>4. t \in InFlight(p)' => t \in InFlight(p)
      <4>1. t \in InFlight(p)' => InQueue(p, tap'[t].queue)
        BY DEF InFlight, InQueue
      <4> QED
        BY <2>1, <3>2, <3>3, <4>1 DEF InFlight
    <3> QED
      BY <1>0, <2>1, <3>2, <3>4 DEF ClaimEffect
  <2> QED
    BY <2>2, <2>3
<1>8. CASE RecordInvite(t) \/ ReadReferral(t) \/ CountReferral(t)
  <2>1. used' = used
    BY <1>8 DEF RecordInvite, ReadReferral, CountReferral
  <2>2. tap'[t].at # "create"
    BY <1>0, <1>2, <1>8 DEF RecordInvite, ReadReferral, CountReferral, Go, TapLocal
  <2> QED
    BY <1>1, <2>1, <2>2
<1> QED
  BY <1>1, <1>3, <1>4, <1>5, <1>6, <1>7, <1>8 DEF TapStep

LEMMA TapBudget ==
    ASSUME TypeOK, BudgetKnown, NEW t \in Taps, TapStep(t)
    PROVE  BudgetKnown'
<1>1. AmountsBounded /\ AmountsBounded' /\ Others(t)
  BY AmountsStep, TapSteps DEF BudgetKnown
<1>2. /\ used \in [Panels -> Nat] /\ used' \in [Panels -> Nat]
      /\ \A s \in Taps : tap[s].mb \in Nat /\ tap'[s].mb \in Nat
  <2>1. TypeOK'
    BY TapType
  <2>2. used \in [Panels -> Nat] /\ tap \in [Taps -> TapLocal]
    BY TypeSplit, WatchSplit DEF TapTyped
  <2>3. used' \in [Panels -> Nat] /\ tap' \in [Taps -> TapLocal]
    BY TapStepEffect, TapSteps DEF TapEffect, TapTyped
  <2> QED
    BY <2>2, <2>3 DEF TapLocal
<1>3. ASSUME LimitMB > 0, NEW p \in Panels PROVE RoomLeft(p)'
  <2> DEFINE C == InFlight(p)
             D == InFlight(p)'
  <2>1. /\ C \subseteq Taps /\ D \subseteq Taps /\ IsFiniteSet(C)
        /\ D \ {t} = C \ {t}
    <3>1. \A s \in Taps \ {t} : s \in D <=> s \in C
      BY <1>1 DEF InFlight, InQueue, At, Others
    <3>2. C \subseteq Taps /\ D \subseteq Taps
      BY DEF InFlight
    <3> QED
      BY <3>1, <3>2, BudgetTypes
  <2>2. Room(used[p], C, Amounts)
    BY <1>3, RoomIs DEF BudgetKnown, BudgetKept
  <2>3. ClaimEffect(t, p)
    BY TapClaims
  <2>4. /\ \A s \in Taps : Amounts[s] = tap[s].mb /\ Amounts'[s] = tap'[s].mb
        /\ \A s \in Taps : Amounts[s] \in Nat /\ Amounts[s] <= MostMB
        /\ \A s \in Taps \ {t} : Amounts'[s] = Amounts[s]
    BY <1>1, <1>2 DEF Amounts, AmountsBounded, Others
  <2>5. /\ used'[p] <= used[p] + (IF t \in C THEN Amounts[t] ELSE 0)
        /\ t \in D => /\ Amounts'[t] = Amounts[t] /\ used'[p] = used[p]
                      /\ t \notin C => HasRoom(p, Amounts'[t])
    BY <2>3, <2>4 DEF ClaimEffect
  <2>6. used[p] \in Nat /\ used'[p] \in Nat
    BY <1>2
  <2> HIDE DEF C, D
  <2>7. CASE t \in D /\ t \notin C
    <3>1. used'[p] + Amounts'[t] <= LimitMB
      BY <1>3, <2>5, <2>7 DEF HasRoom
    <3>2. D = C \cup {t}
      BY <2>1, <2>7
    <3>3. Amounts'[t] \in Nat
      BY <2>4, <2>5, <2>7
    <3>4. Room(used'[p], C \cup {t}, Amounts')
      BY <2>1, <2>6, <2>7, <3>1, <3>3, RoomJoin
    <3> QED
      BY <3>2, <3>4, RoomIs DEF D
  <2>8. CASE t \notin D /\ t \in C
    <3>1. D = C \ {t}
      BY <2>1, <2>8
    <3>2. used'[p] <= used[p] + Amounts[t]
      BY <2>5, <2>8
    <3>3. Room(used'[p], C \ {t}, Amounts')
      BY <2>1, <2>2, <2>4, <2>6, <2>8, <3>2, RoomLeave
    <3> QED
      BY <3>1, <3>3, RoomIs DEF D
  <2>9. CASE t \in D <=> t \in C
    <3>1. D = C
      BY <2>1, <2>9
    <3>2. used'[p] <= used[p]
      BY <2>5, <2>6, <2>9
    <3>3. \A s \in C : Amounts'[s] = Amounts[s] /\ Amounts[s] \in Nat
      BY <2>1, <2>4, <2>5, <3>1
    <3>4. Room(used'[p], C, Amounts')
      BY <2>1, <2>2, <2>6, <3>2, <3>3, RoomFrame
    <3> QED
      BY <3>1, <3>4, RoomIs DEF D
  <2> QED
    BY <2>7, <2>8, <2>9
<1> QED
  BY <1>1, <1>3 DEF BudgetKnown, BudgetKept

\* Nothing else makes a claim, and the reset only frees room.
LEMMA SameBudget ==
    ASSUME TypeOK, BudgetKnown, UNCHANGED tap, used' \in [Panels -> Nat],
           \A p \in Panels : used'[p] <= used[p]
    PROVE  BudgetKnown'
<1>1. AmountsBounded'
  BY DEF BudgetKnown, AmountsBounded
<1>2. used \in [Panels -> Nat] /\ \A s \in Taps : tap[s].mb \in Nat
  BY TypeSplit, WatchSplit DEF TapTyped, TapLocal
<1>3. ASSUME LimitMB > 0, NEW p \in Panels PROVE RoomLeft(p)'
  <2>1. InFlight(p)' = InFlight(p) /\ InFlight(p) \subseteq Taps /\ Amounts' = Amounts
    BY DEF InFlight, InQueue, At, Amounts
  <2>2. Room(used[p], InFlight(p), Amounts)
    BY <1>3, RoomIs DEF BudgetKnown, BudgetKept
  <2>3. \A s \in InFlight(p) : Amounts[s] \in Nat
    BY <1>2, <2>1 DEF Amounts
  <2>4. Room(used'[p], InFlight(p), Amounts')
    BY <1>2, <2>1, <2>2, <2>3, RoomFrame, BudgetTypes
  <2> QED
    BY <2>1, <2>4, RoomIs
<1> QED
  BY <1>1, <1>3 DEF BudgetKnown, BudgetKept

\* Without claims in flight what is charged must fit, and it does.
LEMMA NoClaims ==
    ASSUME NEW x \in Nat, NEW mb, x <= Ceiling
    PROVE  Room(x, {}, mb)
<1>1. Cardinality({}) = 0
  BY FS_EmptySet
<1>2. 0 * MostMB = 0 /\ Ceiling \in Int
  BY MostType, BudgetTypes
<1>3. x + 0 * MostMB <= Ceiling
  BY <1>2
<1> QED
  BY <1>1, <1>3 DEF Room

LEMMA ChargedFits ==
    ASSUME TypeOK, BudgetKept, LimitMB > 0, NEW p \in Panels
    PROVE  used[p] \in Nat /\ used[p] <= Ceiling
<1>1. used[p] \in Nat /\ \A s \in Taps : Amounts[s] \in Nat
  BY TypeSplit, WatchSplit DEF TapTyped, TapLocal, Amounts
<1>2. Room(used[p], InFlight(p), Amounts)
  BY RoomIs DEF BudgetKept
<1> QED
  BY <1>1, <1>2, RoomBounds, BudgetTypes

LEMMA CrashBudget == ASSUME TypeOK, BudgetKnown, Crash PROVE BudgetKnown'
<1>1. used' = used /\ \A t \in Taps : tap'[t] = Idle
  BY DEF Crash
<1>2. AmountsBounded'
  BY <1>1, MostType DEF AmountsBounded, Idle
<1>3. ASSUME LimitMB > 0, NEW p \in Panels PROVE RoomLeft(p)'
  <2>1. InFlight(p)' = {}
    BY <1>1, IdleType DEF InFlight, At
  <2>2. used[p] \in Nat /\ used[p] <= Ceiling
    BY <1>3, ChargedFits DEF BudgetKnown
  <2> QED
    BY <1>1, <2>1, <2>2, NoClaims, RoomIs
<1> QED
  BY <1>2, <1>3 DEF BudgetKnown, BudgetKept

(***************************************************************************)
(* The theorems.                                                           *)
(***************************************************************************)

AllKnown == WatchKnows /\ CreditsInTurn /\ BudgetKnown

LEMMA InvSplit == VolumeInv <=> AllKnown
BY DEF VolumeInv, AllKnown, WatchKnows, CreditsInTurn, CreditsKnown, BudgetKnown

LEMMA InvSplitNext == AllKnown' => VolumeInv'
BY DEF VolumeInv, AllKnown, WatchKnows, CreditsInTurn, CreditsKnown, BudgetKnown

LEMMA InitType == Init => TypeOK
<1> SUFFICES ASSUME Init PROVE TypeOK
  OBVIOUS
<1>1. ReferralTypeOK
  BY ConstantTypes DEF Init, ReferralInit, ReferralTypeOK
<1>2. WatchTypeOK
  <2>1. used \in [Panels -> Nat] /\ hc \in CheckLocal /\ MapsTyped
    BY NoCheckType DEF Init, WatchInit, MapsTyped
  <2> QED
    BY <2>1, WatchSplit
<1>3. TapTyped /\ DayTyped
  BY IdleType, ConstantTypes DEF Init, TapTyped, DayTyped
<1> QED
  BY <1>1, <1>2, <1>3, TypeSplit

LEMMA InitKnown == Init => AllKnown
<1> SUFFICES ASSUME Init PROVE AllKnown
  OBVIOUS
<1>1. \A t \in Taps : tap[t] = Idle /\ tap[t].at = "idle" /\ tap[t].mb = 0 /\ tap[t].user = Nobody
  BY IdleType DEF Init, Idle
<1>2. WatchKnows
  <2>1. /\ hc.at = "idle" /\ healthy = Panels /\ said = [p \in Panels |-> "none"]
        /\ warnings = [p \in Panels |-> 0] /\ warned = {} /\ clears = 0
    BY NoCheckType DEF Init, WatchInit
  <2>2. \A p \in Panels : ~Sending(p) /\ Count(p) = 0
    BY <2>1 DEF Sending, Count
  <2> QED
    BY <2>1, <2>2 DEF WatchKnows, AlertKnows, QuietKnows, WarningsKnown, AlertMatchesHealth
<1>3. CreditsKnown
  <2>1. \A r : Owed(r) = {} /\ PaidTo(r) = {}
    BY <1>1 DEF Owed, At, PaidTo, Init, ReferralInit
  <2>2. \A r \in Users : credits[r] = 0 /\ erased[r] = 0
    BY DEF Init, ReferralInit
  <2>3. RowKept /\ OneEach
    BY <1>1 DEF RowKept, OneEach, At
  <2>4. Cardinality({}) = 0
    BY FS_EmptySet
  <2> QED
    BY <2>1, <2>2, <2>3, <2>4 DEF CreditsKnown, CreditsKept
<1>4. BudgetKnown
  <2>1. AmountsBounded
    BY <1>1, MostType DEF AmountsBounded
  <2>2. ASSUME LimitMB > 0, NEW p \in Panels PROVE RoomLeft(p)
    <3>1. InFlight(p) = {} /\ used[p] = 0
      BY <1>1 DEF InFlight, At, Init, WatchInit
    <3>2. 0 <= Ceiling
      <4> DEFINE N == Cardinality(Taps)
      <4>1. N \in Nat /\ N # 0
        BY DayAssumption, TapSubsets, FS_EmptySet
      <4>2. N - 1 \in Nat
        BY <4>1
      <4>3. (N - 1) * MostMB \in Nat
        BY <4>2, Products
      <4> QED
        BY <4>3, ConstantTypes DEF Ceiling
    <3> QED
      BY <3>1, <3>2, NoClaims, RoomIs
  <2> QED
    BY <2>1, <2>2 DEF BudgetKnown, BudgetKept
<1> QED
  BY <1>2, <1>3, <1>4 DEF AllKnown, CreditsInTurn

LEMMA VolumeInit == Init => TypeOK /\ VolumeInv
BY InitType, InitKnown, InvSplit

\* The steps that leave the health check's memory alone.
LEMMA SameWatch == ASSUME WatchKnows, UNCHANGED watchVars PROVE WatchKnows'
BY DEF WatchKnows, AlertKnows, QuietKnows, AlertMatchesHealth, WarningsKnown, Sending, Count

LEMMA DayFrame ==
    ASSUME TypeOK, ReferralTypeOK', UNCHANGED <<used, watchVars, tap, job, tday, scene>>,
           lastClaim' \in [Users -> Days \cup {-1}], claims' \in [Days -> SUBSET Users]
    PROVE  TypeOK'
<1>1. WatchTypeOK' /\ TapTyped' /\ DayTyped'
  BY TypeSplit DEF WatchTypeOK, TapTyped, DayTyped
<1> QED
  BY <1>1, TypeSplitNext

LEMMA VolumeStep == TypeOK /\ VolumeInv /\ [Next]_vars => TypeOK' /\ VolumeInv'
<1> SUFFICES ASSUME TypeOK, AllKnown, [Next]_vars PROVE TypeOK' /\ AllKnown'
  BY InvSplit, InvSplitNext
<1>0. /\ WatchKnows /\ CreditsInTurn /\ BudgetKnown
      /\ ReferralTypeOK /\ WatchTypeOK /\ used \in [Panels -> Nat]
      /\ lastClaim \in [Users -> Days \cup {-1}] /\ claims \in [Days -> SUBSET Users]
  BY TypeSplit, WatchSplit DEF AllKnown, DayTyped
<1>1. ASSUME NEW t \in Taps, TapStep(t) PROVE TypeOK' /\ AllKnown'
  <2>1. TypeOK' /\ CreditsInTurn' /\ BudgetKnown'
    BY <1>0, <1>1, TapType, TapCredits, TapBudget
  <2>2. UNCHANGED watchVars
    BY <1>1, TapStepEffect DEF TapEffect
  <2> QED
    BY <1>0, <2>1, <2>2, SameWatch DEF AllKnown
<1>2. ASSUME NEW u \in Users, DeleteUserFull(u) PROVE TypeOK' /\ AllKnown'
  <2>1. /\ DeleteUserRows(u) /\ UNCHANGED <<used, watchVars, tap, job, tday, scene>>
        /\ lastClaim' = [lastClaim EXCEPT ![u] = -1] /\ claims' = [d \in Days |-> claims[d] \ {u}]
    BY <1>2 DEF DeleteUserFull
  <2>2. ReferralTypeOK'
    BY <1>0, <2>1, RowSteps, ConstantTypes
  <2>3. lastClaim' \in [Users -> Days \cup {-1}] /\ claims' \in [Days -> SUBSET Users]
    BY <1>0, <2>1
  <2>4. TypeOK'
    BY <2>1, <2>2, <2>3, DayFrame
  <2>5. CreditsInTurn' /\ WatchKnows'
    <3>1. InTurn' = InTurn
      BY <2>1 DEF InTurn
    <3> QED
      BY <1>0, <2>1, <3>1, DeleteCredits, SameWatch DEF CreditsInTurn
  <2>6. BudgetKnown'
    BY <1>0, <2>1, SameBudget
  <2> QED
    BY <2>4, <2>5, <2>6 DEF AllKnown
<1>3. ASSUME NEW u \in Users, NEW n \in Grants, Grant(u, n) PROVE TypeOK' /\ AllKnown'
  <2>1. SetGrant(u, n) /\ UNCHANGED <<used, watchVars, dayVars>> /\ UNCHANGED CreditRows
    BY <1>3 DEF Grant, SetGrant, CreditRows
  <2>2. ReferralTypeOK'
    BY <1>0, <2>1, RowSteps, ConstantTypes
  <2>3. TypeOK'
    BY <1>0, <2>1, <2>2, DayFrame
  <2>4. BudgetKnown'
    BY <1>0, <2>1, SameBudget
  <2> QED
    BY <1>0, <2>1, <2>3, <2>4, SameCredits, SameWatch DEF AllKnown
<1>4. CASE HealthCheck
  <2>1. CheckStep /\ UNCHANGED <<userRows, inviteRows, dayVars>> /\ UNCHANGED used
    BY <1>0, <1>4, CheckStepEffect DEF HealthCheck
  <2>2. WatchTypeOK' /\ ReferralTypeOK' /\ TapTyped' /\ DayTyped'
    BY <1>0, <2>1, CheckType, TypeSplit DEF ReferralTypeOK, TapTyped, DayTyped
  <2>3. WatchKnows'
    BY <1>0, <2>1, AlertStep, QuietStep, WarningsStep DEF WatchKnows
  <2>4. CreditsInTurn' /\ BudgetKnown'
    BY <1>0, <2>1, SameCredits, SameBudget DEF CreditRows
  <2> QED
    BY <2>2, <2>3, <2>4, TypeSplitNext DEF AllKnown
<1>5. CASE JobStep
  <2>1. TypeOK' /\ WatchKnows'
    BY <1>0, <1>5, JobType, JobWatch
  <2>2. UNCHANGED <<tap, scene>> /\ UNCHANGED CreditRows /\ (UNCHANGED used \/ ResetPanelUsage)
    BY <1>5 DEF JobStep, NewDay, SendDailyReport, Reset, ClearWarnings, CreditRows
  <2>3. used' \in [Panels -> Nat] /\ \A p \in Panels : used'[p] <= used[p]
    BY <1>0, <2>2 DEF ResetPanelUsage
  <2>4. CreditsInTurn' /\ BudgetKnown'
    BY <1>0, <2>2, <2>3, SameCredits, SameBudget
  <2> QED
    BY <2>1, <2>4 DEF AllKnown
<1>6. CASE Crash
  BY <1>0, <1>6, CrashType, CrashWatch, CrashCredits, CrashBudget DEF AllKnown
<1>7. CASE UNCHANGED vars
  <2>1. UNCHANGED <<CreditRows, tap, scene>> /\ UNCHANGED watchVars /\ UNCHANGED used
    BY <1>7 DEF CreditRows
  <2>2. TypeOK'
    BY <1>7 DEF TypeOK, ReferralTypeOK, WatchTypeOK
  <2>3. BudgetKnown'
    BY <1>0, <2>1, SameBudget
  <2> QED
    BY <1>0, <2>1, <2>2, <2>3, SameCredits, SameWatch DEF AllKnown
<1> QED
  BY <1>1, <1>2, <1>3, <1>4, <1>5, <1>6, <1>7 DEF Next, JobStep

\* TypeOK: rows, budgets, the locals of updates and of the health check keep their
\* shapes; in particular a claim that creates has a panel left to try.
THEOREM VolumeTypeCorrect == Spec => []TypeOK
BY VolumeInit, VolumeStep, PTL DEF Spec

\* VolumeInv: the inductive invariant of the day holds in every reachable state, for any
\* number of updates at once, of one user or of many; its part about credits where a
\* user's updates come in turn.
THEOREM VolumeInvariant == Spec => []VolumeInv
BY VolumeInit, VolumeStep, PTL DEF Spec

\* OvershootBounded: a panel's budget is exceeded by what every other update under way
\* may charge, of the same user or of another, and by no more, however choices, creates,
\* confirms, grants and resets interleave.
THEOREM BudgetsBounded == Spec => []OvershootBounded
<1>1. TypeOK /\ VolumeInv => OvershootBounded
  <2> SUFFICES ASSUME TypeOK, VolumeInv, LimitMB > 0, NEW p \in Panels
               PROVE  used[p] <= LimitMB + (Cardinality(Taps) - 1) * MostMB
    BY DEF OvershootBounded
  <2> QED
    BY ChargedFits DEF VolumeInv, Ceiling
<1> QED
  BY <1>1, VolumeTypeCorrect, VolumeInvariant, PTL

\* CreditsBacked: where a user's updates come in turn, an inviter has no more credits
\* than referees that were counted, rows deleted since included, though the mark and the
\* credit are separate statements and either may fail.
THEOREM CreditsAlwaysBacked == Spec => []CreditsBacked
<1>1. TypeOK /\ VolumeInv => CreditsBacked
  <2> SUFFICES ASSUME TypeOK, VolumeInv, InTurn, NEW r \in Users
               PROVE  credits[r] <= Cardinality(PaidTo(r)) + erased[r]
    BY DEF CreditsBacked
  <2>1. /\ credits[r] \in Nat /\ erased[r] \in Nat /\ Cardinality(PaidTo(r)) \in Nat
        /\ Cardinality(Owed(r)) \in Nat
    BY TypeSplit, CreditTypes, PaidFinite, SetsFinite
  <2>2. credits[r] + Cardinality(Owed(r)) <= Cardinality(PaidTo(r)) + erased[r]
    BY DEF VolumeInv, CreditsKept
  <2> QED
    BY <2>1, <2>2
<1> QED
  BY <1>1, VolumeTypeCorrect, VolumeInvariant, PTL

\* AlertMatchesHealth: the administrators' last word on a panel is its last known health,
\* if it arrived and no restart has come since; an alert of a change is never overtaken.
THEOREM AlertsMatch == Spec => []AlertMatchesHealth
<1>1. VolumeInv => AlertMatchesHealth
  BY DEF VolumeInv
<1> QED
  BY <1>1, VolumeInvariant, PTL

\* WarnedOncePerClear: of a panel there is one warning a day and one more for each time
\* the map was emptied that day, by the midnight job or by a restart, and none besides,
\* though the check reads and writes the map in two separate sections.
THEOREM WarningsCounted == Spec => []WarnedOncePerClear
<1>1. TypeOK /\ VolumeInv => WarnedOncePerClear
  <2> SUFFICES ASSUME TypeOK, VolumeInv, NEW p \in Panels PROVE warnings[p] <= 1 + clears
    BY DEF WarnedOncePerClear
  <2>1. /\ warnings[p] \in Nat /\ clears \in Nat
        /\ Count(p) <= clears + (IF p \in warned THEN 1 ELSE 0)
    BY TypeSplit, WatchSplit DEF MapsTyped, VolumeInv, WarningsKnown
  <2> QED
    BY <2>1 DEF Count
<1> QED
  BY <1>1, VolumeTypeCorrect, VolumeInvariant, PTL
=============================================================================
