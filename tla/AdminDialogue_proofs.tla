-------------------------- MODULE AdminDialogue_proofs --------------------------
(***************************************************************************)
(* What the dialogues guarantee for any number of administrators, updates, *)
(* dialogues and references.                                               *)
(***************************************************************************)
EXTENDS DialogueInv, TLAPS

USE DEF vars

(***************************************************************************)
(* The locals of goroutines.                                               *)
(***************************************************************************)

Steps == {"idle", "fill", "read", "role", "act", "look", "rest", "turn", "clear"}

Local(n) == [at : Steps, who : People, d : 0 .. n, text : Texts, dead : SUBSET (1 .. n)]

LEMMA UpType == TypeOK => up \in [Updates -> Local(Len(dlg))] /\ Len(dlg) \in Nat
BY DEF TypeOK, Local, Steps

LEMMA IdleType == \A n \in Nat : Idle \in Local(n)
BY DialogueAssumption DEF Idle, Local, Steps, Texts

LEMMA LocalGrows == ASSUME NEW m \in Nat, NEW n \in Nat, m <= n PROVE Local(m) \subseteq Local(n)
<1>1. 0 .. m \subseteq 0 .. n /\ 1 .. m \subseteq 1 .. n
  OBVIOUS
<1> QED
  BY <1>1 DEF Local

Moves(s) == \A k \in Updates \ {s} : up'[k] = up[k]

LEMMA GoLocals ==
    ASSUME TypeOK, NEW s \in Updates, NEW place \in Steps, Go(s, place)
    PROVE  /\ Moves(s) /\ up' \in [Updates -> Local(Len(dlg))]
           /\ up'[s].at = place /\ up'[s].who = up[s].who /\ up'[s].d = up[s].d
           /\ up'[s].text = up[s].text /\ up'[s].dead = up[s].dead
BY UpType DEF Go, Moves, Local

LEMMA ReturnLocals ==
    ASSUME TypeOK, NEW s \in Updates, Return(s)
    PROVE  /\ Moves(s) /\ up' \in [Updates -> Local(Len(dlg))]
           /\ up'[s].at = "idle" /\ up'[s].dead = {}
<1>1. Idle \in Local(Len(dlg)) /\ Idle.at = "idle" /\ Idle.dead = {}
  BY UpType, IdleType DEF Idle
<1>2. up' = [up EXCEPT ![s] = Idle]
  BY DEF Return
<1> QED
  BY <1>1, <1>2, UpType DEF Moves

LEMMA TapRecord ==
    ASSUME NEW n \in Nat, NEW a \in People
    PROVE  LET r == [Idle EXCEPT !.at = "fill", !.who = a, !.d = n + 1] IN
           r \in Local(n + 1) /\ r.at = "fill" /\ r.who = a /\ r.d = n + 1 /\ r.dead = {}
<1>0. n + 1 \in Nat
  OBVIOUS
<1>1. Idle \in Local(n + 1)
  BY <1>0, IdleType
<1>2. Idle.dead = {} /\ n + 1 \in 0 .. n + 1
  BY DEF Idle
<1> QED
  BY <1>1, <1>2 DEF Local, Steps

LEMMA TapLocals ==
    ASSUME TypeOK, NEW s \in Updates, NEW a \in People, NEW action \in Actions,
           NEW item \in Items \cup {Unset}, Tap(s, a, action, item)
    PROVE  /\ Moves(s) /\ up' \in [Updates -> Local(Len(dlg) + 1)]
           /\ up'[s].at = "fill" /\ up'[s].who = a /\ up'[s].d = Len(dlg) + 1
           /\ up'[s].dead = {}
<1> DEFINE r == [Idle EXCEPT !.at = "fill", !.who = a, !.d = Len(dlg) + 1]
<1>0. Len(dlg) \in Nat
  BY UpType
<1>1. r \in Local(Len(dlg) + 1) /\ r.at = "fill" /\ r.who = a /\ r.d = Len(dlg) + 1 /\ r.dead = {}
  BY <1>0, TapRecord
<1>2. up' = [up EXCEPT ![s] = r]
  BY DEF Tap
<1> HIDE DEF r
<1>3. up \in [Updates -> Local(Len(dlg) + 1)]
  BY UpType, LocalGrows
<1> QED
  BY <1>1, <1>2, <1>3 DEF Moves

LEMMA ArriveLocals ==
    ASSUME TypeOK, NEW s \in Updates, NEW a \in People, NEW text \in Texts, Arrive(s, a, text)
    PROVE  /\ Moves(s) /\ up' \in [Updates -> Local(Len(dlg))]
           /\ up'[s].at = "read" /\ up'[s].dead = over
<1> DEFINE r == [Idle EXCEPT !.at = "read", !.who = a, !.text = text, !.dead = over]
<1>0. over \subseteq 1 .. Len(dlg)
  BY DEF TypeOK
<1>1. r \in Local(Len(dlg)) /\ r.at = "read" /\ r.dead = over
  BY <1>0, UpType, IdleType DEF Local, Steps, Idle
<1>2. up' = [up EXCEPT ![s] = r]
  BY DEF Arrive
<1> HIDE DEF r
<1> QED
  BY <1>1, <1>2, UpType DEF Moves

LEMMA ReadLocals ==
    ASSUME TypeOK, NEW s \in Updates, ReadState(s)
    PROVE  /\ Moves(s) /\ up' \in [Updates -> Local(Len(dlg))]
           /\ \/ /\ up'[s].at = "role" /\ up'[s].who = up[s].who /\ up'[s].dead = up[s].dead
                 /\ up'[s].d = state[Who(s)] /\ state[Who(s)] # 0
              \/ up'[s].at = "idle" /\ up'[s].dead = {}
<1>1. CASE Return(s)
  BY <1>1, ReturnLocals
<1>2. CASE state[Who(s)] # 0 /\ up' = [up EXCEPT ![s].at = "role", ![s].d = state[Who(s)]]
  <2>1. state[Who(s)] \in 0 .. Len(dlg)
    BY UpType DEF TypeOK, Local, Who
  <2> QED
    BY <1>2, <2>1, UpType DEF Moves, Local, Steps
<1> QED
  BY <1>1, <1>2 DEF ReadState

(***************************************************************************)
(* The dialogues: steps add to what a form holds, and keep what it is for. *)
(***************************************************************************)

Keeps(x, r) ==
    /\ r.action = x.action /\ r.asked = x.asked /\ x.found \subseteq r.found
    /\ x.head # Unset => r.head # Unset
    /\ x.rest # Unset => r.rest # Unset

Rewrites(s, r) == dlg' = [dlg EXCEPT ![up[s].d] = r]

LEMMA RewriteEffect ==
    ASSUME TypeOK, NEW d \in Opened, NEW r \in Made, dlg' = [dlg EXCEPT ![d] = r]
    PROVE  /\ dlg' \in Seq(Made) /\ Len(dlg') = Len(dlg)
           /\ dlg'[d] = r /\ \A e \in Opened \ {d} : dlg'[e] = dlg[e]
BY DEF TypeOK, Opened

LEMMA AppendEffect ==
    ASSUME TypeOK, NEW r \in Made, dlg' = Append(dlg, r)
    PROVE  /\ dlg' \in Seq(Made) /\ Len(dlg') = Len(dlg) + 1
           /\ dlg'[Len(dlg) + 1] = r /\ \A e \in Opened : dlg'[e] = dlg[e]
BY DEF TypeOK, Opened

\* The form after each of the steps that write to it.
LEMMA FormSteps ==
    ASSUME TypeOK, DataKnown, LookupKnown, NEW s \in Updates,
           Fill(s) \/ Found(s) \/ FoundRest(s) \/ SecondAnswer(s)
    PROVE  \/ dlg' = dlg
           \/ \E r \in Made : /\ Rewrites(s, r) /\ Keeps(Dlg(s), r) /\ DataOf(r)
                              /\ At(s, "look") => up[s].text \in r.found /\ r.head = up[s].text
                              /\ At(s, "rest") => r.rest = up[s].text
<1> DEFINE x == Dlg(s)  t == up[s].text  d == up[s].d
<1>1. d \in Opened /\ x \in Made /\ DataOf(x) /\ x = dlg[d] /\ dlg \in Seq(Made)
  <2>1. ~At(s, "idle") /\ ~At(s, "read")
    BY DEF Fill, Found, FoundRest, SecondAnswer, Answers, At
  <2>2. d \in Opened
    BY <2>1, Zenon DEF LookupKnown
  <2> QED
    BY <2>2 DEF DataKnown, Dlg, TypeOK, Opened
<1>2. Unset \notin Refs \cup Numbers /\ 0 \in Numbers
  BY DialogueAssumption DEF Numbers
<1>3. CASE Fill(s)
  <2>1. At(s, "fill")
    BY <1>3 DEF Fill
  <2>2. CASE dlg' = [dlg EXCEPT ![d].step = 1]
    <3>1. [x EXCEPT !.step = 1] \in Made
      BY <1>1 DEF Made
    <3>2. DataOf([x EXCEPT !.step = 1]) /\ Keeps(x, [x EXCEPT !.step = 1])
      BY <1>1 DEF Made, DataOf, Second, Keeps
    <3>3. Rewrites(s, [x EXCEPT !.step = 1])
      BY <1>1, <2>2 DEF Rewrites
    <3> QED
      BY <2>1, <3>1, <3>2, <3>3 DEF At
  <2>3. CASE dlg' = [dlg EXCEPT ![d].item = x.asked]
    <3>1. [x EXCEPT !.item = x.asked] \in Made
      BY <1>1 DEF Made
    <3>2. DataOf([x EXCEPT !.item = x.asked]) /\ Keeps(x, [x EXCEPT !.item = x.asked])
      BY <1>1 DEF Made, DataOf, Second, Keeps
    <3>3. Rewrites(s, [x EXCEPT !.item = x.asked])
      BY <1>1, <2>3 DEF Rewrites
    <3> QED
      BY <2>1, <3>1, <3>2, <3>3 DEF At
  <2> QED
    BY <1>3, <2>2, <2>3 DEF Fill
<1>4. CASE Found(s)
  <2>1. At(s, "look") /\ t \in Refs
    BY <1>4 DEF Found, LookupKnown, At
  <2>2. CASE dlg' = [dlg EXCEPT ![d].head = t, ![d].found = @ \cup {t}]
    <3> DEFINE r == [x EXCEPT !.head = t, !.found = @ \cup {t}]
    <3>1. r \in Made /\ r.found = x.found \cup {t} /\ r.head = t
      BY <1>1, <2>1 DEF Made
    <3>2. DataOf(r) /\ Keeps(x, r)
      BY <1>1, <1>2, <2>1 DEF Made, DataOf, Second, Keeps
    <3>3. Rewrites(s, r)
      BY <1>1, <2>2 DEF Rewrites
    <3> QED
      BY <2>1, <3>1, <3>2, <3>3 DEF At
  <2> QED
    BY <1>4, <2>2 DEF Found
<1>5. CASE FoundRest(s) /\ At(s, "rest")
  <2>1. t \in Refs /\ t \in x.found /\ dlg' = [dlg EXCEPT ![d].rest = t]
    BY <1>5 DEF FoundRest, LookupKnown, At
  <2> DEFINE r == [x EXCEPT !.rest = t]
  <2>2. r \in Made /\ r.rest = t
    BY <1>1, <2>1 DEF Made
  <2>3. DataOf(r) /\ Keeps(x, r)
    BY <1>1, <1>2, <2>1 DEF Made, DataOf, Second, Keeps
  <2>4. Rewrites(s, r)
    BY <1>1, <2>1 DEF Rewrites
  <2> QED
    BY <1>5, <2>2, <2>3, <2>4 DEF At
<1>6. CASE FoundRest(s) /\ At(s, "turn")
  <2>1. x.head # Unset /\ x.rest # Unset /\ dlg' = [dlg EXCEPT ![d].step = 2]
    BY <1>6 DEF FoundRest, LookupKnown, At
  <2> DEFINE r == [x EXCEPT !.step = 2]
  <2>2. r \in Made
    BY <1>1 DEF Made
  <2>3. DataOf(r) /\ Keeps(x, r)
    BY <1>1, <2>1 DEF Made, DataOf, Second, Keeps
  <2>4. Rewrites(s, r)
    BY <1>1, <2>1 DEF Rewrites
  <2> QED
    BY <1>6, <2>2, <2>3, <2>4 DEF At
<1>7. CASE SecondAnswer(s)
  <2>1. At(s, "act") /\ x.action \in Forms /\ x.step = 2 /\ t \in Wanted(x)
    BY <1>7 DEF SecondAnswer, Answers
  <2>2. Wanted(x) = IF x.action = "add_panel" THEN Refs ELSE Numbers
    BY <2>1 DEF Wanted, Forms
  <2>3. CASE dlg' = [dlg EXCEPT ![d].more = t, ![d].step = 3]
    <3> DEFINE r == [x EXCEPT !.more = t, !.step = 3]
    <3>0. t \in Refs \cup Numbers \cup {Unset}
      BY <2>1, <2>2
    <3> DEFINE y == [x EXCEPT !.more = t]
    <3>1. y \in Made /\ r = [y EXCEPT !.step = 3]
      BY <1>1, <3>0 DEF Made
    <3>1a. r \in Made
      <4> HIDE DEF y, r
      <4> QED
        BY <3>1 DEF Made
    <3>2. DataOf(r) /\ Keeps(x, r)
      BY <1>1, <1>2, <2>1, <2>2 DEF Made, DataOf, Second, Keeps
    <3>3. Rewrites(s, r)
      BY <1>1, <2>3 DEF Rewrites
    <3> QED
      BY <2>1, <3>1a, <3>2, <3>3 DEF At
  <2> QED
    BY <1>7, <2>3 DEF SecondAnswer
<1> QED
  BY <1>3, <1>4, <1>5, <1>6, <1>7 DEF FoundRest

Opens(s) ==
    \E a \in People, action \in Actions, item \in Items \cup {Unset} : Tap(s, a, action, item)

LEMMA BlankData ==
    ASSUME NEW action \in Actions, NEW item \in Items \cup {Unset}
    PROVE  Blank(action, item) \in Made /\ DataOf(Blank(action, item))
           /\ Blank(action, item).asked = item
BY DEF Blank, Made, DataOf, Second

\* Every step leaves the dialogues there are, and what they are for.
DlgEffect ==
    /\ dlg' \in Seq(Made) /\ Len(dlg) <= Len(dlg')
    /\ \A d \in Opened : Keeps(dlg[d], dlg'[d])
    /\ DataKnown'

LEMMA SameDlg ==
    ASSUME TypeOK, DataKnown, dlg' = dlg
    PROVE  DlgEffect
BY DEF DlgEffect, TypeOK, DataKnown, Keeps, Opened

LEMMA RewriteDlg ==
    ASSUME TypeOK, DataKnown, NEW d \in Opened, NEW r \in Made, Keeps(dlg[d], r), DataOf(r),
           dlg' = [dlg EXCEPT ![d] = r]
    PROVE  DlgEffect
<1>1. /\ dlg' \in Seq(Made) /\ Len(dlg') = Len(dlg)
      /\ dlg'[d] = r /\ \A e \in Opened \ {d} : dlg'[e] = dlg[e]
  BY RewriteEffect
<1>2. \A e \in Opened : Keeps(dlg[e], dlg'[e])
  BY <1>1 DEF Keeps
<1>3. Opened' = Opened
  BY <1>1 DEF Opened
<1>4. \A e \in Opened : DataOf(dlg'[e])
  BY <1>1, Zenon DEF DataKnown
<1>5. DataKnown'
  BY <1>3, <1>4 DEF DataKnown, DataOf, Second
<1>6. Len(dlg) <= Len(dlg')
  BY <1>1, UpType
<1> QED
  BY <1>1, <1>2, <1>5, <1>6 DEF DlgEffect

LEMMA AppendDlg ==
    ASSUME TypeOK, DataKnown, NEW r \in Made, DataOf(r), dlg' = Append(dlg, r)
    PROVE  DlgEffect
<1>1. /\ dlg' \in Seq(Made) /\ Len(dlg') = Len(dlg) + 1
      /\ dlg'[Len(dlg) + 1] = r /\ \A e \in Opened : dlg'[e] = dlg[e]
  BY AppendEffect
<1>2. \A e \in Opened : Keeps(dlg[e], dlg'[e])
  BY <1>1 DEF Keeps
<1>3. Opened' = Opened \cup {Len(dlg) + 1} /\ Len(dlg) <= Len(dlg')
  BY <1>1, UpType DEF Opened
<1>4. \A e \in Opened : DataOf(dlg'[e])
  BY <1>1, Zenon DEF DataKnown
<1>5. DataKnown'
  <2>1. \A e \in Opened' : DataOf(dlg'[e])
    BY <1>1, <1>3, <1>4
  <2> QED
    BY <2>1 DEF DataKnown, DataOf, Second
<1> QED
  BY <1>1, <1>2, <1>3, <1>5 DEF DlgEffect

LEMMA StepDlg ==
    ASSUME TypeOK, DataKnown, LookupKnown, [Next]_vars
    PROVE  DlgEffect
<1>1. ASSUME NEW s \in Updates, UpdateStep(s) PROVE DlgEffect
  <2>1. ASSUME NEW a \in People, NEW action \in Actions, NEW item \in Items \cup {Unset},
               Tap(s, a, action, item)
        PROVE  DlgEffect
    <3>1. dlg' = Append(dlg, Blank(action, item))
      BY <2>1 DEF Tap
    <3> QED
      BY <3>1, AppendDlg, BlankData
  <2>2. ASSUME Fill(s) \/ Found(s) \/ FoundRest(s) \/ SecondAnswer(s) PROVE DlgEffect
    <3>1. ~At(s, "idle") /\ ~At(s, "read")
      BY <2>2 DEF Fill, Found, FoundRest, SecondAnswer, Answers, At
    <3>2. up[s].d \in Opened
      BY <3>1, Zenon DEF LookupKnown
    <3>3. ASSUME NEW r \in Made, Rewrites(s, r), Keeps(Dlg(s), r), DataOf(r) PROVE DlgEffect
      BY <3>2, <3>3, RewriteDlg DEF Rewrites, Dlg
    <3> QED
      BY <2>2, <3>3, FormSteps, SameDlg, Zenon
  <2>3. dlg' = dlg => DlgEffect
    BY SameDlg
  <2> QED
    BY <1>1, <2>1, <2>2, <2>3, Zenon
    DEF UpdateStep, Arrive, AddAdmin, ReadState, CheckRole, Refuse, LookUp, Save, SetNumber, Clear
<1>2. (\E a \in People : Cancel(a) \/ RemoveAdmin(a)) \/ Crash \/ UNCHANGED vars => dlg' = dlg
  BY Zenon DEF Cancel, RemoveAdmin, Crash
<1> QED
  BY <1>1, <1>2, SameDlg, Zenon DEF Next

\* The locals of a goroutine change with its own steps and with a crash.
LEMMA StepLocals ==
    ASSUME TypeOK, NEW s \in Updates, UpdateStep(s)
    PROVE  /\ Moves(s)
           /\ \/ up' \in [Updates -> Local(Len(dlg))]
              \/ Opens(s) /\ up' \in [Updates -> Local(Len(dlg) + 1)]
<1>1. ASSUME NEW a \in People, NEW action \in Actions, NEW item \in Items \cup {Unset},
             Tap(s, a, action, item)
      PROVE  Moves(s) /\ Opens(s) /\ up' \in [Updates -> Local(Len(dlg) + 1)]
  BY <1>1, TapLocals DEF Opens
<1>2. ASSUME NEW a \in People, NEW text \in Texts, Arrive(s, a, text)
      PROVE  Moves(s) /\ up' \in [Updates -> Local(Len(dlg))]
  BY <1>2, ArriveLocals
<1>3. ASSUME Return(s) PROVE Moves(s) /\ up' \in [Updates -> Local(Len(dlg))]
  BY <1>3, ReturnLocals
<1>4. ASSUME NEW place \in Steps, Go(s, place)
      PROVE  Moves(s) /\ up' \in [Updates -> Local(Len(dlg))]
  BY <1>4, GoLocals
<1>5. {"act", "look", "rest", "turn", "clear"} \subseteq Steps
  BY DEF Steps
<1>6. CASE ReadState(s)
  BY <1>6, ReadLocals
<1>7. CASE \/ Fill(s) \/ CheckRole(s) \/ Refuse(s) \/ LookUp(s) \/ Found(s) \/ FoundRest(s)
           \/ SecondAnswer(s) \/ Save(s) \/ SetNumber(s) \/ Clear(s) \/ \E a \in People : AddAdmin(s, a)
  <2>1. Return(s) \/ Go(s, "act") \/ Go(s, "look") \/ Go(s, "rest") \/ Go(s, "turn") \/ Go(s, "clear")
    BY <1>7, Zenon DEF Fill, CheckRole, Refuse, LookUp, Found, FoundRest, SecondAnswer, Save,
       SetNumber, Clear, AddAdmin
  <2> QED
    BY <1>3, <1>4, <1>5, <2>1
<1> QED
  BY <1>1, <1>2, <1>6, <1>7, Zenon DEF UpdateStep

LEMMA LocalsEffect ==
    ASSUME TypeOK, [Next]_vars, NEW k \in Updates
    PROVE  up'[k] = up[k] \/ UpdateStep(k) \/ (up'[k].at = "idle" /\ up'[k].dead = {})
<1>1. ASSUME NEW s \in Updates, UpdateStep(s) PROVE up'[k] = up[k] \/ UpdateStep(k)
  BY <1>1, StepLocals DEF Moves
<1>2. CASE Crash
  BY <1>2 DEF Crash, Idle
<1>3. (\E a \in People : Cancel(a) \/ RemoveAdmin(a)) \/ UNCHANGED vars => up' = up
  BY Zenon DEF Cancel, RemoveAdmin
<1> QED
  BY <1>1, <1>2, <1>3, Zenon DEF Next

(***************************************************************************)
(* Type correctness.                                                       *)
(***************************************************************************)

SavedType ==
    /\ saved \subseteq Made
    /\ \A x \in saved : x.more \in (IF x.action = "add_panel" THEN Refs ELSE Numbers) \cup {Unset}

NextType ==
    /\ admins' \subseteq People
    /\ SavedType'
    /\ state' \in [People -> 0 .. Len(dlg')]
    /\ changed' \subseteq (1 .. Len(dlg')) \X Items /\ over' \subseteq 1 .. Len(dlg')

LEMMA TypeJoin == dlg' \in Seq(Made) /\ NextType /\ up' \in [Updates -> Local(Len(dlg'))] => TypeOK'
BY DEF NextType, SavedType, TypeOK, Local, Steps

\* What a step may do to everything but the dialogues and the goroutines.
LEMMA StepOthers ==
    ASSUME TypeOK, DataKnown, LookupKnown, [Next]_vars, DlgEffect
    PROVE  NextType
<1> DEFINE n == Len(dlg)  m == Len(dlg')
<1>0. /\ n \in Nat /\ m \in Nat /\ n <= m
      /\ admins \subseteq People /\ SavedType
      /\ state \in [People -> 0 .. n]
      /\ changed \subseteq (1 .. n) \X Items /\ over \subseteq 1 .. n
  BY UpType DEF TypeOK, SavedType, DlgEffect
<1>1. state \in [People -> 0 .. m] /\ changed \subseteq (1 .. m) \X Items /\ over \subseteq 1 .. m
  BY <1>0
<1>2. UNCHANGED saved => SavedType'
  BY <1>0 DEF SavedType
<1>3. ASSUME NEW a \in People, Close(a)
      PROVE  state' \in [People -> 0 .. m] /\ over' \subseteq 1 .. m
  <2>1. state[a] \in 0 .. m /\ 0 \in 0 .. m
    BY <1>0, <1>1
  <2> HIDE DEF n, m
  <2>2. state' = [state EXCEPT ![a] = 0] /\ over' = over \cup ({state[a]} \ {0})
    BY <1>3 DEF Close, ClearState
  <2>3. {state[a]} \ {0} \subseteq 1 .. m
    BY <1>0, <2>1
  <2> QED
    BY <1>1, <2>1, <2>2, <2>3
<1>4. ASSUME NEW s \in Updates, UpdateStep(s) PROVE NextType
  <2>1. ~At(s, "idle") /\ ~At(s, "read") => up[s].d \in Opened /\ Dlg(s) \in Made
    BY <1>0 DEF LookupKnown, Opened, Dlg, TypeOK
  <2>2. ASSUME NEW a \in People, NEW action \in Actions, NEW item \in Items \cup {Unset},
               Tap(s, a, action, item)
        PROVE  NextType
    <3>1. m = n + 1
      BY <2>2, AppendEffect, BlankData DEF Tap
    <3>2. state' = [state EXCEPT ![a] = n + 1] /\ over' = over \cup ({state[a]} \ {0})
          /\ UNCHANGED <<admins, saved, changed>>
      BY <2>2 DEF Tap
    <3>3. {state[a]} \ {0} \subseteq 1 .. m /\ n + 1 \in 0 .. m
      BY <1>0, <3>1
    <3> HIDE DEF n, m
    <3>4. state' \in [People -> 0 .. m] /\ over' \subseteq 1 .. m
      BY <1>1, <3>2, <3>3
    <3> QED
      BY <1>0, <1>1, <1>2, <3>2, <3>4 DEF NextType, m
  <2>3. CASE CheckRole(s)
    <3>1. Who(s) \in People
      BY UpType DEF Local, Who
    <3>2. UNCHANGED <<admins, saved, changed>> /\ (UNCHANGED <<state, over>> \/ Close(Who(s)))
      BY <2>3, Zenon DEF CheckRole
    <3> QED
      BY <1>0, <1>1, <1>2, <1>3, <3>1, <3>2 DEF NextType
  <2>4. CASE Clear(s)
    <3>1. Who(s) \in People /\ up[s].d \in 1 .. m
      BY <1>0, <2>1, <2>4, UpType DEF Local, Who, Clear, Opened, At
    <3>2. state' = [state EXCEPT ![Who(s)] = 0] /\ over' = over \cup {up[s].d}
          /\ UNCHANGED <<admins, saved, changed>>
      BY <2>4, Zenon DEF Clear, ClearState
    <3>3. state' \in [People -> 0 .. m] /\ over' \subseteq 1 .. m
      <4>1. 0 \in 0 .. m
        BY <1>0
      <4> HIDE DEF m
      <4> QED
        BY <1>1, <3>1, <3>2, <4>1
    <3> QED
      BY <1>0, <1>1, <1>2, <3>2, <3>3 DEF NextType
  <2>5. CASE SecondAnswer(s)
    <3>1. UNCHANGED <<admins, state, changed, over>>
          /\ (UNCHANGED saved \/ (up[s].text = 0 /\ saved' = saved \cup {[Dlg(s) EXCEPT !.more = 0]}))
      BY <2>5, Zenon DEF SecondAnswer, Dlg
    <3>2. CASE up[s].text = 0 /\ saved' = saved \cup {[Dlg(s) EXCEPT !.more = 0]}
      <4>1. Dlg(s) \in Made
        BY <2>1, <2>5 DEF SecondAnswer, Answers, At
      <4>2. 0 \in IF Dlg(s).action = "add_panel" THEN Refs ELSE Numbers
        BY <2>5, <3>2 DEF SecondAnswer, Answers, Wanted, Forms
      <4> DEFINE r == [Dlg(s) EXCEPT !.more = 0]
      <4>3. 0 \in Refs \cup Numbers \cup {Unset}
        BY <4>2
      <4>4. r \in Made /\ r.more = 0 /\ r.action = Dlg(s).action
        BY <4>1, <4>3 DEF Made
      <4> HIDE DEF r
      <4>5. SavedType'
        BY <1>0, <3>2, <4>2, <4>4 DEF SavedType, r
      <4> QED
        BY <1>0, <1>1, <3>1, <4>5 DEF NextType
    <3> QED
      BY <1>0, <1>1, <1>2, <3>1, <3>2 DEF NextType
  <2>6. CASE Save(s)
    <3>1. UNCHANGED <<admins, state, changed, over>> /\ saved' = saved \cup {Dlg(s)}
      BY <2>6, Zenon DEF Save
    <3>2. up[s].d \in Opened /\ Dlg(s) \in Made /\ DataOf(Dlg(s))
      BY <2>1, <2>6 DEF Save, Answers, At, DataKnown, Dlg
    <3>3. SavedType'
      BY <1>0, <3>1, <3>2 DEF SavedType, DataOf, Second
    <3> QED
      BY <1>0, <1>1, <3>1, <3>3 DEF NextType
  <2>7. CASE SetNumber(s)
    <3>1. UNCHANGED <<admins, state, saved, over>>
          /\ changed' = changed \cup ({up[s].d} \X ({ItemOf(s)} \ {Unset}))
      BY <2>7, Zenon DEF SetNumber
    <3>2. up[s].d \in 1 .. m /\ {ItemOf(s)} \ {Unset} \subseteq Items
      BY <1>0, <2>1, <2>7 DEF SetNumber, At, Opened, ItemOf, Made
    <3>3. changed' \subseteq (1 .. m) \X Items
      BY <1>1, <3>1, <3>2
    <3> QED
      BY <1>0, <1>1, <1>2, <3>1, <3>3 DEF NextType
  <2>8. ASSUME NEW a \in People, AddAdmin(s, a) PROVE NextType
    BY <1>0, <1>1, <1>2, <2>8 DEF AddAdmin, NextType
  <2>9. UNCHANGED <<admins, saved, state, changed, over>> => NextType
    BY <1>0, <1>1, <1>2 DEF NextType
  <2> QED
    BY <1>4, <2>2, <2>3, <2>4, <2>5, <2>6, <2>7, <2>8, <2>9, Zenon
    DEF UpdateStep, Arrive, Fill, ReadState, Refuse, LookUp, Found, FoundRest
<1>5. ASSUME NEW a \in People, Cancel(a) \/ RemoveAdmin(a) PROVE NextType
  <2>1. CASE Cancel(a)
    BY <1>0, <1>1, <1>2, <1>3, <2>1 DEF Cancel, NextType
  <2>2. CASE RemoveAdmin(a)
    BY <1>0, <1>1, <1>2, <2>2 DEF RemoveAdmin, NextType
  <2> QED
    BY <1>5, <2>1, <2>2
<1>6. CASE Crash
  <2>1. UNCHANGED <<admins, saved, changed>> /\ over' = 1 .. n /\ state' = [a \in People |-> 0]
    BY <1>6 DEF Crash
  <2> QED
    BY <1>0, <1>1, <1>2, <2>1 DEF NextType
<1>7. CASE UNCHANGED vars
  BY <1>0, <1>1, <1>2, <1>7 DEF NextType
<1> QED
  BY <1>4, <1>5, <1>6, <1>7, Zenon DEF Next

LEMMA StepUp ==
    ASSUME TypeOK, DataKnown, [Next]_vars, DlgEffect
    PROVE  up' \in [Updates -> Local(Len(dlg'))]
<1>0. Len(dlg) \in Nat /\ Len(dlg') \in Nat /\ Len(dlg) <= Len(dlg')
  BY UpType DEF DlgEffect
<1>1. up' \in [Updates -> Local(Len(dlg))] => up' \in [Updates -> Local(Len(dlg'))]
  BY <1>0, LocalGrows
<1>2. ASSUME NEW s \in Updates, UpdateStep(s) PROVE up' \in [Updates -> Local(Len(dlg'))]
  <2>1. Opens(s) => Len(dlg') = Len(dlg) + 1
    BY AppendEffect, BlankData DEF Opens, Tap
  <2> QED
    BY <1>1, <1>2, <2>1, StepLocals
<1>3. (\E a \in People : Cancel(a) \/ RemoveAdmin(a)) \/ UNCHANGED vars => up' = up
  BY Zenon DEF Cancel, RemoveAdmin
<1>4. CASE Crash
  BY <1>0, <1>4, <1>1, IdleType DEF Crash
<1> QED
  BY <1>1, <1>2, <1>3, <1>4, UpType DEF Next

LEMMA StepType == TypeOK /\ DataKnown /\ LookupKnown /\ [Next]_vars => TypeOK'
BY StepDlg, StepOthers, StepUp, TypeJoin DEF DlgEffect

(***************************************************************************)
(* The invariant, part by part.                                            *)
(***************************************************************************)

\* Where a step of its own takes a goroutine.
LEMMA OwnStep ==
    ASSUME TypeOK, LookupKnown, NEW s \in Updates, UpdateStep(s)
    PROVE  \/ up'[s].at = "idle" /\ up'[s].dead = {}
           \/ up'[s].at = "read" /\ up'[s].dead = over /\ UNCHANGED <<over, state>>
           \/ Opens(s) /\ up'[s].at = "fill"
           \/ /\ ReadState(s) /\ up'[s].at = "role" /\ up'[s].who = up[s].who
              /\ up'[s].dead = up[s].dead
              /\ up'[s].d = state[Who(s)] /\ state[Who(s)] # 0
           \/ /\ ~At(s, "idle") /\ ~At(s, "read") /\ up[s].d \in Opened
              /\ up'[s].who = up[s].who /\ up'[s].d = up[s].d
              /\ up'[s].dead = up[s].dead /\ up'[s].text = up[s].text
              /\ \/ up'[s].at \in {"act", "clear"}
                 \/ up'[s].at = "look" /\ up[s].text \in Refs
                 \/ Found(s) /\ up'[s].at = "rest"
                 \/ FoundRest(s) /\ At(s, "rest") /\ up'[s].at = "turn"
<1>1. ASSUME NEW a \in People, NEW action \in Actions, NEW item \in Items \cup {Unset},
             Tap(s, a, action, item)
      PROVE  Opens(s) /\ up'[s].at = "fill"
  BY <1>1, TapLocals DEF Opens
<1>2. ASSUME NEW a \in People, NEW text \in Texts, Arrive(s, a, text)
      PROVE  up'[s].at = "read" /\ up'[s].dead = over /\ UNCHANGED <<over, state>>
  BY <1>2, ArriveLocals DEF Arrive
<1>3. Return(s) => up'[s].at = "idle" /\ up'[s].dead = {}
  BY ReturnLocals
<1>4. ASSUME NEW place \in Steps, Go(s, place)
      PROVE  /\ up'[s].at = place /\ up'[s].who = up[s].who /\ up'[s].d = up[s].d
             /\ up'[s].dead = up[s].dead /\ up'[s].text = up[s].text
  BY <1>4, GoLocals
<1>5. {"act", "look", "rest", "turn", "clear"} \subseteq Steps
  BY DEF Steps
<1>6. ~At(s, "idle") /\ ~At(s, "read") => up[s].d \in Opened
  BY Zenon DEF LookupKnown
<1>7. CASE ReadState(s)
  BY <1>7, ReadLocals
<1>8. CASE LookUp(s)
  <2>1. At(s, "act") /\ up[s].text \in Refs /\ Go(s, "look")
    BY <1>8 DEF LookUp, Answers, Wanted, Forms
  <2> QED
    BY <1>4, <1>5, <1>6, <2>1 DEF At
<1>9. CASE Found(s)
  <2>1. At(s, "look") /\ (Go(s, "rest") \/ Return(s))
    BY <1>9, Zenon DEF Found
  <2> QED
    BY <1>3, <1>4, <1>5, <1>6, <1>9, <2>1 DEF At
<1>10. CASE FoundRest(s)
  <2>1. (At(s, "rest") /\ Go(s, "turn")) \/ (At(s, "turn") /\ Return(s))
    BY <1>10, Zenon DEF FoundRest
  <2> QED
    BY <1>3, <1>4, <1>5, <1>6, <1>10, <2>1 DEF At
<1>11. CASE \/ Fill(s) \/ CheckRole(s) \/ Refuse(s) \/ SecondAnswer(s) \/ Save(s) \/ SetNumber(s)
            \/ Clear(s) \/ \E a \in People : AddAdmin(s, a)
  <2>1. ~At(s, "idle") /\ ~At(s, "read")
    BY <1>11 DEF Fill, CheckRole, Refuse, SecondAnswer, Save, SetNumber, Clear, AddAdmin, Answers, At
  <2>2. Return(s) \/ Go(s, "act") \/ Go(s, "clear")
    BY <1>11, Zenon DEF Fill, CheckRole, Refuse, SecondAnswer, Save, SetNumber, Clear, AddAdmin
  <2> QED
    BY <1>3, <1>4, <1>5, <1>6, <2>1, <2>2
<1> QED
  BY <1>1, <1>2, <1>7, <1>8, <1>9, <1>10, <1>11, Zenon DEF UpdateStep

LEMMA LookupStep ==
    ASSUME TypeOK, DataKnown, LookupKnown, [Next]_vars
    PROVE  LookupKnown'
<1> DEFINE Knows(k) ==
        /\ ~At(k, "idle") /\ ~At(k, "read") => up[k].d \in Opened
        /\ up[k].at \in {"look", "rest", "turn"} => up[k].text \in Refs
        /\ up[k].at \in {"rest", "turn"} => up[k].text \in Dlg(k).found /\ Dlg(k).head # Unset
        /\ At(k, "turn") => Dlg(k).rest # Unset
<1> SUFFICES ASSUME NEW s \in Updates PROVE Knows(s)'
  BY DEF LookupKnown
<1>1. DlgEffect /\ Knows(s)
  BY StepDlg DEF LookupKnown
<1>2. Opened \subseteq Opened' /\ \A d \in Opened : Keeps(dlg[d], dlg'[d])
  BY <1>1, UpType DEF DlgEffect, Opened
<1>3. CASE up'[s] = up[s]
  BY <1>1, <1>2, <1>3 DEF At, Dlg, Keeps
<1>4. CASE up'[s].at = "idle"
  BY <1>4 DEF At
<1>5. CASE UpdateStep(s)
  <2>1. CASE up'[s].at = "read"
    BY <2>1 DEF At
  <2>2. CASE Opens(s) /\ up'[s].at = "fill"
    <3>1. up'[s].d = Len(dlg) + 1 /\ Len(dlg') = Len(dlg) + 1
      BY <2>2, TapLocals, AppendEffect, BlankData DEF Opens, Tap
    <3> QED
      BY <2>2, <3>1, UpType DEF At, Opened
  <2>3. CASE up'[s].at = "role" /\ up'[s].d = state[Who(s)] /\ state[Who(s)] # 0
    <3>1. state[Who(s)] \in 0 .. Len(dlg)
      BY UpType DEF TypeOK, Local, Who
    <3>2. up'[s].d \in Opened
      BY <2>3, <3>1 DEF Opened
    <3> QED
      BY <1>2, <2>3, <3>2 DEF At
  <2>4. CASE up[s].d \in Opened /\ up'[s].d = up[s].d /\ up'[s].at \in {"act", "clear"}
    BY <1>2, <2>4 DEF At
  <2>5. CASE /\ up[s].d \in Opened /\ up'[s].d = up[s].d /\ up'[s].text = up[s].text
             /\ up'[s].at = "look" /\ up[s].text \in Refs
    BY <1>2, <2>5 DEF At
  <2>6. CASE /\ up[s].d \in Opened /\ up'[s].d = up[s].d /\ up'[s].text = up[s].text
             /\ Found(s) /\ up'[s].at = "rest"
    <3>1. At(s, "look") /\ up[s].text \in Refs /\ ~Return(s)
      BY <1>1, <2>6, ReturnLocals DEF Found, At
    <3>2. dlg' = [dlg EXCEPT ![up[s].d].head = up[s].text, ![up[s].d].found = @ \cup {up[s].text}]
      BY <2>6, <3>1, Zenon DEF Found
    <3>3. Dlg(s) \in Made /\ dlg \in Seq(Made)
      BY <2>6 DEF TypeOK, Dlg, Opened
    <3>4. Dlg(s)' = dlg'[up[s].d]
      BY <2>6 DEF Dlg
    <3>5. Dlg(s)'.head = up[s].text /\ up[s].text \in Dlg(s)'.found
      BY <2>6, <3>2, <3>3, <3>4 DEF Dlg, Made, Opened
    <3>6. up[s].text # Unset
      BY <3>1, DialogueAssumption
    <3> QED
      BY <1>2, <2>6, <3>1, <3>5, <3>6 DEF At
  <2>7. CASE /\ up[s].d \in Opened /\ up'[s].d = up[s].d /\ up'[s].text = up[s].text
             /\ FoundRest(s) /\ At(s, "rest") /\ up'[s].at = "turn"
    <3>1. up[s].text \in Refs /\ up[s].text \in Dlg(s).found /\ Dlg(s).head # Unset
          /\ up[s].text # Unset
      BY <1>1, <2>7, DialogueAssumption DEF At
    <3>2. dlg' = [dlg EXCEPT ![up[s].d].rest = up[s].text]
      BY <2>7 DEF FoundRest, At
    <3>3. Dlg(s) \in Made /\ dlg \in Seq(Made)
      BY <2>7 DEF TypeOK, Dlg, Opened
    <3>4. Dlg(s)' = dlg'[up[s].d]
      BY <2>7 DEF Dlg
    <3>5. Dlg(s)'.head = Dlg(s).head /\ Dlg(s)'.found = Dlg(s).found /\ Dlg(s)'.rest = up[s].text
      BY <2>7, <3>2, <3>3, <3>4 DEF Dlg, Made, Opened
    <3> QED
      BY <1>2, <2>7, <3>1, <3>5 DEF At
  <2> QED
    BY <1>4, <1>5, <2>1, <2>2, <2>3, <2>4, <2>5, <2>6, <2>7, OwnStep
<1> QED
  BY <1>3, <1>4, <1>5, LocalsEffect

\* PartsVerified: what is saved comes from the dialogue as it is known.
LEMMA SavedStep ==
    ASSUME TypeOK, DataKnown, LookupKnown, PartsVerified, [Next]_vars
    PROVE  PartsVerified'
<1> DEFINE Fine(x) == {x.head, x.rest} \subseteq x.found /\ x.more # Unset
<1>1. \A x \in saved : Fine(x)
  BY DEF PartsVerified
<1>2. ASSUME NEW x, Fine(x), saved' = saved \cup {x} PROVE PartsVerified'
  BY <1>1, <1>2 DEF PartsVerified
<1>3. UNCHANGED saved => PartsVerified'
  BY <1>1 DEF PartsVerified
<1>4. ASSUME NEW s \in Updates, SecondAnswer(s) \/ Save(s) PROVE PartsVerified'
  <2>1. up[s].d \in Opened /\ Dlg(s).action \in Forms /\ Dlg(s).step \in {2, 3}
    BY <1>4 DEF SecondAnswer, Save, Answers, At, LookupKnown
  <2>2. DataOf(Dlg(s)) /\ Dlg(s) \in Made
    BY <2>1 DEF DataKnown, Dlg, TypeOK, Opened
  <2>3. {Dlg(s).head, Dlg(s).rest} \subseteq Dlg(s).found
    BY <2>1, <2>2 DEF DataOf
  <2>4. CASE SecondAnswer(s)
    <3> DEFINE r == [Dlg(s) EXCEPT !.more = 0]
    <3>1. r.head = Dlg(s).head /\ r.rest = Dlg(s).rest /\ r.found = Dlg(s).found /\ r.more = 0
      BY <2>2 DEF Made
    <3>2. 0 # Unset
      BY DialogueAssumption DEF Numbers
    <3>3. UNCHANGED saved \/ saved' = saved \cup {r}
      BY <2>4, Zenon DEF SecondAnswer, Dlg
    <3> HIDE DEF r
    <3>4. Fine(r)
      BY <2>3, <3>1, <3>2
    <3> QED
      BY <1>2, <1>3, <3>3, <3>4
  <2>5. CASE Save(s)
    <3>1. Fine(Dlg(s)) /\ saved' = saved \cup {Dlg(s)}
      BY <2>2, <2>3, <2>5 DEF Save, Answers, DataOf
    <3> QED
      BY <1>2, <3>1
  <2> QED
    BY <1>4, <2>4, <2>5
<1>5. ASSUME NEW s \in Updates, UpdateStep(s) PROVE UNCHANGED saved \/ SecondAnswer(s) \/ Save(s)
  BY <1>5, Zenon DEF UpdateStep, Tap, Arrive, AddAdmin, Fill, ReadState, CheckRole, Refuse,
     LookUp, Found, FoundRest, SetNumber, Clear
<1>6. (\E a \in People : Cancel(a) \/ RemoveAdmin(a)) \/ Crash \/ UNCHANGED vars => UNCHANGED saved
  BY Zenon DEF Cancel, RemoveAdmin, Crash
<1> QED
  BY <1>3, <1>4, <1>5, <1>6, Zenon DEF Next

\* NumberToItsItem: a goroutine writes to the item of the dialogue it read.
LEMMA NumberStep ==
    ASSUME TypeOK, DataKnown, LookupKnown, NumberToItsItem, [Next]_vars
    PROVE  NumberToItsItem'
<1>1. DlgEffect /\ changed \subseteq (1 .. Len(dlg)) \X Items
  BY StepDlg DEF TypeOK
<1>2. \A d \in Opened : dlg'[d].asked = dlg[d].asked
  BY <1>1 DEF DlgEffect, Keeps
<1>3. UNCHANGED changed => NumberToItsItem'
  BY <1>1, <1>2 DEF NumberToItsItem, Opened
<1>4. ASSUME NEW s \in Updates, SetNumber(s) PROVE NumberToItsItem'
  <2>1. changed' = changed \cup ({up[s].d} \X ({ItemOf(s)} \ {Unset})) /\ dlg' = dlg
        /\ up[s].d \in Opened
    BY <1>4 DEF SetNumber, LookupKnown, At
  <2>2. ItemOf(s) # Unset => ItemOf(s) = dlg[up[s].d].asked
    BY <2>1 DEF DataKnown, DataOf, ItemOf, Dlg
  <2> QED
    BY <2>1, <2>2 DEF NumberToItsItem
<1>5. ASSUME NEW s \in Updates, UpdateStep(s) PROVE UNCHANGED changed \/ SetNumber(s)
  BY <1>5, Zenon DEF UpdateStep, Tap, Arrive, AddAdmin, Fill, ReadState, CheckRole, Refuse,
     LookUp, Found, FoundRest, SecondAnswer, Save, Clear
<1>6. (\E a \in People : Cancel(a) \/ RemoveAdmin(a)) \/ Crash \/ UNCHANGED vars => UNCHANGED changed
  BY Zenon DEF Cancel, RemoveAdmin, Crash
<1> QED
  BY <1>3, <1>4, <1>5, <1>6, Zenon DEF Next

(***************************************************************************)
(* Whose a dialogue is.                                                    *)
(***************************************************************************)

StateOwn ==
    /\ \A a \in People : state[a] # 0 => state[a] \notin over
    /\ \A a, b \in People : state[a] # 0 /\ state[a] = state[b] => a = b

Holds(s) ==
    /\ up[s].dead \subseteq over
    /\ ~At(s, "idle") /\ ~At(s, "read") =>
         \A a \in People : state[a] = up[s].d => a = Who(s)
    /\ ~At(s, "idle") /\ ~At(s, "read") => up[s].d \notin up[s].dead

LEMMA OwnSplit == OwnDialogue <=> StateOwn /\ \A s \in Updates : Holds(s)
BY DEF OwnDialogue, StateOwn, Holds

\* A step opens a dialogue of one person, or takes entries away and records them
\* as over, or leaves them.
Shrinks ==
    /\ over \subseteq over'
    /\ \A a \in People : state'[a] # 0 => state'[a] = state[a] /\ state'[a] \notin over'

LEMMA CloseShrinks ==
    ASSUME TypeOK, StateOwn, NEW a \in People, Close(a)
    PROVE  Shrinks
<1>1. state' = [state EXCEPT ![a] = 0] /\ over' = over \cup ({state[a]} \ {0})
  BY DEF Close, ClearState
<1>2. state \in [People -> 0 .. Len(dlg)]
  BY DEF TypeOK
<1>3. state'[a] = 0 /\ \A b \in People \ {a} : state'[b] = state[b]
  BY <1>1, <1>2
<1>4. ASSUME NEW b \in People, state'[b] # 0
      PROVE  state'[b] = state[b] /\ state[b] \notin over'
  <2>1. b # a /\ state'[b] = state[b]
    BY <1>3, <1>4
  <2>2. state[b] \notin over /\ state[b] # state[a]
    BY <1>4, <2>1, Zenon DEF StateOwn
  <2> QED
    BY <1>1, <2>1, <2>2
<1> QED
  BY <1>1, <1>4 DEF Shrinks

LEMMA StepState ==
    ASSUME TypeOK, LookupKnown, OwnDialogue, [Next]_vars
    PROVE  Shrinks \/ \E s \in Updates : Opens(s)
<1>0. StateOwn /\ state \in [People -> 0 .. Len(dlg)]
  BY OwnSplit DEF TypeOK
<1>1. UNCHANGED <<state, over>> => Shrinks
  BY <1>0, Zenon DEF Shrinks, StateOwn
<1>2. ASSUME NEW s \in Updates, UpdateStep(s) PROVE Shrinks \/ Opens(s)
  <2>1. CASE CheckRole(s)
    <3>1. Who(s) \in People
      BY UpType DEF Local, Who
    <3> QED
      BY <1>0, <1>1, <2>1, <3>1, CloseShrinks, Zenon DEF CheckRole
  <2>2. CASE Clear(s)
    <3>1. ~At(s, "idle") /\ ~At(s, "read") /\ Who(s) \in People
      BY <2>2, UpType DEF Clear, At, Local, Who
    <3>2. state' = [state EXCEPT ![Who(s)] = 0] /\ over' = over \cup {up[s].d}
      BY <2>2, Zenon DEF Clear, ClearState
    <3>3. state'[Who(s)] = 0 /\ \A b \in People \ {Who(s)} : state'[b] = state[b]
      BY <1>0, <3>1, <3>2
    <3>4. \A b \in People \ {Who(s)} : state[b] # up[s].d
      BY <3>1, Zenon DEF OwnDialogue
    <3> QED
      BY <1>0, <3>2, <3>3, <3>4, Zenon DEF Shrinks, StateOwn
  <2>3. (\E a \in People, action \in Actions, item \in Items \cup {Unset} : Tap(s, a, action, item))
        => Opens(s)
    BY DEF Opens
  <2> QED
    BY <1>1, <1>2, <2>1, <2>2, <2>3, Zenon DEF UpdateStep, Arrive, AddAdmin, Fill, ReadState,
       Refuse, LookUp, Found, FoundRest, SecondAnswer, Save, SetNumber
<1>3. ASSUME NEW a \in People, Cancel(a) \/ RemoveAdmin(a) PROVE Shrinks
  BY <1>0, <1>1, <1>3, CloseShrinks, Zenon DEF Cancel, RemoveAdmin
<1>4. CASE Crash
  <2>1. state' = [a \in People |-> 0] /\ over' = 1 .. Len(dlg) /\ over \subseteq 1 .. Len(dlg)
    BY <1>4 DEF Crash, TypeOK
  <2> QED
    BY <2>1 DEF Shrinks
<1>5. CASE UNCHANGED vars
  BY <1>1, <1>5
<1> QED
  BY <1>2, <1>3, <1>4, <1>5, Zenon DEF Next

\* What a goroutine other than the opener holds, when a dialogue is opened.
LEMMA OpenState ==
    ASSUME TypeOK, NEW s \in Updates, NEW a \in People, NEW action \in Actions,
           NEW item \in Items \cup {Unset}, Tap(s, a, action, item), StateOwn
    PROVE  /\ over \subseteq over' /\ Len(dlg) + 1 \notin over'
           /\ state'[a] = Len(dlg) + 1
           /\ \A b \in People \ {a} : state'[b] = state[b] /\ state[b] # Len(dlg) + 1
           /\ StateOwn'
<1>0. Len(dlg) \in Nat /\ over \subseteq 1 .. Len(dlg) /\ state \in [People -> 0 .. Len(dlg)]
  BY UpType DEF TypeOK
<1>1. over' = over \cup ({state[a]} \ {0}) /\ state' = [state EXCEPT ![a] = Len(dlg) + 1]
  BY DEF Tap
<1>2. \A b \in People : state[b] # Len(dlg) + 1
  BY <1>0
<1>3. state'[a] = Len(dlg) + 1 /\ \A b \in People \ {a} : state'[b] = state[b]
  BY <1>0, <1>1
<1>4. Len(dlg) + 1 \notin over'
  BY <1>0, <1>1, <1>2
<1>5. Len(dlg) + 1 # 0
  BY <1>0
<1>6. \A b \in People : state'[b] # 0 => state'[b] \notin over'
  <2> SUFFICES ASSUME NEW b \in People, state'[b] # 0 PROVE state'[b] \notin over'
    OBVIOUS
  <2>1. CASE b = a
    BY <1>3, <1>4, <2>1
  <2>2. CASE b # a
    <3>1. state[b] # state[a] /\ state[b] \notin over
      BY <1>3, <2>2, Zenon DEF StateOwn
    <3> QED
      BY <1>1, <1>3, <2>2, <3>1
  <2> QED
    BY <2>1, <2>2
<1>7. \A b, c \in People : state'[b] # 0 /\ state'[b] = state'[c] => b = c
  <2> SUFFICES ASSUME NEW b \in People, NEW c \in People, state'[b] # 0, state'[b] = state'[c], b # c
               PROVE  FALSE
    OBVIOUS
  <2> QED
    BY <1>2, <1>3, Zenon DEF StateOwn
<1> QED
  BY <1>1, <1>2, <1>3, <1>4, <1>6, <1>7 DEF StateOwn

LEMMA OwnKeeps ==
    ASSUME TypeOK, LookupKnown, OwnDialogue, [Next]_vars, NEW s \in Updates, up'[s] = up[s]
    PROVE  Holds(s)'
<1>1. Holds(s) /\ StateOwn
  BY OwnSplit
<1>2. CASE Shrinks
  <2>1. ~At(s, "idle") /\ ~At(s, "read") => up[s].d # 0
    BY DEF LookupKnown, Opened
  <2> QED
    BY <1>1, <1>2, <2>1 DEF Holds, Shrinks, At, Who
<1>3. ASSUME NEW k \in Updates, Opens(k) PROVE Holds(s)'
  <2>1. PICK a \in People : /\ over \subseteq over' /\ state'[a] = Len(dlg) + 1
                            /\ \A b \in People \ {a} : state'[b] = state[b]
    BY <1>1, <1>3, OpenState DEF Opens
  <2>2. ~At(s, "idle") /\ ~At(s, "read") => up[s].d # Len(dlg) + 1
    BY UpType DEF LookupKnown, Opened
  <2> QED
    BY <1>1, <2>1, <2>2 DEF Holds, At, Who
<1> QED
  BY <1>2, <1>3, StepState

LEMMA OwnMoves ==
    ASSUME TypeOK, LookupKnown, OwnDialogue, NEW s \in Updates, UpdateStep(s), [Next]_vars
    PROVE  Holds(s)'
<1>1. Holds(s) /\ StateOwn
  BY OwnSplit
<1>2. CASE up'[s].at = "idle" /\ up'[s].dead = {}
  BY <1>2 DEF Holds, At
<1>3. CASE up'[s].at = "read" /\ up'[s].dead = over /\ UNCHANGED <<over, state>>
  BY <1>3 DEF Holds, At
<1>4. ASSUME NEW a \in People, NEW action \in Actions, NEW item \in Items \cup {Unset},
             Tap(s, a, action, item)
      PROVE  Holds(s)'
  <2>1. up'[s].who = a /\ up'[s].d = Len(dlg) + 1 /\ up'[s].dead = {}
    BY <1>4, TapLocals
  <2>2. \A b \in People \ {a} : state'[b] # Len(dlg) + 1
    BY <1>1, <1>4, OpenState
  <2> QED
    BY <2>1, <2>2 DEF Holds, At, Who
<1>5. CASE /\ ReadState(s) /\ up'[s].at = "role" /\ up'[s].who = up[s].who
           /\ up'[s].dead = up[s].dead /\ up'[s].d = state[Who(s)] /\ state[Who(s)] # 0
  <2>1. UNCHANGED <<over, state>> /\ Who(s) \in People
    BY <1>5, UpType DEF ReadState, Local, Who
  <2>2. state[Who(s)] \notin over /\ \A a \in People : state[a] = state[Who(s)] => a = Who(s)
    BY <1>1, <1>5, <2>1, Zenon DEF StateOwn
  <2> QED
    BY <1>1, <1>5, <2>1, <2>2 DEF Holds, At, Who
<1>6. CASE /\ ~At(s, "idle") /\ ~At(s, "read") /\ up[s].d \in Opened
           /\ up'[s].who = up[s].who /\ up'[s].d = up[s].d /\ up'[s].dead = up[s].dead
           /\ ~Opens(s)
  <2>1. up[s].d # 0
    BY <1>6 DEF Opened
  <2>2. over \subseteq over' /\ \A a \in People : state'[a] # 0 => state'[a] = state[a]
    <3>1. ASSUME NEW k \in Updates, Opens(k) PROVE k = s
      <4> SUFFICES ASSUME k # s PROVE FALSE
        OBVIOUS
      <4>1. up[k].at = "idle" /\ up'[k].at = "fill"
        BY <3>1, TapLocals, ZenonT(40) DEF Opens, Tap, At
      <4>2. up'[k] = up[k]
        BY StepLocals, Zenon DEF Moves
      <4> QED
        BY <4>1, <4>2
    <3> QED
      BY <1>6, <3>1, StepState DEF Shrinks
  <2> QED
    BY <1>1, <1>6, <2>1, <2>2 DEF Holds, At, Who
<1>7. Opens(s) => \E a \in People, action \in Actions, item \in Items \cup {Unset} : Tap(s, a, action, item)
  BY DEF Opens
<1> QED
  BY <1>2, <1>3, <1>4, <1>5, <1>6, <1>7, OwnStep

LEMMA OwnershipStep ==
    ASSUME TypeOK, LookupKnown, OwnDialogue, [Next]_vars
    PROVE  OwnDialogue'
<1>1. StateOwn
  BY OwnSplit
<1>2. StateOwn'
  <2>1. CASE Shrinks
    BY <1>1, <2>1, Zenon DEF Shrinks, StateOwn
  <2>2. ASSUME NEW s \in Updates, Opens(s) PROVE StateOwn'
    BY <1>1, <2>2, OpenState DEF Opens
  <2> QED
    BY <2>1, <2>2, StepState
<1>3. ASSUME NEW s \in Updates PROVE Holds(s)'
  <2>1. CASE up'[s].at = "idle" /\ up'[s].dead = {}
    BY <2>1 DEF Holds, At
  <2> QED
    BY <2>1, OwnKeeps, OwnMoves, LocalsEffect
<1> QED
  BY <1>2, <1>3 DEF OwnDialogue, StateOwn, Holds

(***************************************************************************)
(* The theorems.                                                           *)
(***************************************************************************)

LEMMA DialogueInit == Init => TypeOK /\ DialogueInv
<1> SUFFICES ASSUME Init PROVE TypeOK /\ DialogueInv
  OBVIOUS
<1>1. /\ admins = {Owner} /\ dlg = <<>> /\ state = [a \in People |-> 0]
      /\ up = [s \in Updates |-> Idle] /\ saved = {} /\ changed = {} /\ over = {}
  BY DEF Init
<1>2. Len(dlg) = 0 /\ dlg \in Seq(Made) /\ Opened = {}
  BY <1>1 DEF Opened
<1>3. \A s \in Updates : up[s].at = "idle" /\ up[s].dead = {}
  BY <1>1 DEF Idle
<1>4. up \in [Updates -> Local(Len(dlg))]
  BY <1>1, <1>2, IdleType
<1>5. TypeOK
  BY <1>1, <1>2, <1>4, DialogueAssumption DEF TypeOK, Local, Steps
<1>6. DataKnown /\ LookupKnown
  BY <1>2, <1>3 DEF DataKnown, LookupKnown, At
<1>7. OwnDialogue
  BY <1>1, <1>3 DEF OwnDialogue, At
<1>8. PartsVerified /\ NumberToItsItem
  BY <1>1 DEF PartsVerified, NumberToItsItem
<1> QED
  BY <1>5, <1>6, <1>7, <1>8 DEF DialogueInv

LEMMA DialogueStep == TypeOK /\ DialogueInv /\ [Next]_vars => TypeOK' /\ DialogueInv'
<1> SUFFICES ASSUME TypeOK, DialogueInv, [Next]_vars PROVE TypeOK' /\ DialogueInv'
  OBVIOUS
<1>1. DataKnown /\ LookupKnown /\ OwnDialogue /\ PartsVerified /\ NumberToItsItem
  BY DEF DialogueInv
<1>2. DataKnown'
  BY <1>1, StepDlg DEF DlgEffect
<1> QED
  BY <1>1, <1>2, StepType, LookupStep, OwnershipStep, SavedStep, NumberStep DEF DialogueInv

\* TypeOK: every dialogue, goroutine and saved form has its shape, a panel's second
\* answer is a reference and a channel's a number.
THEOREM DialogueTypeCorrect == Spec => []TypeOK
BY DialogueInit, DialogueStep, PTL DEF Spec

\* DialogueInv: the inductive invariant holds in every reachable state.
THEOREM DialogueInvariant == Spec => []DialogueInv
BY DialogueInit, DialogueStep, PTL DEF Spec

\* PartsVerified: a form is saved only from references that answered in its own
\* dialogue and with a second answer, however texts and late lookups interleave.
THEOREM FormsVerified == Spec => []PartsVerified
<1>1. DialogueInv => PartsVerified
  BY DEF DialogueInv
<1> QED
  BY <1>1, DialogueInvariant, PTL

\* NumberToItsItem: a number goes to the item its prompt was about, though the prompt
\* of another item may replace it meanwhile.
THEOREM NumbersReachTheirItem == Spec => []NumberToItsItem
<1>1. DialogueInv => NumberToItsItem
  BY DEF DialogueInv
<1> QED
  BY <1>1, DialogueInvariant, PTL

\* ClosedStaysClosed: a text that arrives after the end of a dialogue never answers it.
THEOREM ClosedDialogues == Spec => []ClosedStaysClosed
<1>1. DialogueInv => ClosedStaysClosed
  BY DEF DialogueInv, OwnDialogue, ClosedStaysClosed, At
<1> QED
  BY <1>1, DialogueInvariant, PTL
=============================================================================
