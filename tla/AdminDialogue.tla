----------------------------- MODULE AdminDialogue -----------------------------
(***************************************************************************)
(* The dialogues of the administrators (internal/bot/bot.go 114-138,       *)
(* user.go onText and onAdmin, admin.go): a tap opens a dialogue, texts    *)
(* carry it on.  Every update has a goroutine of its own; one reads the    *)
(* dialogue's pointer under the mutex and works on it without.             *)
(*                                                                         *)
(* add_panel and add_channel have the same shape: a reference that is      *)
(* looked up (a panel's admin link, a channel), a second answer (a         *)
(* subscription link, a target), a number.  The one-number prompts are     *)
(* "number"; those that clear the dialogue before they act, or only look   *)
(* something up, are "message".                                            *)
(***************************************************************************)
EXTENDS Integers, Sequences

CONSTANTS
    People,    \* Telegram ids with a menu message to tap on
    Owner,     \* cfg.AdminID, an administrator always
    Updates,   \* goroutines of updates
    Refs,      \* links and channels an administrator may send
    Items,     \* rows a number is asked for
    Unset,     \* a key without a value in Data
    Media,     \* an update with a photo or a file instead of a text
    Actions,   \* bound: the kinds of dialogues explored
    MaxOpened  \* bound: dialogues opened

Forms == {"add_panel", "add_channel"}
Numbers == {0, 1}

ASSUME DialogueAssumption ==
    /\ Owner \in People /\ MaxOpened \in Nat
    /\ {Unset, Media} \cap (Refs \cup Items \cup Numbers) = {}
    /\ Actions \subseteq Forms \cup {"number", "add_admin", "message"}

VARIABLES
    admins,   \* the table of administrators
    dlg,      \* every UserState ever made, in order
    state,    \* Bot.state: whose dialogue is which, 0 = none
    up,       \* the locals of the goroutines
    saved,    \* panels and channels added: the Data they were made from
    changed,  \* history: dialogues and the items their numbers were written to
    over      \* history: dialogues cancelled, settled or replaced

vars == <<admins, dlg, state, up, saved, changed, over>>

Texts == Refs \cup Numbers \cup {Media}
Idle == [at |-> "idle", who |-> Owner, d |-> 0, text |-> Media, dead |-> {}]
Blank(action, item) ==
    [action |-> action, asked |-> item, item |-> Unset, step |-> 0,
     head |-> Unset, rest |-> Unset, more |-> Unset, found |-> {}]
Made == [action : Actions, asked : Items \cup {Unset}, item : Items \cup {Unset}, step : 0 .. 3,
         head : Refs \cup {Unset}, rest : Refs \cup {Unset},
         more : Refs \cup Numbers \cup {Unset}, found : SUBSET Refs]

TypeOK ==
    /\ admins \subseteq People
    /\ dlg \in Seq(Made) /\ saved \subseteq Made
    /\ \A x \in saved : x.more \in (IF x.action = "add_panel" THEN Refs ELSE Numbers) \cup {Unset}
    /\ state \in [People -> 0 .. Len(dlg)]
    /\ up \in [Updates -> [at : {"idle", "fill", "read", "role", "act", "look", "rest", "turn", "clear"},
                           who : People, d : 0 .. Len(dlg), text : Texts,
                           dead : SUBSET (1 .. Len(dlg))]]
    /\ changed \subseteq (1 .. Len(dlg)) \X Items /\ over \subseteq 1 .. Len(dlg)

Init ==
    /\ admins = {Owner}
    /\ dlg = <<>> /\ state = [a \in People |-> 0]
    /\ up = [s \in Updates |-> Idle]
    /\ saved = {} /\ changed = {} /\ over = {}

IsAdmin(a) == a = Owner \/ a \in admins

At(s, place) == up[s].at = place
Who(s) == up[s].who
Dlg(s) == dlg[up[s].d]
Go(s, place) == up' = [up EXCEPT ![s].at = place]
Return(s) == up' = [up EXCEPT ![s] = Idle]

\* Mutant of the next definition: the entry stays.
KeepState(a) == state' = state

\* clearState deletes the entry, whichever dialogue it points to by now.
ClearState(a) == state' = [state EXCEPT ![a] = 0]

Close(a) == ClearState(a) /\ over' = over \cup ({state[a]} \ {0})

(***************************************************************************)
(* Taps.                                                                   *)
(***************************************************************************)

\* setState; Data is filled afterwards, without the mutex.
Tap(s, a, action, item) ==
    /\ At(s, "idle") /\ Len(dlg) < MaxOpened /\ (item = Unset <=> action # "number")
    /\ dlg' = Append(dlg, Blank(action, item))
    /\ over' = over \cup ({state[a]} \ {0})
    /\ state' = [state EXCEPT ![a] = Len(dlg) + 1]
    /\ up' = [up EXCEPT ![s] = [Idle EXCEPT !.at = "fill", !.who = a, !.d = Len(dlg) + 1]]
    /\ UNCHANGED <<admins, saved, changed>>

Fill(s) ==
    /\ At(s, "fill")
    /\ dlg' = IF Dlg(s).action \in Forms THEN [dlg EXCEPT ![up[s].d].step = 1]
              ELSE [dlg EXCEPT ![up[s].d].item = Dlg(s).asked]
    /\ Return(s)
    /\ UNCHANGED <<admins, state, saved, changed, over>>

\* The cancel button, or /admin, which only an administrator's update reaches.
Cancel(a) ==
    /\ state[a] # 0 /\ Close(a)
    /\ UNCHANGED <<admins, dlg, up, saved, changed>>

\* cbAdminDelete.
RemoveAdmin(a) ==
    /\ a # Owner /\ a \in admins
    /\ admins' = admins \ {a}
    /\ UNCHANGED <<dlg, state, up, saved, changed, over>>

(***************************************************************************)
(* Texts, documents and media.                                             *)
(***************************************************************************)

Arrive(s, a, text) ==
    /\ At(s, "idle")
    /\ up' = [up EXCEPT ![s] = [Idle EXCEPT !.at = "read", !.who = a, !.text = text, !.dead = over]]
    /\ UNCHANGED <<admins, dlg, state, saved, changed, over>>

\* getState; without a dialogue the text is a button of a menu or nothing.
ReadState(s) ==
    /\ At(s, "read")
    /\ \/ /\ state[Who(s)] # 0
          /\ up' = [up EXCEPT ![s].at = "role", ![s].d = state[Who(s)]]
       \/ state[Who(s)] = 0 /\ Return(s)
    /\ UNCHANGED <<admins, dlg, state, saved, changed, over>>

\* A text of someone who is no administrator any more ends the dialogue.
CheckRole(s) ==
    /\ At(s, "role")
    /\ \/ /\ IsAdmin(Who(s)) /\ Go(s, "act")
          /\ UNCHANGED <<state, over>>
       \/ /\ ~IsAdmin(Who(s)) /\ Return(s)
          /\ IF up[s].text = Media THEN UNCHANGED <<state, over>> ELSE Close(Who(s))
    /\ UNCHANGED <<admins, dlg, saved, changed>>

\* Mutant of the next definition: the second answer may be anything.
WantedLoosely(x) ==
    CASE x.action = "message" -> Texts
      [] x.action \in {"number", "add_admin"} -> Numbers
      [] OTHER -> <<{}, Refs, Refs \cup Numbers, Numbers>>[x.step + 1]

\* The texts a dialogue goes on with; others are answered and change nothing.
Wanted(x) ==
    CASE x.action = "message" -> Texts
      [] x.action \in {"number", "add_admin"} -> Numbers
      [] OTHER -> <<{}, Refs, IF x.action = "add_panel" THEN Refs ELSE Numbers, Numbers>>[x.step + 1]

Refuse(s) ==
    /\ At(s, "act") /\ up[s].text \notin Wanted(Dlg(s))
    /\ Return(s)
    /\ UNCHANGED <<admins, dlg, state, saved, changed, over>>

\* The text of s answers this step of a form.
Answers(s, step) ==
    At(s, "act") /\ Dlg(s).action \in Forms /\ Dlg(s).step = step /\ up[s].text \in Wanted(Dlg(s))

\* Mutant of the next definition: the dialogue moves on before the answer is there.
LookUpEagerly(s) ==
    /\ Answers(s, 1)
    /\ dlg' = [dlg EXCEPT ![up[s].d].step = 2]
    /\ Go(s, "look")
    /\ UNCHANGED <<admins, state, saved, changed, over>>

\* ParseAdminLink and Ping, or resolveChannel: a call that may take long.
LookUp(s) ==
    /\ Answers(s, 1)
    /\ Go(s, "look")
    /\ UNCHANGED <<admins, dlg, state, saved, changed, over>>

\* Its answer goes into Data key by key, and another text's may do so meanwhile.
Found(s) ==
    /\ At(s, "look")
    /\ \/ /\ dlg' = [dlg EXCEPT ![up[s].d].head = up[s].text,
                                ![up[s].d].found = @ \cup {up[s].text}]
          /\ Go(s, "rest")
       \/ Return(s) /\ UNCHANGED dlg
    /\ UNCHANGED <<admins, state, saved, changed, over>>

\* The step is set again even if the dialogue has moved on since.
FoundRest(s) ==
    /\ \/ At(s, "rest") /\ dlg' = [dlg EXCEPT ![up[s].d].rest = up[s].text] /\ Go(s, "turn")
       \/ At(s, "turn") /\ dlg' = [dlg EXCEPT ![up[s].d].step = 2] /\ Return(s)
    /\ UNCHANGED <<admins, state, saved, changed, over>>

\* A target of 0 ends the dialogue of a channel.
SecondAnswer(s) ==
    LET d == up[s].d IN
    /\ Answers(s, 2)
    /\ \/ /\ up[s].text # 0
          /\ dlg' = [dlg EXCEPT ![d].more = up[s].text, ![d].step = 3]
          /\ Return(s) /\ UNCHANGED saved
       \/ /\ up[s].text = 0
          /\ saved' = saved \cup {[dlg[d] EXCEPT !.more = 0]}
          /\ Go(s, "clear") /\ UNCHANGED dlg
    /\ UNCHANGED <<admins, state, changed, over>>

\* AddPanel or finishAddChannel.
Save(s) ==
    /\ Answers(s, 3)
    /\ saved' = saved \cup {Dlg(s)}
    /\ Go(s, "clear")
    /\ UNCHANGED <<admins, dlg, state, changed, over>>

\* Mutant of the next definition: the dialogue is looked up again.
ItemNow(s) == IF state[Who(s)] = 0 THEN Unset ELSE dlg[state[Who(s)]].item

ItemOf(s) == Dlg(s).item

\* Without an item the id is 0 and the update changes no row.
SetNumber(s) ==
    /\ At(s, "act") /\ Dlg(s).action = "number" /\ up[s].text \in Numbers
    /\ changed' = changed \cup ({up[s].d} \X ({ItemOf(s)} \ {Unset}))
    /\ Go(s, "clear")
    /\ UNCHANGED <<admins, dlg, state, saved, over>>

AddAdmin(s, a) ==
    /\ At(s, "act") /\ Dlg(s).action = "add_admin" /\ up[s].text \in Numbers
    /\ admins' = admins \cup {a}
    /\ Go(s, "clear")
    /\ UNCHANGED <<dlg, state, saved, changed, over>>

\* The end of a dialogue; doBroadcast, deliverAdminDM and doRestore begin with it.
Clear(s) ==
    /\ At(s, "clear") \/ (At(s, "act") /\ Dlg(s).action = "message")
    /\ ClearState(Who(s))
    /\ over' = over \cup {up[s].d}
    /\ Return(s)
    /\ UNCHANGED <<admins, dlg, saved, changed>>

\* Dialogues are in memory only.
Crash ==
    /\ \E a \in People : state[a] # 0
    /\ state' = [a \in People |-> 0]
    /\ over' = 1 .. Len(dlg)
    /\ up' = [s \in Updates |-> Idle]
    /\ UNCHANGED <<admins, dlg, saved, changed>>

UpdateStep(s) ==
    \/ \E a \in People : \/ \E action \in Actions, item \in Items \cup {Unset} : Tap(s, a, action, item)
                         \/ \E text \in Texts : Arrive(s, a, text)
                         \/ AddAdmin(s, a)
    \/ Fill(s) \/ ReadState(s) \/ CheckRole(s) \/ Refuse(s)
    \/ LookUp(s) \/ Found(s) \/ FoundRest(s) \/ SecondAnswer(s) \/ Save(s)
    \/ SetNumber(s) \/ Clear(s)

Next ==
    \/ \E s \in Updates : UpdateStep(s)
    \/ \E a \in People : Cancel(a) \/ RemoveAdmin(a)
    \/ Crash

Spec == Init /\ [][Next]_vars

(***************************************************************************)
(* Properties.                                                             *)
(***************************************************************************)

\* "Verify credentials against the live panel" (admin.go:781): a panel or channel is
\* added only from references that answered in its own dialogue, and with the second
\* answer, however late a lookup returns and whatever other texts do meanwhile.
PartsVerified ==
    \A x \in saved : {x.head, x.rest} \subseteq x.found /\ x.more # Unset

\* A number is written to the item its prompt was about, also when the administrator
\* opens the prompt of another item while the text is handled.
NumberToItsItem == \A c \in changed : dlg[c[1]].asked = c[2]

\* A text sent after a dialogue was cancelled, settled or replaced is not taken as an
\* answer to it.
ClosedStaysClosed == \A s \in Updates : At(s, "act") => up[s].d \notin up[s].dead
=============================================================================
