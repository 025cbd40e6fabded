------------------------------ MODULE DialogueInv ------------------------------
(***************************************************************************)
(* The inductive invariant of the dialogues.                               *)
(***************************************************************************)
EXTENDS AdminDialogue

Opened == 1 .. Len(dlg)
Second(x) == (IF x.action = "add_panel" THEN Refs ELSE Numbers) \cup {Unset}

\* What may stand in the Data of a dialogue.
DataOf(x) ==
    /\ {x.head, x.rest} \subseteq x.found \cup {Unset}
    /\ x.step >= 2 => x.head # Unset /\ x.rest # Unset
    /\ x.step = 3 => x.more # Unset
    /\ x.more \in Second(x)
    /\ x.item \in {Unset, x.asked}

DataKnown == \A d \in Opened : DataOf(dlg[d])

\* What a goroutine on its way from a lookup has written already.
LookupKnown ==
    \A s \in Updates :
        /\ ~At(s, "idle") /\ ~At(s, "read") => up[s].d \in Opened
        /\ up[s].at \in {"look", "rest", "turn"} => up[s].text \in Refs
        /\ up[s].at \in {"rest", "turn"} => up[s].text \in Dlg(s).found /\ Dlg(s).head # Unset
        /\ At(s, "turn") => Dlg(s).rest # Unset

\* A dialogue is of one person, and over once nobody has it.
OwnDialogue ==
    /\ \A a \in People : state[a] # 0 => state[a] \notin over
    /\ \A a, b \in People : state[a] # 0 /\ state[a] = state[b] => a = b
    /\ \A s \in Updates :
         /\ up[s].dead \subseteq over
         /\ ~At(s, "idle") /\ ~At(s, "read") =>
              \A a \in People : state[a] = up[s].d => a = Who(s)
         /\ ~At(s, "idle") /\ ~At(s, "read") => up[s].d \notin up[s].dead

\* The inductive invariant of the dialogues: what Data may hold at each step, what a
\* late lookup has written, and whose a dialogue is until it is over.
DialogueInv == DataKnown /\ LookupKnown /\ OwnDialogue /\ PartsVerified /\ NumberToItsItem
=============================================================================
