------------------------------ MODULE ConfigLedger ------------------------------
(***************************************************************************)
(* What the claim outbox promises, without handlers, jobs, clocks or       *)
(* crashes: a slot of the database and the user it names on a panel keep   *)
(* step.  A user is created only under a reservation, a reservation turns  *)
(* into a held config only when its user exists, a user is revoked only    *)
(* when its config is held, and a reservation or a config is released only *)
(* when no user exists (any more).  An administrator may write slots off;  *)
(* nothing is promised of those.                                           *)
(***************************************************************************)
CONSTANT Cells   \* the slots

VARIABLES
    entry,    \* what the database says of a slot
    exists    \* slots whose user is on its panel

ledger == <<entry, exists>>

Entries == {"free", "reserved", "held", "writtenoff"}

LedgerTypeOK ==
    /\ entry \in [Cells -> Entries]
    /\ exists \in SUBSET Cells

LedgerInit ==
    /\ entry = [s \in Cells |-> "free"]
    /\ exists = {}

Reserve(s) ==
    /\ entry[s] = "free"
    /\ entry' = [entry EXCEPT ![s] = "reserved"]
    /\ UNCHANGED exists

Create(s) ==
    /\ entry[s] \in {"reserved", "writtenoff"}
    /\ exists' = exists \cup {s}
    /\ UNCHANGED entry

Activate(s) ==
    /\ entry[s] = "reserved" /\ s \in exists
    /\ entry' = [entry EXCEPT ![s] = "held"]
    /\ UNCHANGED exists

\* A bulk delete: of held configs, and of users written off before.
Revoke(S) ==
    /\ \A s \in S : entry[s] \in {"held", "writtenoff"}
    /\ exists' = exists \ S
    /\ UNCHANGED entry

Release(S) ==
    /\ \A s \in S : entry[s] \in {"reserved", "held"} /\ s \notin exists
    /\ entry' = [s \in Cells |-> IF s \in S THEN "free" ELSE entry[s]]
    /\ UNCHANGED exists

WriteOff(S) ==
    /\ entry' = [s \in Cells |-> IF s \in S THEN "writtenoff" ELSE entry[s]]
    /\ UNCHANGED exists

LedgerNext ==
    \/ \E s \in Cells : Reserve(s) \/ Create(s) \/ Activate(s)
    \/ \E S \in SUBSET Cells : Revoke(S) \/ Release(S) \/ WriteOff(S)

LedgerSpec == LedgerInit /\ [][LedgerNext]_ledger
=============================================================================
