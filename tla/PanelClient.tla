------------------------------ MODULE PanelClient ------------------------------
(***************************************************************************)
(* A Hiddify panel as internal/hiddify uses it: the users it holds, the    *)
(* create requests on their way to it, and the mutex panelMu with which    *)
(* the client serialises its writes to one panel.                          *)
(*                                                                         *)
(* The panel itself is external.  From the way the client treats it: a     *)
(* create of a uuid it already holds succeeds and changes nothing (comment *)
(* at hiddify.go:198), a lookup answers 404 exactly for an unknown uuid    *)
(* and else with the user's numeric id, a numeric id is never given to a   *)
(* second user, and a bulk delete of unknown ids succeeds.                 *)
(***************************************************************************)
EXTENDS ClaimStore

VARIABLES
    puser,   \* slots whose panel holds a user with that uuid
    wire,    \* slots with a create request in flight
    lock     \* panelMu: free, or held by a handler or by a cleanup job

panelVars == <<puser, wire, lock>>

PanelTypeOK ==
    /\ puser \in SUBSET Slots
    /\ wire \in SUBSET Slots
    /\ lock \in [Panels -> {"free", "handler", "cleanup"}]

PanelInit ==
    /\ puser = {}
    /\ wire = {}
    /\ lock = [p \in Panels |-> "free"]

Acquire(p, who) ==
    /\ lock[p] = "free"
    /\ lock' = [lock EXCEPT ![p] = who]

Release(p) == lock' = [lock EXCEPT ![p] = "free"]

\* What GetUser can answer for a slot: the user, 404, or any other failure.
Lookup(s) ==
    {IF s \in puser THEN "found" ELSE "absent"}
      \cup (IF "outage" \in Faults THEN {"unreachable"} ELSE {})
=============================================================================
