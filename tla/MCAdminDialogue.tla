---------------------------- MODULE MCAdminDialogue ----------------------------
(***************************************************************************)
(* Small instances of AdminDialogue for TLC.                               *)
(***************************************************************************)
EXTENDS DialogueInv, TLC

CONSTANTS owner, helper, u1, u2, link1, shop, berlin, none, photo

Symmetry == Permutations(Updates) \cup Permutations(Items)
=============================================================================
