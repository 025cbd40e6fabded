---------------------------- MODULE MCLiveDatabase ----------------------------
(***************************************************************************)
(* Small instances of LiveDatabase for TLC.                                *)
(***************************************************************************)
EXTENDS DatabaseInv, TLC

CONSTANTS x1, x2, cron, menu, r1, r2, owner

Symmetry == Permutations(Txs) \cup Permutations(Jobs) \cup Permutations(Restores)
=============================================================================
