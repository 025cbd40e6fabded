------------------------------ MODULE MCVolumeDay ------------------------------
(***************************************************************************)
(* Small instances of VolumeDay for TLC.                                   *)
(***************************************************************************)
EXTENDS VolumeInv

CONSTANTS amir, sara, berlin, t1, t2

Symmetry == Permutations(Taps) \cup Permutations(Users)
=============================================================================
