----------------------------- MODULE MCClaimSystem -----------------------------
(***************************************************************************)
(* Small instances of ClaimSystem for TLC.  The members of Users, Panels,  *)
(* Attempts and Jobs are model values; each configuration takes as many of *)
(* them as its question needs.                                             *)
(***************************************************************************)
EXTENDS ClaimInv

CONSTANTS amir, p1, p2, a1, a2, j1, j2
=============================================================================
