----------------------------- MODULE MCChannelGate -----------------------------
(***************************************************************************)
(* Small instances of ChannelGate for TLC.                                 *)
(***************************************************************************)
EXTENDS GateInv

CONSTANTS amir, sara, news, shop, club, h1, h2
=============================================================================
