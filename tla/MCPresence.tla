----------------------------- MODULE MCPresence -----------------------------
(***************************************************************************)
(* Instances of RoomSession for TLC: two utterances that may overlap.      *)
(***************************************************************************)
EXTENDS RoomSession

CONSTANTS u1, u2

Utterances == {u1, u2}
============================================================================
