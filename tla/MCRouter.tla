------------------------------ MODULE MCRouter ------------------------------
(***************************************************************************)
(* Instances of PersonaPlexRouter for TLC: two instances, two keys, three  *)
(* sessions.                                                               *)
(***************************************************************************)
EXTENDS PersonaPlexRouter, TLC

CONSTANTS room1, room2, s1, s2, s3

Keys == {room1, room2}
Sessions == {s1, s2, s3}
Symmetry == Permutations(Sessions)
============================================================================
