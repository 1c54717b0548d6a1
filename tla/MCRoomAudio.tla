---------------------------- MODULE MCRoomAudio ----------------------------
(***************************************************************************)
(* Instances of RoomAudio: one participant who renegotiates from a track   *)
(* to another, two participants, one whose audio pauses and whose binding  *)
(* fails once, and one who is muted and whose binding fails once; for the  *)
(* last two the statistics may come late.                                  *)
(***************************************************************************)
EXTENDS RoomAudio

CONSTANTS p1, p2

OneTrack == [t \in {1} |-> p1]
Renegotiating == [t \in Track |-> p1]
TwoSpeakers == [t \in Track |-> IF t = 1 THEN p1 ELSE p2]

Rooms ==
  {[owner |-> Renegotiating, failures |-> 0, late |-> 0, pauses |-> FALSE, muted |-> FALSE],
   [owner |-> TwoSpeakers, failures |-> 0, late |-> 0, pauses |-> FALSE, muted |-> FALSE],
   [owner |-> OneTrack, failures |-> 1, late |-> 1, pauses |-> TRUE, muted |-> FALSE],
   [owner |-> OneTrack, failures |-> 1, late |-> 1, pauses |-> TRUE, muted |-> TRUE]}
=============================================================================
