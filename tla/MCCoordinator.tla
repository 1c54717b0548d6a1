--------------------------- MODULE MCCoordinator ---------------------------
(***************************************************************************)
(* Instances of the coordinator for TLC: two agents, two utterances of     *)
(* which one names an agent, two connections.                              *)
(***************************************************************************)
EXTENDS Coordinator, TLC

CONSTANTS hello, naming   \* utterances: "hello", and one with agent 2's name
CONSTANTS c1, c2          \* connections

Utterances == {hello, naming}
Connections == {c1, c2}
AddressedIn == (hello :> {}) @@ (naming :> {2})
DiscoveredOnly == <<>>
SomeBids == {NoBid, 7}
Symmetry == Permutations(Connections)
============================================================================
