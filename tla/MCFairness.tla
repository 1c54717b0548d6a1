----------------------------- MODULE MCFairness -----------------------------
(***************************************************************************)
(* Instances of CoordinatorFairness: three agents, one utterance that      *)
(* names nobody, one connection, and the bids that posts without a score,  *)
(* with a malformed one and with scores out of range turn into.            *)
(***************************************************************************)
EXTENDS CoordinatorFairness

CONSTANTS hello, c1

Utterances == {hello}
Connections == {c1}
NobodyAddressed == [r \in Utterances |-> {}]
ListedOrder == <<2, 1, 3>>
WireScores == {-4, 12}
ArrivingBids == {NormalizeBid(raw) : raw \in RawBid(WireScores)}
============================================================================
