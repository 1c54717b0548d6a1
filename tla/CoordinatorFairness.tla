------------------------ MODULE CoordinatorFairness ------------------------
(***************************************************************************)
(* The coordinator's two ways of selecting, over every bucket that a       *)
(* collection window can build: by auction, and by round-robin with a      *)
(* record of how often each agent was passed over by which other, that is, *)
(* asked for the floor in a window and saw it granted to that one, since   *)
(* it last won or last did not ask.                                        *)
(***************************************************************************)
EXTENDS Coordinator

VARIABLE passedOver

fairnessVars == <<vars, passedOver>>

FairnessInit == Init /\ passedOver = [a \in Agent |-> [b \in Agent |-> 0]]

\* The bucket that this step flushes with a grant.
GrantedBucket == CHOOSE r \in Request : pendingRequests[r] # <<>> /\ pendingRequests'[r] = <<>>

\* Some agents asked and w won.
PassedOver(asked, w) ==
  [a \in Agent |-> [b \in Agent |->
     IF a \notin asked \ {w} THEN 0
     ELSE IF b = w THEN passedOver[a][b] + 1 ELSE passedOver[a][b]]]

FairnessNext ==
  /\ Next
  /\ passedOver' =
       IF issued' = issued THEN passedOver
       ELSE PassedOver(Requesters(pendingRequests[GrantedBucket]), currentSpeaker')

FairnessSpec == FairnessInit /\ [][FairnessNext]_fairnessVars

\* Nobody is starved: an agent that asks in every window is passed over by each
\* other agent at most once before it wins, whichever of the others ask with it
\* (runSelection walks on from lastRespondentIndex, index.ts:97).
NobodyIsPassedOverTwice == \A a, b \in Agent : passedOver[a][b] <= 1

\* The pairwise loop of runAward finds the one entry no other would replace
\* (auction.ts:86-99): its three-way comparison orders the candidates strictly,
\* whatever bids came and were updated, and in whichever order.
LoopFindsTheUnbeaten ==
  \A r \in Request :
    pendingRequests[r] # <<>> =>
      Awarded(pendingRequests[r], Mentions[r]) = {RunAward(pendingRequests[r], Mentions[r]).winnerId}
============================================================================
