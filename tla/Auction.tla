------------------------------ MODULE Auction ------------------------------
(***************************************************************************)
(* Importance-score auction of the turn coordinator                        *)
(* (src/coordinator/auction.ts): which of the agents that asked for the    *)
(* floor gets it.                                                          *)
(*                                                                         *)
(* Agent ids are compared with indexOf and, in the last tie-break, with    *)
(* "<": they are positive naturals here.  A transcript is what the         *)
(* selection asks of it: the set `mentioned` of the agents whose display   *)
(* name it contains.                                                       *)
(***************************************************************************)
EXTENDS Integers, Sequences

CONSTANTS
  Agent,        \* ids of the agents
  AgentOrder    \* agentOrderIds: COORDINATOR_AGENTS in order, <<>> when unset

ASSUME AgentAssumption == Agent \subseteq Nat \ {0}
ASSUME AgentOrderAssumption == AgentOrder \in Seq(Agent)

NoAgent == 0

----------------------------------------------------------------------------
(* Bids.  Of a bid only the score decides; NoBid is an entry without one.  *)

MinScore == 0
MaxScore == 10
DefaultScore == 5
NoBid == -1

Score == MinScore .. MaxScore
Bid == Score \cup {NoBid}

\* What arrives on the wire: nothing, a bid whose score is not a finite number
\* (or that has none, or is not an object), or a bid with a finite score.
RawBid(Finite) ==
  [kind : {"absent", "malformed"}, score : {0}]
    \cup [kind : {"finite"}, score : Finite]

ClampScore(n) == IF n < MinScore THEN MinScore ELSE IF n > MaxScore THEN MaxScore ELSE n

NormalizeBid(raw) ==
  CASE raw.kind = "absent"    -> NoBid
    [] raw.kind = "malformed" -> DefaultScore
    [] raw.kind = "finite"    -> ClampScore(raw.score)

Entry == [agentId : Agent, bid : Bid]

----------------------------------------------------------------------------
(* Helpers shared with the coordinator's own selection.                    *)

\* The smallest element of a set of numbers, as a set: empty when S is.
First(S) == {i \in S : \A j \in S : i <= j}

\* Positions of the entries whose display name the transcript contains.
Addressed(entries, mentioned) == {i \in 1 .. Len(entries) : entries[i].agentId \in mentioned}

\* Agents that have an entry.
Requesters(entries) == {entries[i].agentId : i \in 1 .. Len(entries)}

\* Array.prototype.indexOf, positions from 1 and 0 for "not there".
IndexOf(order, a) ==
  LET at == {i \in 1 .. Len(order) : order[i] = a}
  IN  IF at = {} THEN 0 ELSE CHOOSE i \in at : \A j \in at : i <= j

----------------------------------------------------------------------------
(* runAward                                                                *)

WithBids(entries) == {i \in 1 .. Len(entries) : entries[i].bid # NoBid}

\* Entries that compete: those with a bid, or everybody at the default score.
Candidates(entries) == IF WithBids(entries) # {} THEN WithBids(entries) ELSE 1 .. Len(entries)

ScoreOf(entries, i) == IF entries[i].bid = NoBid THEN DefaultScore ELSE entries[i].bid

TieBreakOrder(entries) ==
  IF AgentOrder # <<>> THEN AgentOrder ELSE [i \in 1 .. Len(entries) |-> entries[i].agentId]

\* The loop body's question: does candidate c replace the best so far, b?
Replaces(entries, c, b) ==
  LET cIdx == IndexOf(TieBreakOrder(entries), entries[c].agentId)
      bIdx == IndexOf(TieBreakOrder(entries), entries[b].agentId)
  IN  \/ ScoreOf(entries, c) > ScoreOf(entries, b)
      \/ /\ ScoreOf(entries, c) = ScoreOf(entries, b)
         /\ \/ cIdx > 0 /\ (bIdx = 0 \/ cIdx < bIdx)
            \/ bIdx = 0 /\ cIdx = 0 /\ entries[c].agentId < entries[b].agentId

\* Faulty variant: compares with the first candidate, not with the best so far.
BestOverFirst(entries) ==
  LET best[n \in 0 .. Len(entries)] ==
        IF n = 0 THEN 0
        ELSE IF n \notin Candidates(entries) THEN best[n - 1]
        ELSE IF \A i \in First(Candidates(entries)) : i = n \/ Replaces(entries, n, i) THEN n
        ELSE best[n - 1]
  IN  best

\* The for loop: the best candidate among the first n entries, 0 before any.
BestSoFar(entries) ==
  LET best[n \in 0 .. Len(entries)] ==
        IF n = 0 THEN 0
        ELSE IF n \notin Candidates(entries) THEN best[n - 1]
        ELSE IF best[n - 1] = 0 \/ Replaces(entries, n, best[n - 1]) THEN n
        ELSE best[n - 1]
  IN  best

RunAward(entries, mentioned) ==
  LET named == Addressed(entries, mentioned)
  IN  IF named # {}
      THEN [winnerId |-> entries[CHOOSE i \in named : \A j \in named : i <= j].agentId,
            reason   |-> "name_addressing"]
      ELSE [winnerId |-> entries[BestSoFar(entries)[Len(entries)]].agentId,
            reason   |-> IF WithBids(entries) # {} THEN "auction" ELSE "round_robin"]

----------------------------------------------------------------------------
(* What the loop is for, without the loop: the candidates nobody else      *)
(* would replace.  The coordinator's model awards the turn to one of them; *)
(* CoordinatorFairness: there is exactly one, and the loop finds it.        *)

Unbeaten(entries) ==
  {i \in Candidates(entries) : \A j \in Candidates(entries) \ {i} : ~Replaces(entries, j, i)}

Awarded(entries, mentioned) ==
  LET named == Addressed(entries, mentioned)
  IN  {entries[i].agentId : i \in IF named # {} THEN First(named) ELSE Unbeaten(entries)}
============================================================================
