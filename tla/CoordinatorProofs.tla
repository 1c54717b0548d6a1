------------------------- MODULE CoordinatorProofs -------------------------
(***************************************************************************)
(* Proofs about the turn coordinator, for any agents, utterances,          *)
(* connections, bids and bounds.                                           *)
(***************************************************************************)
EXTENDS CoordinatorFairness, SequenceTheorems, FiniteSetTheorems, TLAPS

----------------------------------------------------------------------------
(* The loop of runAward.  Induction over its rounds is an argument about   *)
(* the first round that would be wrong.                                    *)

\* A nonempty set of numbers has a least one.
LEMMA LeastNumber ==
  ASSUME NEW T, T \subseteq Nat, T # {}
  PROVE  \E n \in T : \A m \in T : n <= m
<1>1. PICK n \in T : \A m \in T : ~(<<m, n>> \in OpToRel(<, Nat))
  BY NatLessThanWellFounded, WFMin, Zenon
<1>2. \A m \in T : ~(m < n)
  BY <1>1 DEF OpToRel
<1> QED
  BY <1>2

\* One round of the loop.
Round(entries, f, n) ==
  IF n = 0 THEN 0
  ELSE IF n \notin Candidates(entries) THEN f[n - 1]
  ELSE IF f[n - 1] = 0 \/ Replaces(entries, n, f[n - 1]) THEN n
  ELSE f[n - 1]

\* The recursive function that stands for the loop is what its equation says:
\* there is a function for every number of rounds.
LEMMA BestIsDefined ==
  ASSUME NEW entries, Len(entries) \in Nat
  PROVE  BestSoFar(entries) = [n \in 0 .. Len(entries) |-> Round(entries, BestSoFar(entries), n)]
<1> DEFINE Is(m, f) == f = [n \in 0 .. m |-> Round(entries, f, n)]
           T == {m \in Nat : ~\E f : Is(m, f)}
<1>1. T = {}
  <2> SUFFICES ASSUME T # {} PROVE FALSE
    OBVIOUS
  <2>1. PICK m \in T : \A k \in T : m <= k
    BY LeastNumber
  <2>2. m \in Nat /\ ~\E f : Is(m, f)
    OBVIOUS
  <2>3. CASE m = 0
    <3>1. Is(0, [n \in 0 .. 0 |-> 0])
      BY DEF Round
    <3> QED
      BY <2>2, <2>3, <3>1
  <2>4. CASE m # 0
    <3>1. m - 1 \in Nat /\ m - 1 \notin T
      BY <2>1, <2>2, <2>4
    <3>2. PICK f : Is(m - 1, f)
      BY <3>1
    <3> DEFINE g == [n \in 0 .. m |-> IF n = m THEN Round(entries, f, m) ELSE f[n]]
    <3>3. \A n \in 0 .. m - 1 : g[n] = f[n] /\ f[n] = Round(entries, f, n)
      BY <2>2, <3>2
    <3>4. \A n \in 0 .. m : Round(entries, g, n) = Round(entries, f, n)
      BY <2>2, <2>4, <3>3 DEF Round
    <3>5. \A n \in 0 .. m : g[n] = Round(entries, g, n)
      BY <2>2, <3>3, <3>4
    <3>6. Is(m, g)
      BY <3>5
    <3> QED
      BY <2>2, <3>6
  <2> QED
    BY <2>3, <2>4
<1>2. \E f : Is(Len(entries), f)
  BY <1>1
<1>3. BestSoFar(entries) = CHOOSE f : Is(Len(entries), f)
  BY DEF BestSoFar, Round
<1> QED
  BY <1>2, <1>3

\* A position of the tie-break order holds the agent it is the position of.
LEMMA IndexOfFinds ==
  ASSUME NEW order, Len(order) \in Nat, NEW a
  PROVE  /\ IndexOf(order, a) \in Nat
         /\ IndexOf(order, a) # 0 => order[IndexOf(order, a)] = a
<1> DEFINE at == {i \in 1 .. Len(order) : order[i] = a}
<1>1. CASE at = {}
  BY <1>1 DEF IndexOf
<1>2. CASE at # {}
  <2>1. \E i \in at : \A j \in at : i <= j
    <3>1. at \subseteq Nat
      OBVIOUS
    <3> HIDE DEF at
    <3> QED
      BY <1>2, <3>1, LeastNumber
  <2>2. IndexOf(order, a) \in at
    BY <1>2, <2>1 DEF IndexOf
  <2> QED
    BY <2>2
<1> QED
  BY <1>1, <1>2

\* An agent has one entry in a bucket.
OneEntryEach(entries) ==
  \A i, j \in 1 .. Len(entries) : entries[i].agentId = entries[j].agentId => i = j

\* The three-way comparison orders the entries of a bucket strictly: by score,
\* by the position in the order, and by id.
LEMMA ReplacesIsOrder ==
  ASSUME NEW entries \in Seq(Entry), OneEntryEach(entries)
  PROVE  \A i, j, k \in 1 .. Len(entries) :
           /\ ~(Replaces(entries, i, j) /\ Replaces(entries, j, i))
           /\ i # j => Replaces(entries, i, j) \/ Replaces(entries, j, i)
           /\ Replaces(entries, i, j) /\ Replaces(entries, j, k) => Replaces(entries, i, k)
<1> DEFINE E == 1 .. Len(entries)
           id(i) == entries[i].agentId
           score(i) == ScoreOf(entries, i)
           idx(i) == IndexOf(TieBreakOrder(entries), id(i))
<1>1. \A i \in E : id(i) \in Nat /\ score(i) \in Int
  <2> SUFFICES ASSUME NEW i \in E PROVE id(i) \in Nat /\ score(i) \in Int
    OBVIOUS
  <2>0. entries[i] \in Entry
    OBVIOUS
  <2>1. entries[i].agentId \in Agent /\ entries[i].bid \in Bid
    BY <2>0 DEF Entry
  <2>2. entries[i].bid \in Int
    BY <2>1 DEF Bid, Score, NoBid, MinScore, MaxScore
  <2>3. score(i) \in Int
    BY <2>2 DEF DefaultScore, ScoreOf
  <2>4. id(i) \in Nat
    BY <2>1, AgentAssumption
  <2> QED
    BY <2>3, <2>4
<1>2. Len(TieBreakOrder(entries)) \in Nat
  <2>1. CASE AgentOrder # <<>>
    BY <2>1, AgentOrderAssumption DEF TieBreakOrder
  <2>2. CASE AgentOrder = <<>>
    <3>1. TieBreakOrder(entries) = [i \in 1 .. Len(entries) |-> entries[i].agentId]
      BY <2>2 DEF TieBreakOrder
    <3>2. TieBreakOrder(entries) \in Seq(Nat)
      BY <1>1, <3>1
    <3> QED
      BY <3>2
  <2> QED
    BY <2>1, <2>2
<1>3. \A i \in E : idx(i) \in Nat /\ (idx(i) # 0 => TieBreakOrder(entries)[idx(i)] = id(i))
  BY <1>2, IndexOfFinds
<1>4. \A i, j \in E : i # j => id(i) # id(j)
  BY DEF OneEntryEach
<1>5. \A i, j \in E : i # j /\ idx(i) # 0 => idx(i) # idx(j)
  BY <1>3, <1>4
<1>6. \A i, j \in E :
        Replaces(entries, i, j) <=>
          \/ score(i) > score(j)
          \/ /\ score(i) = score(j)
             /\ \/ idx(i) > 0 /\ (idx(j) = 0 \/ idx(i) < idx(j))
                \/ idx(j) = 0 /\ idx(i) = 0 /\ id(i) < id(j)
  BY DEF Replaces
<1> HIDE DEF E, id, score, idx
<1>7. \A i, j \in E : ~(Replaces(entries, i, j) /\ Replaces(entries, j, i))
  <2> SUFFICES ASSUME NEW i \in E, NEW j \in E
               PROVE  ~(Replaces(entries, i, j) /\ Replaces(entries, j, i))
    OBVIOUS
  <2> QED
    BY <1>1, <1>3, <1>6
<1>8. \A i, j \in E : i # j => Replaces(entries, i, j) \/ Replaces(entries, j, i)
  <2> SUFFICES ASSUME NEW i \in E, NEW j \in E, i # j
               PROVE  Replaces(entries, i, j) \/ Replaces(entries, j, i)
    OBVIOUS
  <2>1. /\ id(i) \in Nat /\ id(j) \in Nat /\ id(i) # id(j)
        /\ idx(i) \in Nat /\ idx(j) \in Nat /\ (idx(i) # 0 => idx(i) # idx(j))
        /\ score(i) \in Int /\ score(j) \in Int
    BY <1>1, <1>3, <1>4, <1>5
  <2> QED
    BY <1>6, <2>1
<1>9. \A i, j, k \in E :
        Replaces(entries, i, j) /\ Replaces(entries, j, k) => Replaces(entries, i, k)
  BY <1>1, <1>3, <1>6
<1> QED
  BY <1>7, <1>8, <1>9 DEF E

\* What the loop has after n entries: the best candidate among them, if any.
IsBest(entries, n, b) ==
  LET seen == {j \in Candidates(entries) : j <= n}
  IN  /\ b = 0 => seen = {}
      /\ b # 0 => b \in seen /\ \A j \in seen \ {b} : ~Replaces(entries, j, b)

\* Each round keeps that.
LEMMA LoopKeepsBest ==
  ASSUME NEW entries \in Seq(Entry), OneEntryEach(entries)
  PROVE  \A n \in 0 .. Len(entries) : IsBest(entries, n, BestSoFar(entries)[n])
<1> DEFINE best == BestSoFar(entries)
           C == Candidates(entries)
           T == {n \in 0 .. Len(entries) : ~IsBest(entries, n, best[n])}
<1>1. Len(entries) \in Nat /\ C \subseteq 1 .. Len(entries)
  BY DEF Candidates, WithBids
<1>2. \A n \in 0 .. Len(entries) : best[n] = Round(entries, best, n)
  <2>1. best = [n \in 0 .. Len(entries) |-> Round(entries, best, n)]
    BY <1>1, BestIsDefined
  <2> HIDE DEF best
  <2> QED
    BY <2>1
<1> HIDE DEF best
<1>3. \A n \in 0 .. Len(entries) : IsBest(entries, n, best[n])
  <2> SUFFICES ASSUME T # {} PROVE FALSE
    OBVIOUS
  <2>0. T \subseteq Nat
    OBVIOUS
  <2>1. PICK n \in T : \A m \in T : n <= m
    <3> HIDE DEF T
    <3> QED
      BY <2>0, LeastNumber
  <2>2. n \in 0 .. Len(entries) /\ ~IsBest(entries, n, best[n])
    OBVIOUS
  <2>3. CASE n = 0
    BY <1>1, <1>2, <2>2, <2>3 DEF Round, IsBest
  <2>4. CASE n # 0
    <3>1. n - 1 \in 0 .. Len(entries) /\ n - 1 \notin T /\ n \in 1 .. Len(entries)
      BY <1>1, <2>1, <2>2, <2>4
    <3>2. PICK b : b = best[n - 1] /\ IsBest(entries, n - 1, b)
      BY <3>1
    <3>3. best[n] = IF n \notin C THEN b ELSE IF b = 0 \/ Replaces(entries, n, b) THEN n ELSE b
      BY <1>2, <2>2, <2>4, <3>2 DEF Round
    <3> DEFINE seen(m) == {j \in C : j <= m}
    <3>4. \A j : j \in seen(n) <=> j \in seen(n - 1) \/ (j = n /\ n \in C)
      BY <1>1, <3>1
    <3>5. b # 0 => b \in 1 .. Len(entries) /\ b # n
      BY <1>1, <3>1, <3>2 DEF IsBest
    <3>6. /\ b = 0 => seen(n - 1) = {}
          /\ b # 0 => b \in seen(n - 1) /\ \A j \in seen(n - 1) \ {b} : ~Replaces(entries, j, b)
      BY <3>2 DEF IsBest
    <3>7. \A j \in seen(n - 1) : j \in 1 .. Len(entries)
      BY <1>1
    <3>8. IsBest(entries, n, best[n]) <=>
            /\ best[n] = 0 => seen(n) = {}
            /\ best[n] # 0 => best[n] \in seen(n) /\ \A j \in seen(n) \ {best[n]} : ~Replaces(entries, j, best[n])
      BY DEF IsBest
    <3> HIDE DEF seen, C
    <3>9. CASE n \notin C
      BY <2>2, <3>3, <3>4, <3>6, <3>8, <3>9
    <3>10. CASE n \in C /\ b = 0
      BY <2>2, <2>4, <3>3, <3>4, <3>6, <3>8, <3>10
    <3>11. CASE n \in C /\ b # 0 /\ Replaces(entries, n, b)
      <4>1. \A j \in seen(n - 1) : ~Replaces(entries, j, n)
        BY <3>1, <3>5, <3>6, <3>7, <3>11, ReplacesIsOrder
      <4> QED
        BY <2>2, <2>4, <3>3, <3>4, <3>8, <3>11, <4>1
    <3>12. CASE n \in C /\ b # 0 /\ ~Replaces(entries, n, b)
      BY <2>2, <3>3, <3>4, <3>6, <3>8, <3>12
    <3> QED
      BY <3>9, <3>10, <3>11, <3>12
  <2> QED
    BY <2>3, <2>4
<1> QED
  BY <1>3 DEF best

\* The loop ends with the one candidate that no other would replace.
LEMMA LoopEndsWithUnbeaten ==
  ASSUME NEW entries \in Seq(Entry), OneEntryEach(entries), entries # <<>>
  PROVE  Unbeaten(entries) = {BestSoFar(entries)[Len(entries)]}
<1> DEFINE C == Candidates(entries)
<1>1. PICK n \in Nat : n = Len(entries) /\ n # 0
  BY EmptySeq
<1>2. C \subseteq 1 .. n /\ C # {}
  BY <1>1 DEF Candidates, WithBids
<1>3. PICK b : b = BestSoFar(entries)[Len(entries)] /\ IsBest(entries, n, b)
  BY <1>1, LoopKeepsBest
<1>4. b \in C /\ \A j \in C \ {b} : ~Replaces(entries, j, b)
  BY <1>2, <1>3 DEF IsBest
<1>5. \A j \in C \ {b} : Replaces(entries, b, j)
  BY <1>1, <1>2, <1>4, ReplacesIsOrder
<1> QED
  BY <1>3, <1>4, <1>5 DEF Unbeaten

\* The auction awards the turn to exactly the agent that runAward returns.
LEMMA AwardIsUnique ==
  ASSUME NEW entries \in Seq(Entry), OneEntryEach(entries), entries # <<>>, NEW mentioned
  PROVE  Awarded(entries, mentioned) = {RunAward(entries, mentioned).winnerId}
<1> DEFINE named == Addressed(entries, mentioned)
<1>1. CASE named # {}
  <2>1. named \subseteq Nat
    BY DEF Addressed
  <2>2. PICK i \in named : \A j \in named : i <= j
    BY <1>1, <2>1, LeastNumber
  <2>3. First(named) = {i}
    BY <2>1, <2>2 DEF First
  <2>4. (CHOOSE k \in named : \A j \in named : k <= j) = i
    BY <2>1, <2>2
  <2> QED
    BY <1>1, <2>3, <2>4 DEF Awarded, RunAward
<1>2. CASE named = {}
  <2>1. RunAward(entries, mentioned).winnerId = entries[BestSoFar(entries)[Len(entries)]].agentId
    BY <1>2 DEF RunAward
  <2> QED
    BY <1>2, <2>1, LoopEndsWithUnbeaten DEF Awarded
<1> QED
  BY <1>1, <1>2

----------------------------------------------------------------------------
(* Selection                                                               *)

\* Whatever rule picks the winner of a bucket - a name in the transcript,
\* round robin, the unlisted fallback or the auction - it is an agent that
\* posted to that bucket, and the round-robin state keeps its type.
LEMMA ChosenIsRequester ==
  ASSUME TypeOK,
         NEW entries \in Seq(Entry), entries # <<>>,
         NEW mentioned, NEW w,
         Choose(entries, mentioned, w)
  PROVE  /\ w \in Requesters(entries)
         /\ lastRespondentIndex' \in Int /\ lastRespondentIndex' >= -1
         /\ discoveredOrder' \in Seq(Agent)
<1> DEFINE n == Len(entries)
<1>1. n \in Nat /\ n >= 1 /\ \A i \in 1 .. n : entries[i].agentId \in Agent
  <2>1. n \in Nat /\ n >= 1
    BY EmptySeq
  <2>2. \A i \in 1 .. n : entries[i] \in Entry
    OBVIOUS
  <2> QED
    BY <2>1, <2>2 DEF Entry
<1>2. CASE UNCHANGED selectionVars /\ \E i \in 1 .. n : w = entries[i].agentId
  BY <1>2 DEF TypeOK, selectionVars, Requesters
<1>3. CASE SelectAddressed(entries, mentioned, w)
  BY <1>2, <1>3 DEF SelectAddressed, First, Addressed
<1>4. CASE SelectRoundRobin(entries, mentioned, w)
  <2>1. PICK i \in Hits(entries) :
          /\ w = Order[((lastRespondentIndex + i) % Len(Order)) + 1]
          /\ lastRespondentIndex' = (lastRespondentIndex + i) % Len(Order)
    BY <1>4 DEF SelectRoundRobin, First
  <2>2. Order \in Seq(Agent)
    BY AgentOrderAssumption DEF Order, TypeOK
  <2>3. i \in 1 .. Len(Order) /\ w \in Requesters(entries)
    BY <2>1 DEF Hits
  <2>4. Len(Order) \in Nat /\ Len(Order) > 0
    BY <2>2, <2>3
  <2>5. lastRespondentIndex' \in Int /\ lastRespondentIndex' >= 0
    BY <2>1, <2>3, <2>4 DEF TypeOK
  <2> QED
    BY <1>4, <2>3, <2>5 DEF SelectRoundRobin, TypeOK
<1>5. CASE SelectUnlisted(entries, mentioned, w)
  <2>1. lastRespondentIndex' \in 0 .. n - 1
    BY <1>1, <1>5 DEF SelectUnlisted, TypeOK
  <2>2. w \in Requesters(entries)
    BY <1>1, <1>5, <2>1 DEF SelectUnlisted, Requesters
  <2>3. [i \in 1 .. n |-> entries[i].agentId] \in Seq(Agent)
    BY <1>1
  <2>4. discoveredOrder' \in Seq(Agent)
    BY <1>5, <2>3 DEF SelectUnlisted, TypeOK
  <2> QED
    BY <2>1, <2>2, <2>4, <1>1
<1>6. CASE w \in Awarded(entries, mentioned) /\ UNCHANGED selectionVars
  <2>1. \E i \in 1 .. n : w = entries[i].agentId
    BY <1>6 DEF Awarded, First, Addressed, Unbeaten, Candidates, WithBids
  <2> QED
    BY <1>2, <1>6, <2>1
<1> QED
  BY <1>3, <1>4, <1>5, <1>6 DEF Choose, RunSelection

\* Posting keeps a bucket a sequence of entries, and never leaves it empty.
LEMMA JoinedIsBucket ==
  ASSUME NEW entries \in Seq(Entry), NEW a \in Agent, NEW bid \in Bid
  PROVE  Joined(entries, a, bid) \in Seq(Entry) /\ Joined(entries, a, bid) # <<>>
<1>1. CASE a \notin Requesters(entries)
  <2>1. [agentId |-> a, bid |-> bid] \in Entry
    BY DEF Entry
  <2> QED
    BY <1>1, <2>1, AppendProperties DEF Joined
<1>2. CASE a \in Requesters(entries)
  <2>1. Len(entries) \in Nat /\ Len(entries) >= 1
    BY <1>2 DEF Requesters
  <2>2. CASE bid = NoBid
    BY <1>2, <2>1, <2>2 DEF Joined
  <2>3. CASE bid # NoBid
    <3> DEFINE f == [i \in 1 .. Len(entries) |->
          IF entries[i].agentId = a THEN [entries[i] EXCEPT !.bid = bid] ELSE entries[i]]
    <3>1. \A i \in 1 .. Len(entries) : f[i] \in Entry
      <4> SUFFICES ASSUME NEW i \in 1 .. Len(entries) PROVE f[i] \in Entry
        OBVIOUS
      <4>1. entries[i] \in Entry
        OBVIOUS
      <4> QED
        BY <4>1 DEF Entry
    <3>2. f \in Seq(Entry) /\ Len(f) = Len(entries)
      BY <2>1, <3>1
    <3> QED
      BY <1>2, <2>1, <2>3, <3>2 DEF Joined
  <2> QED
    BY <2>2, <2>3
<1> QED
  BY <1>1, <1>2

----------------------------------------------------------------------------
(* Trimming                                                                *)

\* The trimmed dialogue is a suffix of the dialogue, of bounded length, and
\* keeps the newest entry.
LEMMA TrimmedIsSuffix ==
  ASSUME NEW turns \in Seq(Turn), Len(turns) > 0
  PROVE  /\ Trimmed(turns) \in Seq(Turn)
         /\ \E k \in 1 .. Len(turns) :
              /\ Trimmed(turns) = SubSeq(turns, k, Len(turns))
              /\ Len(Trimmed(turns)) = Len(turns) - k + 1
              /\ Len(Trimmed(turns)) <= MaxRecentTurns
              /\ \A i \in 1 .. Len(Trimmed(turns)) : Trimmed(turns)[i] = turns[k + i - 1]
<1> USE MaxRecentTurnsAssumption
<1> DEFINE k == IF Len(turns) <= MaxRecentTurns THEN 1 ELSE Len(turns) - MaxRecentTurns + 1
           s == SubSeq(turns, k, Len(turns))
<1>1. Len(turns) \in Nat
  OBVIOUS
<1>2. k \in 1 .. Len(turns) /\ k \in Nat /\ Len(turns) - k + 1 <= MaxRecentTurns
  BY <1>1
<1>3. Trimmed(turns) = s
  <2>1. CASE Len(turns) <= MaxRecentTurns
    <3>1. k = 1
      BY <2>1
    <3>2. SubSeq(turns, 1, Len(turns)) = turns
      BY SubSeqFull
    <3>3. Trimmed(turns) = turns
      BY <2>1, <1>1 DEF Trimmed
    <3> QED
      BY <3>1, <3>2, <3>3
  <2>2. CASE ~(Len(turns) <= MaxRecentTurns)
    BY <2>2, <1>1 DEF Trimmed
  <2> QED
    BY <2>1, <2>2
<1> HIDE DEF k
<1>4. s \in Seq(Turn)
  BY <1>1, <1>2, SubSeqProperties
<1>5. Len(s) = Len(turns) - k + 1
  BY <1>1, <1>2
<1>6. \A i \in 1 .. Len(s) : s[i] = turns[k + i - 1]
  BY <1>1, <1>2, <1>5
<1>7. Len(s) <= MaxRecentTurns
  BY <1>2, <1>5
<1>8. s = SubSeq(turns, k, Len(turns))
  OBVIOUS
<1> HIDE DEF s
<1>9. \E kk \in 1 .. Len(turns) :
        /\ s = SubSeq(turns, kk, Len(turns))
        /\ Len(s) = Len(turns) - kk + 1
        /\ Len(s) <= MaxRecentTurns
        /\ \A i \in 1 .. Len(s) : s[i] = turns[kk + i - 1]
  BY <1>2, <1>5, <1>6, <1>7, <1>8
<1> QED
  BY <1>3, <1>4, <1>9

----------------------------------------------------------------------------
(* The inductive invariant.  None of the parts is inductive alone: the     *)
(* order of the dialogue needs that ids are at most `issued`, a grant is   *)
(* announced once because its id is new, and a live grant stays announced  *)
(* because no bucket of its utterance is open, which in turn holds because *)
(* buckets are opened only while the floor is free.                        *)

IInv ==
  /\ TypeOK
  /\ FloorHasLease
  /\ LiveGrantIsAnnounced
  /\ OneWinnerPerGrant
  /\ DialogueInGrantOrder

LEMMA InitIInv == Init => IInv
<1> SUFFICES ASSUME Init PROVE IInv
  OBVIOUS
<1> USE DEF Init
<1>1. TypeOK
  BY MaxBucketsAssumption DEF TypeOK, Lease, NoLease, NoTurn, Decision, Undecided
<1>2. FloorHasLease /\ LiveGrantIsAnnounced /\ OneWinnerPerGrant
  BY DEF FloorHasLease, LiveGrantIsAnnounced, OneWinnerPerGrant, Undecided
<1>3. DialogueInGrantOrder
  BY MaxRecentTurnsAssumption, Len(<<>>) = 0 DEF DialogueInGrantOrder
<1> QED
  BY <1>1, <1>2, <1>3 DEF IInv

\* Noticing an expired lease, or not, keeps the invariant.
LEMMA ExpiryKeepsIInv ==
  ASSUME IInv, CheckLeaseExpiry, conn' \in [Conn -> {Idle} \cup Post],
         UNCHANGED <<lastSpeakerId, selectionVars, recentTurns, pendingRequests,
                     decisions, issued, opened>>
  PROVE  IInv'
<1>1. \/ UNCHANGED floorVars
      \/ currentSpeaker' = NoAgent /\ currentLease' = NoLease
  BY DEF CheckLeaseExpiry, SpeakerNow, LeaseNow, floorVars
<1>2. TypeOK'
  <2>1. NoLease \in Lease
    BY DEF Lease, NoLease, NoTurn
  <2>2. currentSpeaker' \in Agent \cup {NoAgent} /\ currentLease' \in Lease
    BY <1>1, <2>1 DEF IInv, TypeOK, floorVars
  <2> QED
    BY <2>2 DEF IInv, TypeOK, selectionVars
<1>3. FloorHasLease'
  BY <1>1 DEF IInv, FloorHasLease, floorVars
<1>4. LiveGrantIsAnnounced'
  BY <1>1 DEF IInv, LiveGrantIsAnnounced, floorVars
<1>5. OneWinnerPerGrant'
  BY DEF IInv, OneWinnerPerGrant
<1>6. DialogueInGrantOrder'
  BY <1>1 DEF IInv, DialogueInGrantOrder, floorVars
<1> QED
  BY <1>2, <1>3, <1>4, <1>5, <1>6 DEF IInv

LEMMA LeaseEndsKeepsIInv ==
  ASSUME IInv, LeaseEnds
  PROVE  IInv'
<1> USE DEF IInv, LeaseEnds
<1>1. currentLease' = [turnId |-> currentLease.turnId, expired |-> TRUE]
  BY DEF TypeOK, Lease
<1>2. TypeOK'
  <2>1. currentLease' \in Lease
    BY <1>1 DEF TypeOK, Lease
  <2> QED
    BY <2>1 DEF TypeOK, selectionVars
<1>3. FloorHasLease'
  <2>1. currentSpeaker # NoAgent /\ currentLease.turnId \in 1 .. issued
    BY DEF FloorHasLease
  <2> QED
    BY <1>1, <2>1 DEF FloorHasLease, NoLease, NoTurn
<1>5. LiveGrantIsAnnounced' /\ OneWinnerPerGrant'
  BY <1>1 DEF LiveGrantIsAnnounced, OneWinnerPerGrant
<1>4. DialogueInGrantOrder'
  BY <1>1 DEF DialogueInGrantOrder
<1> QED
  BY <1>2, <1>3, <1>4, <1>5

LEMMA DenyKeepsIInv ==
  ASSUME IInv, NEW r \in Request, FlushRequest(r), DenyAll(r)
  PROVE  IInv'
<1> USE DEF IInv, FlushRequest, DenyAll
<1>1. UNCHANGED floorVars /\ currentSpeaker # NoAgent
  BY DEF CheckLeaseExpiry, SpeakerNow, LeaseNow, floorVars
<1>2. TypeOK'
  BY <1>1 DEF TypeOK, floorVars, selectionVars, Decision, NoTurn
<1>3. FloorHasLease'
  BY <1>1 DEF FloorHasLease, floorVars
<1>4. LiveGrantIsAnnounced'
  <2>1. PICK q \in Request :
          /\ decisions[q].turnId = currentLease.turnId
          /\ decisions[q].allowed = {currentSpeaker}
          /\ pendingRequests[q] = <<>>
    BY <1>1 DEF LiveGrantIsAnnounced
  <2>2. q # r
    BY <2>1
  <2> QED
    BY <1>1, <2>1, <2>2 DEF LiveGrantIsAnnounced, floorVars, TypeOK
<1>5. OneWinnerPerGrant'
  BY DEF OneWinnerPerGrant, TypeOK, NoTurn
<1>6. DialogueInGrantOrder'
  BY <1>1 DEF DialogueInGrantOrder, floorVars
<1> QED
  BY <1>2, <1>3, <1>4, <1>5, <1>6

LEMMA GrantKeepsIInv ==
  ASSUME IInv, NEW r \in Request, NEW w \in Agent, FlushRequest(r), Grant(r, w)
  PROVE  IInv'
<1> USE DEF IInv
<1>1. pendingRequests[r] \in Seq(Entry) /\ pendingRequests[r] # <<>>
  BY DEF TypeOK, FlushRequest
<1>2. /\ w \in Requesters(pendingRequests[r])
      /\ lastRespondentIndex' \in Int /\ lastRespondentIndex' >= -1
      /\ discoveredOrder' \in Seq(Agent)
  BY <1>1, ChosenIsRequester DEF Grant
<1>3. /\ issued \in Nat /\ issued' = issued + 1
      /\ currentSpeaker' = w
      /\ currentLease' = [turnId |-> issued + 1, expired |-> FALSE]
      /\ decisions' = [decisions EXCEPT ![r] =
           [decided |-> TRUE, allowed |-> {w}, turnId |-> issued + 1]]
      /\ pendingRequests' = [pendingRequests EXCEPT ![r] = <<>>]
      /\ UNCHANGED <<lastSpeakerId, recentTurns, conn, opened>>
  BY <1>2 DEF Grant, FlushRequest, TypeOK
<1>4. TypeOK'
  BY <1>2, <1>3 DEF TypeOK, Lease, Decision
<1>5. FloorHasLease'
  BY <1>3, AgentAssumption DEF FloorHasLease, NoLease, NoTurn, NoAgent
<1>6. LiveGrantIsAnnounced'
  BY <1>3 DEF LiveGrantIsAnnounced, TypeOK
<1>7. OneWinnerPerGrant'
  <2> SUFFICES ASSUME NEW q \in Request, decisions'[q].turnId # NoTurn
               PROVE  /\ decisions'[q].turnId <= issued'
                      /\ \E a \in Agent : decisions'[q].allowed = {a}
                      /\ \A p \in Request \ {q} : decisions'[p].turnId # decisions'[q].turnId
    BY DEF OneWinnerPerGrant
  <2>1. \A p \in Request : decisions[p].turnId \in Nat /\ decisions[p].turnId <= issued
    <3> SUFFICES ASSUME NEW p \in Request
                 PROVE  decisions[p].turnId \in Nat /\ decisions[p].turnId <= issued
      OBVIOUS
    <3>1. decisions[p] \in Decision
      BY DEF TypeOK
    <3>2. decisions[p].turnId \in Nat
      BY <3>1 DEF Decision
    <3> QED
      BY <1>3, <3>2 DEF OneWinnerPerGrant, NoTurn
  <2>2. CASE q = r
    <3>1. decisions'[q] = [decided |-> TRUE, allowed |-> {w}, turnId |-> issued + 1]
      BY <1>3, <2>2 DEF TypeOK
    <3>2. \A p \in Request \ {q} : decisions'[p] = decisions[p]
      BY <1>3, <2>2 DEF TypeOK
    <3> QED
      BY <1>3, <2>1, <3>1, <3>2
  <2>3. CASE q # r
    <3>1. decisions'[q] = decisions[q] /\ decisions'[r].turnId = issued + 1
      BY <1>3, <2>3 DEF TypeOK
    <3>2. /\ decisions[q].turnId <= issued
          /\ \E a \in Agent : decisions[q].allowed = {a}
          /\ \A p \in Request \ {q} : decisions[p].turnId # decisions[q].turnId
      BY <3>1 DEF OneWinnerPerGrant
    <3>3. \A p \in Request \ {r} : decisions'[p] = decisions[p]
      BY <1>3 DEF TypeOK
    <3>4. \A p \in Request \ {q} : decisions'[p].turnId # decisions'[q].turnId
      <4> SUFFICES ASSUME NEW p \in Request \ {q}
                   PROVE  decisions'[p].turnId # decisions'[q].turnId
        OBVIOUS
      <4>1. CASE p = r
        BY <1>3, <2>1, <3>1, <4>1
      <4>2. CASE p # r
        BY <3>1, <3>2, <3>3, <4>2
      <4> QED
        BY <4>1, <4>2
    <3> QED
      BY <1>3, <2>1, <3>1, <3>2, <3>4
  <2> QED
    BY <2>2, <2>3
<1>8. DialogueInGrantOrder'
  <2>1. \A i \in 1 .. Len(recentTurns) : recentTurns[i].turnId \in Nat
    <3>1. \A i \in 1 .. Len(recentTurns) : recentTurns[i] \in Turn
      BY DEF TypeOK
    <3> QED
      BY <3>1 DEF Turn
  <2> QED
    BY <1>3, <2>1 DEF DialogueInGrantOrder
<1> QED
  BY <1>4, <1>5, <1>6, <1>7, <1>8

LEMMA RequestTurnKeepsIInv ==
  ASSUME IInv, NEW c \in Conn, NEW reply, RequestTurn(c, reply)
  PROVE  IInv'
<1> USE DEF IInv
<1> DEFINE post == conn[c]
           r == post.requestId
<1>1. /\ conn' = [conn EXCEPT ![c] = Idle]
      /\ UNCHANGED <<floorVars, lastSpeakerId, selectionVars, recentTurns, decisions, issued>>
  BY DEF RequestTurn
<1>2. post \in RequestTurnPost
  BY DEF RequestTurn, TypeOK, Idle, Post, EndTurnPost
<1>3. r \in Request /\ post.agentId \in Agent /\ post.bid \in Bid
  BY <1>2, BidsAssumption DEF RequestTurnPost
<1>4. \/ UNCHANGED <<pendingRequests, opened>>
      \/ /\ currentSpeaker = NoAgent
         /\ opened' \in Nat
         /\ pendingRequests' \in [Request -> Seq(Entry)]
  <2>1. CASE currentSpeaker # NoAgent
    BY <2>1 DEF RequestTurn
  <2>2. CASE currentSpeaker = NoAgent
    <3>1. pendingRequests[r] \in Seq(Entry)
      BY <1>3 DEF TypeOK
    <3>2. Joined(pendingRequests[r], post.agentId, post.bid) \in Seq(Entry)
      BY <1>3, <3>1, JoinedIsBucket
    <3>3. pendingRequests' = [pendingRequests EXCEPT ![r] =
                                Joined(pendingRequests[r], post.agentId, post.bid)]
      BY <2>2 DEF RequestTurn
    <3>4. opened' \in Nat
      BY <2>2 DEF RequestTurn, TypeOK
    <3> QED
      BY <1>3, <2>2, <3>2, <3>3, <3>4 DEF TypeOK
  <2> QED
    BY <2>1, <2>2
<1>5. TypeOK'
  BY <1>1, <1>4 DEF TypeOK, floorVars, selectionVars
<1>6. FloorHasLease' /\ OneWinnerPerGrant' /\ DialogueInGrantOrder'
  BY <1>1 DEF FloorHasLease, OneWinnerPerGrant, DialogueInGrantOrder, floorVars
<1>7. LiveGrantIsAnnounced'
  BY <1>1, <1>4 DEF LiveGrantIsAnnounced, floorVars
<1> QED
  BY <1>5, <1>6, <1>7

LEMMA EndTurnKeepsIInv ==
  ASSUME IInv, NEW c \in Conn, NEW reply, EndTurn(c, reply)
  PROVE  IInv'
<1> USE DEF IInv
<1> DEFINE post == conn[c]
<1>1. /\ conn' = [conn EXCEPT ![c] = Idle]
      /\ UNCHANGED <<selectionVars, pendingRequests, decisions, issued, opened>>
  BY DEF EndTurn
<1>2. conn' \in [Conn -> {Idle} \cup Post]
  BY <1>1 DEF TypeOK
<1>3. CASE UNCHANGED <<floorVars, lastSpeakerId, recentTurns>>
  <2>1. TypeOK'
    BY <1>1, <1>2, <1>3 DEF TypeOK, floorVars, selectionVars
  <2>2. FloorHasLease' /\ OneWinnerPerGrant' /\ DialogueInGrantOrder' /\ LiveGrantIsAnnounced'
    BY <1>1, <1>3 DEF FloorHasLease, OneWinnerPerGrant, DialogueInGrantOrder,
                      LiveGrantIsAnnounced, floorVars
  <2> QED
    BY <2>1, <2>2
<1>4. CASE MatchesLease(post.turnId) /\ currentSpeaker = post.agentId
  <2>1. post \in EndTurnPost
    BY DEF EndTurn, TypeOK, Idle, Post, RequestTurnPost
  <2>2. post.agentId \in Agent /\ post.turnId \in Nat
    BY <2>1 DEF EndTurnPost
  <2>3. currentSpeaker \in Agent /\ currentSpeaker # NoAgent
    BY <1>4, <2>2, AgentAssumption DEF NoAgent
  <2>4. post.turnId = currentLease.turnId /\ currentLease.turnId \in 1 .. issued
    BY <1>4, <2>3 DEF MatchesLease, FloorHasLease
  <2> DEFINE turn == [agentId |-> post.agentId, turnId |-> post.turnId]
             all == Append(recentTurns, turn)
  <2>5. /\ lastSpeakerId' = post.agentId
        /\ currentSpeaker' = NoAgent
        /\ currentLease' = NoLease
        /\ recentTurns' = Trimmed(all)
    BY <1>4 DEF EndTurn
  <2>6. turn \in Turn
    BY <2>2 DEF Turn
  <2>7. /\ recentTurns \in Seq(Turn) /\ all \in Seq(Turn)
        /\ Len(recentTurns) \in Nat /\ Len(all) = Len(recentTurns) + 1
        /\ \A i \in 1 .. Len(recentTurns) : all[i] = recentTurns[i]
        /\ all[Len(all)] = turn
    BY <2>6 DEF TypeOK
  <2>8. \A i \in 1 .. Len(all) : all[i].turnId \in Nat /\ all[i].turnId <= issued
    <3>1. \A i \in 1 .. Len(all) : all[i] \in Turn
      BY <2>7
    <3>2. \A i \in 1 .. Len(all) : all[i].turnId \in Nat
      BY <3>1 DEF Turn
    <3>3. \A i \in 1 .. Len(recentTurns) : all[i].turnId <= issued
      BY <2>7 DEF DialogueInGrantOrder
    <3>4. all[Len(all)].turnId <= issued
      BY <2>4, <2>7
    <3> QED
      BY <2>7, <3>2, <3>3, <3>4
  <2>9. \A i, j \in 1 .. Len(all) : i < j => all[i].turnId < all[j].turnId
    <3>1. \A i, j \in 1 .. Len(recentTurns) : i < j => all[i].turnId < all[j].turnId
      BY <2>7 DEF DialogueInGrantOrder
    <3>2. \A i \in 1 .. Len(recentTurns) : all[i].turnId < all[Len(all)].turnId
      BY <2>3, <2>4, <2>7 DEF DialogueInGrantOrder
    <3>3. \A i, j \in 1 .. Len(all) :
            i < j => i \in 1 .. Len(recentTurns) /\ (j \in 1 .. Len(recentTurns) \/ j = Len(all))
      BY <2>7
    <3> QED
      BY <3>1, <3>2, <3>3
  <2>10. /\ Trimmed(all) \in Seq(Turn)
         /\ \E k \in 1 .. Len(all) :
              /\ Trimmed(all) = SubSeq(all, k, Len(all))
              /\ Len(Trimmed(all)) = Len(all) - k + 1
              /\ Len(Trimmed(all)) <= MaxRecentTurns
              /\ \A i \in 1 .. Len(Trimmed(all)) : Trimmed(all)[i] = all[k + i - 1]
    <3> HIDE DEF all
    <3>1. Len(all) > 0
      BY <2>7
    <3> QED
      BY <2>7, <3>1, TrimmedIsSuffix
  <2>11. PICK k \in 1 .. Len(all) :
              /\ Len(Trimmed(all)) = Len(all) - k + 1
              /\ Len(Trimmed(all)) <= MaxRecentTurns
              /\ \A i \in 1 .. Len(Trimmed(all)) : Trimmed(all)[i] = all[k + i - 1]
    BY <2>10
  <2>12. TypeOK'
    BY <1>1, <1>2, <2>2, <2>5, <2>10 DEF TypeOK, Lease, NoLease, NoTurn, selectionVars
  <2>13. FloorHasLease' /\ LiveGrantIsAnnounced'
    BY <2>5 DEF FloorHasLease, LiveGrantIsAnnounced
  <2>14. OneWinnerPerGrant'
    BY <1>1 DEF OneWinnerPerGrant
  <2>15. DialogueInGrantOrder'
    <3> DEFINE kept == Trimmed(all)
    <3>1. \A i \in 1 .. Len(kept) : k + i - 1 \in 1 .. Len(all)
      BY <2>7, <2>11
    <3>2. \A i \in 1 .. Len(kept) : kept[i].turnId <= issued
      BY <2>8, <2>11, <3>1
    <3>3. \A i, j \in 1 .. Len(kept) : i < j => kept[i].turnId < kept[j].turnId
      <4> SUFFICES ASSUME NEW i \in 1 .. Len(kept), NEW j \in 1 .. Len(kept), i < j
                   PROVE  kept[i].turnId < kept[j].turnId
        OBVIOUS
      <4>1. k + i - 1 < k + j - 1
        BY <2>7, <2>11
      <4> QED
        BY <2>9, <2>11, <3>1, <4>1
    <3> HIDE DEF all
    <3> QED
      BY <1>1, <2>5, <2>11, <3>2, <3>3 DEF DialogueInGrantOrder
  <2> QED
    BY <2>12, <2>13, <2>14, <2>15
<1> QED
  BY <1>3, <1>4 DEF EndTurn

LEMMA NextKeepsIInv == IInv /\ [Next]_vars => IInv'
<1> SUFFICES ASSUME IInv, [Next]_vars PROVE IInv'
  OBVIOUS
<1>1. CASE LeaseEnds
  BY <1>1, LeaseEndsKeepsIInv
<1>2. ASSUME NEW r \in Request, FlushRequest(r) PROVE IInv'
  <2>1. CASE DenyAll(r)
    BY <1>2, <2>1, DenyKeepsIInv
  <2>2. ASSUME NEW w \in Agent, Grant(r, w) PROVE IInv'
    BY <1>2, <2>2, GrantKeepsIInv
  <2> QED
    BY <1>2, <2>1, <2>2 DEF FlushRequest
<1>3. ASSUME NEW r \in Request, NEW a \in Agent, NEW reply, GetTurnDecision(r, a, reply) PROVE IInv'
  <2>1. conn' \in [Conn -> {Idle} \cup Post]
    BY <1>3 DEF GetTurnDecision, IInv, TypeOK
  <2> QED
    BY <1>3, <2>1, ExpiryKeepsIInv DEF GetTurnDecision
<1>4. ASSUME NEW c \in Conn, NEW post \in AnyPost, PostArrives(c, post) PROVE IInv'
  <2>1. post \in Post
    BY DEF AnyPost, Post, EndTurnPost, IInv, TypeOK, NoTurn
  <2>2. conn' \in [Conn -> {Idle} \cup Post]
    BY <1>4, <2>1 DEF PostArrives, IInv, TypeOK
  <2> QED
    BY <1>4, <2>2, ExpiryKeepsIInv DEF PostArrives
<1>5. ASSUME NEW c \in Conn, NEW reply, BodyFails(c, reply) PROVE IInv'
  <2>1. conn' \in [Conn -> {Idle} \cup Post]
    BY <1>5 DEF BodyFails, IInv, TypeOK
  <2>2. TypeOK'
    BY <1>5, <2>1 DEF BodyFails, IInv, TypeOK, floorVars, selectionVars
  <2>3. FloorHasLease' /\ OneWinnerPerGrant' /\ DialogueInGrantOrder' /\ LiveGrantIsAnnounced'
    BY <1>5 DEF BodyFails, IInv, FloorHasLease, OneWinnerPerGrant, DialogueInGrantOrder,
                LiveGrantIsAnnounced, floorVars
  <2> QED
    BY <2>2, <2>3 DEF IInv
<1>6. ASSUME NEW c \in Conn, NEW reply, RequestTurn(c, reply) PROVE IInv'
  BY <1>6, RequestTurnKeepsIInv
<1>7. ASSUME NEW c \in Conn, NEW reply, EndTurn(c, reply) PROVE IInv'
  BY <1>7, EndTurnKeepsIInv
<1>8. CASE UNCHANGED vars
  <2>1. TypeOK'
    BY <1>8 DEF IInv, TypeOK, vars
  <2>2. FloorHasLease' /\ OneWinnerPerGrant' /\ DialogueInGrantOrder' /\ LiveGrantIsAnnounced'
    BY <1>8 DEF vars, IInv, FloorHasLease, OneWinnerPerGrant, DialogueInGrantOrder,
                LiveGrantIsAnnounced
  <2> QED
    BY <2>1, <2>2 DEF IInv
<1> QED
  BY <1>1, <1>2, <1>3, <1>4, <1>5, <1>6, <1>7, <1>8 DEF Next

\* The inductive invariant holds in every reachable state of the server.
THEOREM Invariance == Spec => []IInv
  BY InitIInv, NextKeepsIInv, PTL DEF Spec

\* The server's state keeps its types: TypeOK of the runs, for every instance.
THEOREM TypeCorrectness == Spec => []TypeOK
<1>1. IInv => TypeOK
  BY DEF IInv
<1> QED
  BY <1>1, Invariance, PTL

\* The floor and its lease come and go together (index.ts, flushRequest,
\* /end-turn and checkLeaseExpiry).
THEOREM FloorSafety == Spec => []FloorHasLease
<1>1. IInv => FloorHasLease
  BY DEF IInv
<1> QED
  BY <1>1, Invariance, PTL

\* While a lease lives, the decisions that /turn-decision answers with still name
\* its holder: a winner that polls learns of its grant, however the flushes of
\* later utterances come in.
THEOREM GrantSafety == Spec => []LiveGrantIsAnnounced
<1>1. IInv => LiveGrantIsAnnounced
  BY DEF IInv
<1> QED
  BY <1>1, Invariance, PTL

\* Every turnId was announced to one agent and for one utterance, whatever the
\* server has decided or forgotten since.
THEOREM WinnerSafety == Spec => []OneWinnerPerGrant
<1>1. IInv => OneWinnerPerGrant
  BY DEF IInv
<1> QED
  BY <1>1, Invariance, PTL

\* The shared dialogue has every finished turn once and in grant order: an
\* /end-turn that comes late, twice or after the lease ran out adds nothing.
THEOREM DialogueSafety == Spec => []DialogueInGrantOrder
<1>1. IInv => DialogueInGrantOrder
  BY DEF IInv
<1> QED
  BY <1>1, Invariance, PTL

----------------------------------------------------------------------------
(* Refinement: a step of the server is a step of the lease lock or leaves  *)
(* the lock alone.                                                         *)

LEMMA ExpiryIsReclaim ==
  ASSUME IInv, CheckLeaseExpiry, UNCHANGED <<recentTurns, issued>>
  PROVE  [Floor!Next]_Floor!vars
<1>1. CASE LeaseLapsed
  <2>1. currentLease.expired /\ currentSpeaker' = NoAgent /\ currentLease' = NoLease
    BY <1>1 DEF CheckLeaseExpiry, LeaseLapsed, SpeakerNow, LeaseNow
  <2> QED
    BY <2>1 DEF Floor!Next, Floor!Reclaim, Floor!Free, NoLease, NoTurn
<1>2. CASE ~LeaseLapsed
  BY <1>2 DEF CheckLeaseExpiry, SpeakerNow, LeaseNow, Floor!vars
<1> QED
  BY <1>1, <1>2

LEMMA GrantIsGrant ==
  ASSUME IInv, NEW r \in Request, NEW w \in Agent, FlushRequest(r), Grant(r, w)
  PROVE  Floor!Grant(w)
<1>1. currentSpeaker = NoAgent \/ currentLease.expired
  BY DEF Grant, SpeakerNow, LeaseLapsed
<1>2. /\ currentSpeaker' = w
      /\ issued' = issued + 1
      /\ currentLease'.turnId = issued'
      /\ currentLease'.expired = FALSE
      /\ recentTurns' = recentTurns
  BY DEF Grant, FlushRequest
<1> QED
  BY <1>1, <1>2 DEF Floor!Grant

LEMMA EndTurnIsFinish ==
  ASSUME IInv, NEW c \in Conn, NEW reply, EndTurn(c, reply)
  PROVE  [Floor!Next]_Floor!vars
<1> DEFINE post == conn[c]
<1>1. CASE UNCHANGED <<floorVars, lastSpeakerId, recentTurns>>
  BY <1>1 DEF EndTurn, Floor!vars, floorVars
<1>2. CASE MatchesLease(post.turnId) /\ currentSpeaker = post.agentId
  <2>1. post \in EndTurnPost
    BY DEF EndTurn, IInv, TypeOK, Idle, Post, RequestTurnPost
  <2>2. post.agentId \in Agent /\ post.turnId \in Nat
    BY <2>1 DEF EndTurnPost
  <2>3. currentSpeaker # NoAgent
    BY <1>2, <2>2, AgentAssumption DEF NoAgent
  <2>4. post.turnId = currentLease.turnId
    BY <1>2, <2>3 DEF MatchesLease, IInv, FloorHasLease
  <2> DEFINE all == Append(recentTurns, [agentId |-> currentSpeaker, turnId |-> currentLease.turnId])
  <2>5. /\ currentSpeaker' = NoAgent
        /\ currentLease' = NoLease
        /\ recentTurns' = Trimmed(all)
        /\ issued' = issued
    BY <1>2, <2>4 DEF EndTurn
  <2>6. all \in Seq(Turn) /\ Len(all) > 0
    <3>1. [agentId |-> currentSpeaker, turnId |-> currentLease.turnId] \in Turn
      BY <1>2, <2>2, <2>4 DEF Turn
    <3>2. recentTurns \in Seq(Turn)
      BY DEF IInv, TypeOK
    <3> QED
      BY <3>1, <3>2
  <2>7. \E k \in 1 .. Len(all) : recentTurns' = SubSeq(all, k, Len(all))
    <3> HIDE DEF all
    <3> QED
      BY <2>5, <2>6, TrimmedIsSuffix
  <2>8. Floor!Free
    BY <2>5 DEF Floor!Free, NoLease, NoTurn
  <2>9. Floor!Finish
    BY <2>3, <2>7, <2>8 DEF Floor!Finish
  <2> QED
    BY <2>9 DEF Floor!Next
<1> QED
  BY <1>1, <1>2 DEF EndTurn

LEMMA StepRefines == IInv /\ [Next]_vars => [Floor!Next]_Floor!vars
<1> SUFFICES ASSUME IInv, [Next]_vars PROVE [Floor!Next]_Floor!vars
  OBVIOUS
<1>1. CASE LeaseEnds
  <2>1. currentSpeaker # NoAgent
    BY <1>1 DEF LeaseEnds, IInv, FloorHasLease
  <2>2. currentLease' = [turnId |-> currentLease.turnId, expired |-> TRUE]
    BY <1>1 DEF LeaseEnds, IInv, TypeOK, Lease
  <2> QED
    BY <1>1, <2>1, <2>2 DEF LeaseEnds, Floor!Next, Floor!Lapse
<1>2. ASSUME NEW r \in Request, FlushRequest(r) PROVE [Floor!Next]_Floor!vars
  <2>1. CASE DenyAll(r)
    BY <1>2, <2>1, ExpiryIsReclaim DEF DenyAll, FlushRequest
  <2>2. ASSUME NEW w \in Agent, Grant(r, w) PROVE [Floor!Next]_Floor!vars
    BY <1>2, <2>2, GrantIsGrant DEF Floor!Next
  <2> QED
    BY <1>2, <2>1, <2>2 DEF FlushRequest
<1>3. ASSUME NEW r \in Request, NEW a \in Agent, NEW reply, GetTurnDecision(r, a, reply)
      PROVE  [Floor!Next]_Floor!vars
  BY <1>3, ExpiryIsReclaim DEF GetTurnDecision
<1>4. ASSUME NEW c \in Conn, NEW post \in AnyPost, PostArrives(c, post)
      PROVE  [Floor!Next]_Floor!vars
  BY <1>4, ExpiryIsReclaim DEF PostArrives
<1>5. ASSUME NEW c \in Conn, NEW reply, BodyFails(c, reply) PROVE [Floor!Next]_Floor!vars
  BY <1>5 DEF BodyFails, Floor!vars, floorVars
<1>6. ASSUME NEW c \in Conn, NEW reply, RequestTurn(c, reply) PROVE [Floor!Next]_Floor!vars
  BY <1>6 DEF RequestTurn, Floor!vars, floorVars
<1>7. ASSUME NEW c \in Conn, NEW reply, EndTurn(c, reply) PROVE [Floor!Next]_Floor!vars
  BY <1>7, EndTurnIsFinish
<1>8. CASE UNCHANGED vars
  BY <1>8 DEF vars, Floor!vars
<1> QED
  BY <1>1, <1>2, <1>3, <1>4, <1>5, <1>6, <1>7, <1>8 DEF Next

\* The server implements the lease lock: the floor changes hands only through
\* grants of a free or lapsed floor, and only the holder's own end-turn, naming
\* its grant, releases it and adds to the shared dialogue.
THEOREM Refinement == Spec => ImplementsFloorLease
<1>1. Init => Floor!Init
  BY DEF Init, Floor!Init, NoLease, NoTurn
<1> QED
  BY <1>1, Invariance, StepRefines, PTL DEF Spec, ImplementsFloorLease, Floor!Spec

----------------------------------------------------------------------------
(* Round robin                                                             *)

\* COORDINATOR_AGENTS lists every agent once.
EveryoneListed ==
  /\ \A a \in Agent : \E i \in 1 .. Len(AgentOrder) : AgentOrder[i] = a
  /\ \A i, j \in 1 .. Len(AgentOrder) : AgentOrder[i] = AgentOrder[j] => i = j

\* Turns go round: no auction, and nobody's name is in a transcript.
RoundRobinOnly == ~UseAuction /\ \A r \in Request : Mentions[r] = {}

\* The agent that is i places after the last respondent.
After(i) == AgentOrder[((lastRespondentIndex + i) % Len(AgentOrder)) + 1]

\* Nobody was passed over twice by the same agent, nor at all by itself and those
\* that come before it from the last respondent on.
TurnsGoRound ==
  /\ lastRespondentIndex \in -1 .. Len(AgentOrder) - 1
  /\ passedOver \in [Agent -> [Agent -> Nat]]
  /\ NobodyIsPassedOverTwice
  /\ \A a \in Agent, i \in 1 .. Len(AgentOrder) :
       After(i) = a => \A j \in 1 .. i : passedOver[a][After(j)] = 0

\* Remainders of numbers below twice the divisor.
LEMMA SmallMod ==
  ASSUME NEW n \in Nat \ {0}, NEW x \in Nat, x < n + n
  PROVE  x % n = IF x < n THEN x ELSE x - n
<1>1. CASE x < n
  BY <1>1
<1>2. CASE x >= n
  <2>1. x = n * 1 + (x - n) /\ x - n \in 0 .. n - 1
    BY <1>2
  <2> QED
    BY <1>2, <2>1
<1> QED
  BY <1>1, <1>2

\* Going on from a place and going on from the last respondent come to the same.
LEMMA WalkOn ==
  ASSUME NEW n \in Nat \ {0}, NEW l \in -1 .. n - 1, NEW k \in 1 .. n, NEW i \in 1 .. n
  PROVE  /\ (l + k) % n \in 0 .. n - 1
         /\ k + i <= n => (((l + k) % n) + i) % n = (l + (k + i)) % n
         /\ k + i > n => (((l + k) % n) + i) % n = (l + (k + i - n)) % n
<1>1. PICK x \in Nat : x = l + k /\ x < n + n
  OBVIOUS
<1>2. PICK m \in 0 .. n - 1 : m = (l + k) % n /\ (m = l + k \/ m = l + k - n)
  BY <1>1, SmallMod
<1>3. PICK y \in Nat : y = m + i /\ y < n + n
  OBVIOUS
<1>4. y % n = IF y < n THEN y ELSE y - n
  BY <1>3, SmallMod
<1>5. ASSUME k + i <= n PROVE (m + i) % n = (l + (k + i)) % n
  <2>1. PICK z \in Nat : z = l + (k + i) /\ z < n + n
    BY <1>5
  <2>2. z % n = IF z < n THEN z ELSE z - n
    BY <2>1, SmallMod
  <2> QED
    BY <1>2, <1>3, <1>4, <1>5, <2>1, <2>2
<1>6. ASSUME k + i > n PROVE (m + i) % n = (l + (k + i - n)) % n
  <2>1. PICK z \in Nat : z = l + (k + i - n) /\ z < n + n
    BY <1>6
  <2>2. z % n = IF z < n THEN z ELSE z - n
    BY <2>1, SmallMod
  <2> QED
    BY <1>2, <1>3, <1>4, <1>6, <2>1, <2>2
<1> QED
  BY <1>2, <1>5, <1>6

\* Every agent is some places away from the last respondent.
LEMMA EveryoneIsAhead ==
  ASSUME EveryoneListed, lastRespondentIndex \in -1 .. Len(AgentOrder) - 1, NEW a \in Agent
  PROVE  \E i \in 1 .. Len(AgentOrder) : After(i) = a
<1> DEFINE n == Len(AgentOrder)
           l == lastRespondentIndex
<1>1. n \in Nat
  BY AgentOrderAssumption
<1>2. PICK p \in 1 .. n : AgentOrder[p] = a
  BY DEF EveryoneListed
<1> DEFINE i == IF p - 1 > l THEN p - 1 - l ELSE p - 1 - l + n
<1>3. l \in -1 .. n - 1 /\ n # 0
  BY <1>1, <1>2
<1> HIDE DEF n, l
<1>4. /\ i \in 1 .. n /\ (l + i = p - 1 \/ l + i = p - 1 + n)
      /\ \E x \in Nat : x = l + i /\ x < n + n
  BY <1>1, <1>2, <1>3
<1> HIDE DEF i
<1>5. (l + i) % n = p - 1
  <2>1. PICK x \in Nat : x = l + i /\ x < n + n
    BY <1>4
  <2>2. x % n = IF x < n THEN x ELSE x - n
    BY <1>1, <1>3, <2>1, SmallMod
  <2> QED
    BY <1>1, <1>2, <1>4, <2>1, <2>2
<1>6. After(i) = AgentOrder[(p - 1) + 1]
  BY <1>5 DEF After, n, l
<1> QED
  BY <1>2, <1>4, <1>6 DEF n

\* And no two agents are the same number of places away.
LEMMA PlacesDiffer ==
  ASSUME EveryoneListed, lastRespondentIndex \in -1 .. Len(AgentOrder) - 1,
         NEW i \in 1 .. Len(AgentOrder), NEW j \in 1 .. Len(AgentOrder), After(i) = After(j)
  PROVE  i = j
<1> DEFINE n == Len(AgentOrder)
           l == lastRespondentIndex
<1>1. n \in Nat \ {0}
  BY AgentOrderAssumption
<1> HIDE DEF n
<1>2. PICK x \in Nat : x = l + i /\ x < n + n /\ (x % n = IF x < n THEN x ELSE x - n)
  BY <1>1, SmallMod DEF n
<1>3. PICK y \in Nat : y = l + j /\ y < n + n /\ (y % n = IF y < n THEN y ELSE y - n)
  BY <1>1, SmallMod DEF n
<1>4. (x % n) + 1 \in 1 .. n /\ (y % n) + 1 \in 1 .. n
  BY <1>1, <1>2, <1>3
<1>5. AgentOrder[(x % n) + 1] = AgentOrder[(y % n) + 1]
  BY <1>2, <1>3 DEF After, n
<1>6. x % n = y % n
  BY <1>1, <1>2, <1>3, <1>4, <1>5 DEF EveryoneListed, n
<1> QED
  BY <1>1, <1>2, <1>3, <1>6 DEF n

\* Selection by round robin moves on to the nearest agent that asked.
LEMMA RoundRobinTurns ==
  ASSUME EveryoneListed, RoundRobinOnly, TypeOK, lastRespondentIndex \in -1 .. Len(AgentOrder) - 1,
         NEW r \in Request, pendingRequests[r] # <<>>, NEW w, Choose(pendingRequests[r], Mentions[r], w)
  PROVE  \E k \in 1 .. Len(AgentOrder) :
           /\ w = After(k)
           /\ lastRespondentIndex' = (lastRespondentIndex + k) % Len(AgentOrder)
           /\ \A i \in 1 .. Len(AgentOrder) : After(i) \in Requesters(pendingRequests[r]) => k <= i
<1> DEFINE entries == pendingRequests[r]
<1>1. entries \in Seq(Entry) /\ entries # <<>>
  BY DEF TypeOK
<1>2. Addressed(entries, Mentions[r]) = {}
  BY DEF RoundRobinOnly, Addressed
<1>3. RunSelection(entries, Mentions[r], w)
  BY DEF RoundRobinOnly, Choose
<1>4. PICK a \in Agent : a \in Requesters(entries)
  <2>1. Len(entries) \in Nat /\ Len(entries) # 0
    BY <1>1, EmptySeq
  <2>2. entries[1] \in Entry /\ 1 \in 1 .. Len(entries)
    BY <1>1, <2>1
  <2> QED
    BY <2>2 DEF Requesters, Entry
<1>5. PICK j \in 1 .. Len(AgentOrder) : After(j) = a
  BY EveryoneIsAhead
<1>6. AgentOrder # <<>>
  BY <1>5, AgentOrderAssumption
<1>7. Hits(entries) = {i \in 1 .. Len(AgentOrder) : After(i) \in Requesters(entries)}
  BY <1>6 DEF Hits, Order, After
<1>8. SelectRoundRobin(entries, Mentions[r], w)
  <2>1. ~SelectAddressed(entries, Mentions[r], w)
    BY <1>2 DEF SelectAddressed, First
  <2>2. ~SelectUnlisted(entries, Mentions[r], w)
    BY <1>4, <1>5, <1>7 DEF SelectUnlisted
  <2> QED
    BY <1>3, <2>1, <2>2 DEF RunSelection
<1>9. PICK k \in First(Hits(entries)) :
        /\ w = Order[((lastRespondentIndex + k) % Len(Order)) + 1]
        /\ lastRespondentIndex' = (lastRespondentIndex + k) % Len(Order)
  BY <1>8 DEF SelectRoundRobin
<1> QED
  BY <1>6, <1>7, <1>9 DEF First, Order, After

\* The winner is nearer than all who asked and lost, so it had not won over them.
LEMMA GrantTurnsRound ==
  ASSUME EveryoneListed, RoundRobinOnly, TypeOK, TurnsGoRound,
         NEW r \in Request, pendingRequests[r] # <<>>, NEW w \in Agent,
         Choose(pendingRequests[r], Mentions[r], w),
         passedOver' = PassedOver(Requesters(pendingRequests[r]), w)
  PROVE  TurnsGoRound'
<1> DEFINE n == Len(AgentOrder)
           l == lastRespondentIndex
           asked == Requesters(pendingRequests[r])
<1>1. n \in Nat /\ l \in -1 .. n - 1 /\ passedOver \in [Agent -> [Agent -> Nat]]
  BY AgentOrderAssumption DEF TurnsGoRound
<1>2. PICK k \in 1 .. n : /\ w = After(k) /\ l' = (l + k) % n
                          /\ \A i \in 1 .. n : After(i) \in asked => k <= i
  BY RoundRobinTurns DEF TurnsGoRound
<1>3. n \in Nat \ {0}
  BY <1>1, <1>2
<1>4. l' \in 0 .. n - 1
  BY <1>1, <1>2, <1>3, WalkOn
<1>5. \A a, b \in Agent :
        passedOver'[a][b] = IF a \notin asked \ {w} THEN 0
                            ELSE IF b = w THEN passedOver[a][b] + 1 ELSE passedOver[a][b]
  BY DEF PassedOver
<1>6. passedOver' \in [Agent -> [Agent -> Nat]]
  BY <1>1 DEF PassedOver
<1>7. ASSUME NEW a \in Agent, NEW b \in Agent PROVE passedOver'[a][b] <= 1
  <2>1. PICK i \in 1 .. n : After(i) = a
    BY EveryoneIsAhead DEF TurnsGoRound
  <2>2. passedOver[a][b] <= 1
    BY DEF TurnsGoRound, NobodyIsPassedOverTwice
  <2>3. CASE a \in asked /\ b = w
    <3>1. k \in 1 .. i
      BY <1>1, <1>2, <2>1, <2>3
    <3>2. passedOver[a][b] = 0
      BY <1>2, <2>1, <2>3, <3>1 DEF TurnsGoRound
    <3> QED
      BY <1>5, <3>2
  <2> QED
    BY <1>5, <2>2, <2>3
<1>8. ASSUME NEW a \in Agent, NEW i \in 1 .. n, After(i)' = a, NEW j \in 1 .. i
      PROVE  passedOver'[a][After(j)'] = 0
  <2>1. j \in 1 .. n
    BY <1>1
  <2>2. /\ After(i)' = AgentOrder[((((l + k) % n) + i) % n) + 1]
        /\ After(j)' = AgentOrder[((((l + k) % n) + j) % n) + 1]
    BY <1>2 DEF After
  <2>3. After(j)' \in Agent
    <3>1. (l + k) % n \in 0 .. n - 1 /\ (((l + k) % n) + j) \in Nat
      BY <1>1, <1>3, <2>1, WalkOn
    <3>2. (((l + k) % n) + j) % n \in 0 .. n - 1
      BY <1>3, <3>1
    <3> QED
      BY <1>3, <2>2, <3>2, AgentOrderAssumption
  <2>4. CASE a \notin asked \ {w}
    BY <1>5, <2>3, <2>4
  <2>5. CASE a \in asked \ {w} /\ k + i <= n
    <3>1. k + i \in 1 .. n /\ k + j \in 1 .. k + i /\ k + j \in 1 .. n /\ k + j <= n /\ k + j # k
      BY <1>1, <2>1, <2>5
    <3>2. After(k + i) = a /\ After(j)' = After(k + j)
      <4>1. (((l + k) % n) + i) % n = (l + (k + i)) % n
        BY <1>1, <1>3, <2>5, WalkOn
      <4>2. (((l + k) % n) + j) % n = (l + (k + j)) % n
        BY <1>1, <1>3, <2>1, <3>1, WalkOn
      <4> QED
        BY <1>8, <2>2, <4>1, <4>2 DEF After
    <3>3. passedOver[a][After(k + j)] = 0
      BY <3>1, <3>2 DEF TurnsGoRound
    <3>4. After(k + j) # w
      BY <1>1, <1>2, <3>1, PlacesDiffer
    <3> QED
      BY <1>5, <2>3, <2>5, <3>2, <3>3, <3>4
  <2>6. CASE a \in asked \ {w} /\ k + i > n
    <3>1. After(k + i - n) = a
      BY <1>1, <1>3, <1>8, <2>2, <2>6, WalkOn DEF After
    <3>2. k + i - n \in 1 .. n /\ k + i - n <= k
      BY <1>1, <2>6
    <3>3. k + i - n = k
      <4> DEFINE p == k + i - n
      <4>1. After(p) = a /\ a \in asked /\ p \in 1 .. n /\ p <= k
        BY <2>6, <3>1, <3>2
      <4> HIDE DEF p
      <4>2. k <= p
        BY <1>2, <4>1
      <4>3. p = k
        BY <1>1, <4>1, <4>2
      <4> QED
        BY <4>3 DEF p
    <3> QED
      BY <1>2, <2>6, <3>1, <3>3
  <2> QED
    BY <1>1, <2>4, <2>5, <2>6
<1> QED
  BY <1>1, <1>4, <1>6, <1>7, <1>8 DEF TurnsGoRound, NobodyIsPassedOverTwice

\* Who is chosen changes with a grant only.
LEMMA GrantOrQuiet ==
  ASSUME TypeOK, Next
  PROVE  \/ issued' = issued /\ UNCHANGED lastRespondentIndex
         \/ /\ issued' # issued
            /\ \E r \in Request, w \in Agent :
                 /\ pendingRequests[r] # <<>>
                 /\ pendingRequests' = [pendingRequests EXCEPT ![r] = <<>>]
                 /\ Choose(pendingRequests[r], Mentions[r], w)
                 /\ currentSpeaker' = w
<1>1. CASE \E r \in Request : FlushRequest(r)
  <2>1. PICK r \in Request : FlushRequest(r)
    BY <1>1
  <2>2. CASE DenyAll(r)
    BY <2>2 DEF DenyAll, selectionVars
  <2>3. CASE \E w \in Agent : Grant(r, w)
    <3>1. issued' # issued
      BY <2>3 DEF Grant, TypeOK
    <3> QED
      BY <2>1, <2>3, <3>1 DEF FlushRequest, Grant
  <2> QED
    BY <2>1, <2>2, <2>3 DEF FlushRequest
<1>2. CASE ~\E r \in Request : FlushRequest(r)
  BY <1>2 DEF Next, LeaseEnds, GetTurnDecision, PostArrives, BodyFails, RequestTurn, EndTurn, selectionVars
<1> QED
  BY <1>1, <1>2

\* The bucket of a step that grants is the one that the step empties.
LEMMA OneBucketIsFlushed ==
  ASSUME TypeOK, NEW r \in Request, pendingRequests[r] # <<>>,
         pendingRequests' = [pendingRequests EXCEPT ![r] = <<>>]
  PROVE  GrantedBucket = r
<1>1. \A q \in Request : pendingRequests[q] # <<>> /\ pendingRequests'[q] = <<>> <=> q = r
  BY DEF TypeOK
<1> QED
  BY <1>1 DEF GrantedBucket

\* Every step keeps it.
LEMMA StepTurnsRound ==
  ASSUME EveryoneListed, RoundRobinOnly, TypeOK, TurnsGoRound, [FairnessNext]_fairnessVars
  PROVE  TurnsGoRound'
<1>1. CASE issued' = issued /\ UNCHANGED <<lastRespondentIndex, passedOver>>
  BY <1>1 DEF TurnsGoRound, After, NobodyIsPassedOverTwice
<1>2. CASE FairnessNext /\ issued' # issued
  <2>1. PICK r \in Request, w \in Agent :
          /\ pendingRequests[r] # <<>>
          /\ pendingRequests' = [pendingRequests EXCEPT ![r] = <<>>]
          /\ Choose(pendingRequests[r], Mentions[r], w)
          /\ currentSpeaker' = w
    BY <1>2, GrantOrQuiet DEF FairnessNext
  <2>2. passedOver' = PassedOver(Requesters(pendingRequests[r]), w)
    BY <1>2, <2>1, OneBucketIsFlushed DEF FairnessNext
  <2> QED
    BY <2>1, <2>2, GrantTurnsRound
<1>3. CASE FairnessNext /\ issued' = issued
  BY <1>1, <1>3, GrantOrQuiet DEF FairnessNext
<1>4. CASE UNCHANGED fairnessVars
  BY <1>1, <1>4 DEF fairnessVars, vars, selectionVars
<1> QED
  BY <1>2, <1>3, <1>4

\* The record of who was passed over leaves the coordinator as it is.
LEMMA FairnessIsCoordinator == FairnessSpec => Spec
<1>1. FairnessInit => Init
  BY DEF FairnessInit
<1>2. [FairnessNext]_fairnessVars => [Next]_vars
  BY DEF FairnessNext, fairnessVars
<1> QED
  BY <1>1, <1>2, PTL DEF FairnessSpec, Spec

\* Nobody is starved by runSelection: with every agent listed once in
\* COORDINATOR_AGENTS, no auction and nobody named, an agent that asks in every
\* window is passed over by each of the others at most once before it wins.
THEOREM RoundRobinIsFair ==
  ASSUME EveryoneListed, RoundRobinOnly
  PROVE  FairnessSpec => []NobodyIsPassedOverTwice
<1>1. FairnessInit => TurnsGoRound
  <2> SUFFICES ASSUME FairnessInit PROVE TurnsGoRound
    OBVIOUS
  <2>1. lastRespondentIndex = -1 /\ passedOver = [a \in Agent |-> [b \in Agent |-> 0]] /\ Len(AgentOrder) \in Nat
    BY AgentOrderAssumption DEF FairnessInit, Init
  <2>2. \A a \in Agent, i \in 1 .. Len(AgentOrder) : After(i) \in Agent
    BY <2>1, AgentOrderAssumption DEF After
  <2> QED
    BY <2>1, <2>2 DEF TurnsGoRound, NobodyIsPassedOverTwice
<1>2. TypeOK /\ TurnsGoRound /\ [FairnessNext]_fairnessVars => TurnsGoRound'
  BY StepTurnsRound
<1>3. TurnsGoRound => NobodyIsPassedOverTwice
  BY DEF TurnsGoRound
<1> QED
  BY <1>1, <1>2, <1>3, FairnessIsCoordinator, TypeCorrectness, PTL DEF FairnessSpec

----------------------------------------------------------------------------
(* The auction                                                             *)

\* Buckets: Joined replaces the bid of an agent that is there already.
BucketsInv == \A r \in Request : OneEntryEach(pendingRequests[r])

\* A post of an agent that is in the bucket does not add an entry.
LEMMA JoinedKeepsOneEntryEach ==
  ASSUME NEW entries \in Seq(Entry), OneEntryEach(entries), NEW a \in Agent, NEW bid \in Bid
  PROVE  OneEntryEach(Joined(entries, a, bid))
<1>1. CASE a \notin Requesters(entries)
  <2> DEFINE e == [agentId |-> a, bid |-> bid]
             s == Append(entries, e)
             n == Len(entries)
  <2>1. n \in Nat /\ Len(s) = n + 1 /\ s[n + 1] = e /\ (\A i \in 1 .. n : s[i] = entries[i])
    BY AppendProperties DEF Entry
  <2>2. e.agentId = a /\ \A i \in 1 .. n : entries[i].agentId # a
    BY <1>1 DEF Requesters
  <2>3. Joined(entries, a, bid) = s
    BY <1>1 DEF Joined
  <2>4. \A i, j \in 1 .. n : entries[i].agentId = entries[j].agentId => i = j
    BY DEF OneEntryEach
  <2> HIDE DEF s, e, n
  <2>5. \A i \in 1 .. n + 1 : i = n + 1 \/ i \in 1 .. n
    BY <2>1
  <2>6. \A i, j \in 1 .. n + 1 : s[i].agentId = s[j].agentId => i = j
    BY <2>1, <2>2, <2>4, <2>5
  <2> QED
    BY <2>1, <2>3, <2>6 DEF OneEntryEach
<1>2. CASE a \in Requesters(entries) /\ bid = NoBid
  BY <1>2 DEF Joined
<1>3. CASE a \in Requesters(entries) /\ bid # NoBid
  <2> DEFINE s == [i \in 1 .. Len(entries) |->
        IF entries[i].agentId = a THEN [entries[i] EXCEPT !.bid = bid] ELSE entries[i]]
  <2>1. Joined(entries, a, bid) = s
    BY <1>3 DEF Joined
  <2>2. \A i \in 1 .. Len(entries) : s[i].agentId = entries[i].agentId
    <3> SUFFICES ASSUME NEW i \in 1 .. Len(entries) PROVE s[i].agentId = entries[i].agentId
      OBVIOUS
    <3>1. entries[i] \in Entry
      OBVIOUS
    <3> QED
      BY <3>1 DEF Entry
  <2>3. Len(s) = Len(entries)
    OBVIOUS
  <2> HIDE DEF s
  <2> QED
    BY <2>1, <2>2, <2>3 DEF OneEntryEach
<1> QED
  BY <1>1, <1>2, <1>3

\* Every step keeps one entry for each agent in each bucket.
LEMMA StepKeepsBuckets ==
  ASSUME TypeOK, BucketsInv, [Next]_vars
  PROVE  BucketsInv'
<1>1. CASE UNCHANGED pendingRequests
  BY <1>1 DEF BucketsInv
<1>2. ASSUME NEW r \in Request, FlushRequest(r) PROVE BucketsInv'
  <2>1. \A q \in Request : pendingRequests'[q] \in {<<>>, pendingRequests[q]}
    BY <1>2 DEF FlushRequest, TypeOK
  <2>2. OneEntryEach(<<>>)
    BY DEF OneEntryEach
  <2> QED
    BY <2>1, <2>2 DEF BucketsInv
<1>3. ASSUME NEW c \in Conn, NEW reply, RequestTurn(c, reply) PROVE BucketsInv'
  <2> DEFINE r == conn[c].requestId
             a == conn[c].agentId
             bid == conn[c].bid
  <2>1. conn[c] \in RequestTurnPost
    BY <1>3 DEF RequestTurn, TypeOK, Post, EndTurnPost, Idle
  <2>2. r \in Request /\ a \in Agent /\ bid \in Bid
    BY <2>1, BidsAssumption DEF RequestTurnPost
  <2>3. CASE UNCHANGED pendingRequests
    BY <1>1, <2>3
  <2>4. CASE pendingRequests' = [pendingRequests EXCEPT ![r] = Joined(@, a, bid)]
    <3>1. pendingRequests[r] \in Seq(Entry) /\ OneEntryEach(pendingRequests[r])
      BY <2>2 DEF TypeOK, BucketsInv
    <3>2. OneEntryEach(Joined(pendingRequests[r], a, bid))
      BY <2>2, <3>1, JoinedKeepsOneEntryEach
    <3>3. \A q \in Request : pendingRequests'[q] \in {pendingRequests[q], Joined(pendingRequests[r], a, bid)}
      BY <2>4 DEF TypeOK
    <3> QED
      BY <3>2, <3>3 DEF BucketsInv
  <2> QED
    BY <1>3, <2>3, <2>4 DEF RequestTurn
<1>4. CASE UNCHANGED vars
  BY <1>1, <1>4 DEF vars
<1> QED
  BY <1>1, <1>2, <1>3, <1>4 DEF Next, LeaseEnds, GetTurnDecision, PostArrives, BodyFails, EndTurn

\* The loop of runAward finds the one entry of a bucket that no other would
\* replace: its three-way comparison orders the candidates strictly, for any
\* agents, order, bids and transcripts, however the bucket came about.
THEOREM AuctionIsSound == Spec => []LoopFindsTheUnbeaten
<1>1. Init => BucketsInv
  BY DEF Init, BucketsInv, OneEntryEach
<1>2. TypeOK /\ BucketsInv /\ [Next]_vars => BucketsInv'
  BY StepKeepsBuckets
<1>3. TypeOK /\ BucketsInv => LoopFindsTheUnbeaten
  BY AwardIsUnique DEF LoopFindsTheUnbeaten, TypeOK, BucketsInv
<1> QED
  BY <1>1, <1>2, <1>3, TypeCorrectness, PTL DEF Spec
============================================================================
