-------------------------- MODULE MultiAgentProofs --------------------------
(***************************************************************************)
(* Agents and coordinator together, for any agents, utterances, faults and *)
(* bounds: the agents are clients of the kind the coordinator is proved    *)
(* for, and an agent that speaks has the floor.                            *)
(***************************************************************************)
EXTENDS MultiAgent, CoordinatorProofs

ClientState == {"idle", "requesting", "polling", "speaking", "ending", "releasing", "closing"}

ClientTypes ==
  /\ client \in [Agent -> ClientState]
  /\ utterance \in [Agent -> Request \cup {CHOOSE r \in Request : TRUE}]
  /\ grant \in [Agent -> Nat] /\ abandoned \in [Agent -> Nat]
  /\ heard \in [Agent -> [Request -> Nat]]
  /\ faults \in FaultCases

\* What links an agent to the server: it keeps turn ids that were generated, its
\* turn is about an utterance it heard, and a post whose body is awaited is the
\* one it waits for.
Linked(a) ==
  /\ grant[a] <= issued /\ abandoned[a] <= issued
  /\ client[a] # "idle" => utterance[a] \in Request /\ heard[a][utterance[a]] > 0
  /\ conn[a] # Idle =>
       \/ client[a] = "requesting" /\ conn[a] = RequestPost(a)
       \/ Ending(a) /\ conn[a] = EndPost(a)

\* Nothing ends under a turn, and no agent hears an utterance twice.
Steady == faults \cap {"slowTurn", "fallback"} = {}
HeardOnceOnly == \A f \in FaultCases, r \in Request : MaxHears[f][r] <= 1

\* Agent a is in no bucket and no decision of an utterance that it has not heard
\* or is only asking about.
New(a) ==
  /\ client[a] # "releasing"
  /\ \A r \in Request :
       heard[a][r] = 0 \/ (client[a] = "requesting" /\ utterance[a] = r) =>
         a \notin decisions[r].allowed /\ a \notin Requesters(pendingRequests[r])

\* The floor is agent a's, under turn id t, and the lease runs.
Floored(a, t) == currentSpeaker = a /\ currentLease.turnId = t /\ ~currentLease.expired

\* Who speaks, or will learn from its next poll that it may, has the floor.
Holds(a) ==
  /\ client[a] = "speaking" => Floored(a, grant[a])
  /\ client[a] = "polling" /\ a \in decisions[utterance[a]].allowed =>
       Floored(a, decisions[utterance[a]].turnId)

\* The inductive invariant.  That a poll never meets the decision of an earlier
\* turn needs that the request was in no decision when it was made (New), which
\* in turn needs the link between an agent and its post.
MInv ==
  /\ IInv
  /\ ClientTypes
  /\ \A a \in Agent : Linked(a) /\ (HeardOnceOnly /\ Steady => New(a) /\ Holds(a))

----------------------------------------------------------------------------
(* Agents that a step leaves alone                                         *)

AgentKept(b) ==
  /\ client'[b] = client[b] /\ utterance'[b] = utterance[b]
  /\ grant'[b] = grant[b] /\ abandoned'[b] = abandoned[b]
  /\ heard'[b] = heard[b] /\ conn'[b] = conn[b]

\* Their links stay.
LEMMA KeptLinked ==
  ASSUME NEW b \in Agent, AgentKept(b), Linked(b), ClientTypes,
         issued \in Nat, issued' \in Nat, issued' >= issued
  PROVE  Linked(b)'
<1>1. grant[b] \in Nat /\ abandoned[b] \in Nat
  BY DEF ClientTypes
<1>2. RequestPost(b)' = RequestPost(b) /\ EndPost(b)' = EndPost(b) /\ (Ending(b)' <=> Ending(b))
  BY DEF AgentKept, RequestPost, EndPost, Ending
<1> QED
  BY <1>1, <1>2 DEF AgentKept, Linked

\* What has to be shown of a step of agent a that makes no decision: the others
\* are left alone, get into no bucket and keep the floor while their lease runs.
LEMMA AgentMoves ==
  ASSUME MInv, NEW a \in Agent, IInv', ClientTypes', UNCHANGED <<faults, issued, decisions>>,
         \A b \in Agent \ {a} : AgentKept(b),
         \A b \in Agent \ {a}, r \in Request :
           b \in Requesters(pendingRequests'[r]) => b \in Requesters(pendingRequests[r]),
         \A b \in Agent \ {a} : currentSpeaker = b /\ ~currentLease.expired => UNCHANGED floorVars,
         Linked(a)',
         HeardOnceOnly /\ Steady => New(a)' /\ Holds(a)'
  PROVE  MInv'
<1> SUFFICES ASSUME NEW b \in Agent
             PROVE  Linked(b)' /\ (HeardOnceOnly /\ Steady => New(b)' /\ Holds(b)')
  BY DEF MInv, Steady
<1>1. CASE b = a
  BY <1>1
<1>2. CASE b # a
  <2>1. AgentKept(b) /\ Linked(b) /\ ClientTypes /\ issued \in Nat
    BY <1>2 DEF MInv, IInv, TypeOK
  <2>2. Linked(b)'
    BY <2>1, KeptLinked
  <2>3. ASSUME HeardOnceOnly, Steady PROVE New(b)'
    BY <1>2, <2>1, <2>3 DEF MInv, New, AgentKept
  <2>4. ASSUME HeardOnceOnly, Steady PROVE Holds(b)'
    BY <1>2, <2>1, <2>4 DEF MInv, Holds, AgentKept, Floored, floorVars
  <2> QED
    BY <2>2, <2>3, <2>4
<1> QED
  BY <1>1, <1>2

\* Nobody loses the floor to checkLeaseExpiry while its lease runs.
LEMMA ExpiryKeepsFloor ==
  ASSUME CheckLeaseExpiry, ~currentLease.expired
  PROVE  UNCHANGED floorVars
  BY DEF CheckLeaseExpiry, SpeakerNow, LeaseNow, LeaseLapsed, floorVars

\* An agent that is not asking, waiting or speaking has little to keep.
LEMMA BystanderKept ==
  ASSUME NEW a \in Agent, New(a), client'[a] \in {"idle", "ending", "closing"},
         UNCHANGED <<heard, decisions, pendingRequests>>
  PROVE  New(a)' /\ Holds(a)'
  BY DEF New, Holds

----------------------------------------------------------------------------
(* The agents are clients of the server                                    *)

\* Posts of the clients are posts the server is specified for.
LEMMA PostsAreAny ==
  ASSUME IInv, ClientTypes, NEW a \in Agent, Linked(a)
  PROVE  /\ client[a] = "requesting" => RequestPost(a) \in AnyPost
         /\ EndPost(a) \in AnyPost
<1>1. client[a] = "requesting" => utterance[a] \in Request
  BY DEF Linked
<1>2. (IF DefaultScore \in Bids THEN DefaultScore ELSE NoBid) \in Bids
  BY StubBidAssumption
<1>3. client[a] = "requesting" => RequestPost(a) \in RequestTurnPost
  BY <1>1, <1>2 DEF RequestPost, RequestTurnPost
<1>4. (IF client[a] = "closing" THEN abandoned[a] ELSE grant[a]) \in NoTurn .. issued
  BY DEF Linked, ClientTypes, IInv, TypeOK, NoTurn
<1> QED
  BY <1>3, <1>4 DEF EndPost, AnyPost

\* What agents and server do together is, for the server, a step it is specified
\* with, or none.
LEMMA StepOfServer ==
  ASSUME MInv, [MultiAgentNext]_allVars
  PROVE  [Next]_vars
<1>1. IInv /\ ClientTypes /\ Conn = Agent /\ \A a \in Agent : Linked(a)
  BY ConnAssumption DEF MInv
<1>2. CASE UNCHANGED vars
  BY <1>2
<1>3. ASSUME NEW a \in Agent, AgentStep(a) PROVE [Next]_vars
  <2>1. CASE RequestReachesServer(a)
    BY <1>1, <2>1, PostsAreAny DEF RequestReachesServer, Next
  <2>2. CASE RequestAnswered(a)
    BY <1>1, <2>2 DEF RequestAnswered, Next
  <2>3. CASE Poll(a)
    <3>1. utterance[a] \in Request
      BY <1>1, <2>3 DEF Poll, Linked
    <3>2. GetTurnDecision(utterance[a], a, TurnDecisionReply(utterance[a], a))
      BY <2>3 DEF Poll
    <3> QED
      BY <3>1, <3>2 DEF Next
  <2>4. CASE EndReachesServer(a)
    BY <1>1, <2>4, PostsAreAny DEF EndReachesServer, Next
  <2>5. CASE EndAnswered(a)
    BY <1>1, <2>5 DEF EndAnswered, Next
  <2>6. CASE DecisionTimeout(a) \/ Spoken(a)
    BY <1>2, <2>6 DEF DecisionTimeout, Spoken
  <2> QED
    BY <1>3, <2>1, <2>2, <2>3, <2>4, <2>5, <2>6 DEF AgentStep
<1>4. ASSUME NEW a \in Agent, Fault(a) PROVE [Next]_vars
  <2>1. CASE UNCHANGED vars
    BY <2>1
  <2>2. CASE BodyFails(a, BadRequest)
    BY <1>1, <2>2 DEF Next
  <2> QED
    BY <1>4, <2>1, <2>2 DEF Fault, FallBack, PostLost, PostCut, Crash
<1>5. ASSUME NEW a \in Agent, NEW r \in Request, Hear(a, r) PROVE [Next]_vars
  BY <1>5 DEF Hear
<1>6. ASSUME NEW r \in Request, Window(r) PROVE [Next]_vars
  BY <1>6 DEF Window, Next
<1>7. CASE LeaseRunsOut
  BY <1>7 DEF LeaseRunsOut, Next
<1>8. CASE UNCHANGED allVars
  BY <1>8 DEF allVars
<1> QED
  BY <1>3, <1>4, <1>5, <1>6, <1>7, <1>8 DEF MultiAgentNext

----------------------------------------------------------------------------
(* The steps of an agent                                                   *)

\* A step that leaves the agent without a post, and neither asking, waiting nor
\* speaking unless PersonaPlex falls back.
LEMMA QuietStep ==
  ASSUME MInv, IInv', NEW a \in Agent, NEW s \in ClientState, Goto(a, s),
         HeardOnceOnly /\ Steady => s \in {"idle", "ending", "closing"},
         NEW g \in Nat, g <= issued, abandoned' = [abandoned EXCEPT ![a] = g],
         UNCHANGED <<utterance, grant, heard, faults, pendingRequests, decisions, issued>>,
         \A b \in Agent \ {a} : currentSpeaker = b /\ ~currentLease.expired => UNCHANGED floorVars,
         client[a] # "idle",
         \A b \in Agent \ {a} : conn'[b] = conn[b], conn'[a] = Idle
  PROVE  MInv'
<1>1. ClientTypes /\ IInv /\ issued \in Nat /\ Linked(a)
  BY DEF MInv, IInv, TypeOK
<1>2. ClientTypes'
  BY <1>1 DEF ClientTypes, Goto
<1>3. \A b \in Agent \ {a} : AgentKept(b)
  BY <1>1 DEF AgentKept, ClientTypes, Goto
<1>4. client'[a] = s /\ abandoned'[a] = g
  BY <1>1 DEF Goto, ClientTypes
<1>5. Linked(a)'
  BY <1>1, <1>4 DEF Linked
<1>6. ASSUME HeardOnceOnly, Steady PROVE New(a)' /\ Holds(a)'
  BY <1>4, <1>6, BystanderKept DEF MInv
<1> QED
  BY <1>2, <1>3, <1>5, <1>6, AgentMoves

\* A transcript is ready: the agent is new to the utterance.
LEMMA HearKeepsMInv ==
  ASSUME MInv, NEW a \in Agent, NEW r \in Request, Hear(a, r), IInv'
  PROVE  MInv'
<1>1. ClientTypes /\ IInv /\ issued \in Nat /\ Linked(a) /\ faults \in FaultCases
  BY DEF MInv, IInv, TypeOK, ClientTypes
<1>2. /\ client' = [client EXCEPT ![a] = "requesting"]
      /\ heard' = [heard EXCEPT ![a][r] = @ + 1]
      /\ utterance' = [utterance EXCEPT ![a] = r]
      /\ client[a] = "idle" /\ conn[a] = Idle /\ heard[a][r] < MaxHears[faults][r]
      /\ UNCHANGED <<vars, grant, abandoned, faults>>
  BY DEF Hear, Goto
<1>3. heard[a] \in [Request -> Nat] /\ heard[a][r] \in Nat
  BY <1>1 DEF ClientTypes
<1>4. heard' \in [Agent -> [Request -> Nat]]
  BY <1>1, <1>2, <1>3 DEF ClientTypes
<1>5. ClientTypes'
  BY <1>1, <1>2, <1>4 DEF ClientTypes, ClientState
<1>6. \A b \in Agent \ {a} : AgentKept(b)
  BY <1>1, <1>2 DEF AgentKept, ClientTypes, vars
<1>7. /\ client'[a] = "requesting" /\ utterance'[a] = r /\ heard'[a][r] = heard[a][r] + 1
      /\ \A q \in Request \ {r} : heard'[a][q] = heard[a][q]
  BY <1>1, <1>2, <1>3 DEF ClientTypes
<1>8. Linked(a)'
  BY <1>1, <1>2, <1>3, <1>7 DEF Linked, vars
<1>9. ASSUME HeardOnceOnly, Steady PROVE New(a)' /\ Holds(a)'
  <2>1. heard[a][r] = 0
    <3>1. MaxHears[faults][r] \in Nat /\ MaxHears[faults][r] <= 1
      BY <1>1, <1>9, MaxHearsAssumption DEF HeardOnceOnly
    <3> QED
      BY <1>2, <1>3, <3>1
  <2>2. New(a)
    BY <1>9 DEF MInv
  <2> QED
    BY <1>2, <1>3, <1>7, <2>1, <2>2 DEF New, Holds, vars
<1>10. UNCHANGED <<faults, issued, decisions, pendingRequests, floorVars>>
  BY <1>2 DEF vars, floorVars
<1> QED
  BY <1>5, <1>6, <1>8, <1>9, <1>10, AgentMoves

\* A post reaches the server, which looks at the lease.
LEMMA ArrivalKeepsMInv ==
  ASSUME MInv, NEW a \in Agent, RequestReachesServer(a) \/ EndReachesServer(a), IInv'
  PROVE  MInv'
<1>1. ClientTypes /\ IInv /\ issued \in Nat /\ Linked(a) /\ conn \in [Agent -> {Idle} \cup Post]
  BY ConnAssumption DEF MInv, IInv, TypeOK
<1>2. PICK post :
        /\ conn' = [conn EXCEPT ![a] = post]
        /\ \/ client[a] = "requesting" /\ post = RequestPost(a)
           \/ Ending(a) /\ post = EndPost(a)
        /\ CheckLeaseExpiry /\ UNCHANGED <<clientVars, pendingRequests, decisions, issued>>
  BY DEF RequestReachesServer, EndReachesServer, PostArrives
<1>3. ClientTypes'
  BY <1>1, <1>2 DEF ClientTypes, clientVars
<1>4. \A b \in Agent \ {a} : AgentKept(b)
  BY <1>1, <1>2 DEF AgentKept, clientVars
<1>5. RequestPost(a)' = RequestPost(a) /\ EndPost(a)' = EndPost(a) /\ (Ending(a)' <=> Ending(a))
  BY <1>2 DEF clientVars, RequestPost, EndPost, Ending
<1>6. Linked(a)'
  BY <1>1, <1>2, <1>5 DEF Linked, clientVars
<1>7. ASSUME HeardOnceOnly, Steady PROVE New(a)' /\ Holds(a)'
  <2>1. client'[a] = client[a] /\ client[a] \notin {"speaking", "polling"}
    BY <1>2 DEF clientVars, Ending
  <2> QED
    BY <1>2, <1>7, <2>1 DEF MInv, New, Holds, clientVars
<1> QED
  BY <1>2, <1>3, <1>4, <1>6, <1>7, ExpiryKeepsFloor, AgentMoves DEF clientVars

\* Who joins a bucket.
LEMMA JoinedRequesters ==
  ASSUME NEW entries \in Seq(Entry), NEW a \in Agent, NEW bid \in Bid
  PROVE  Requesters(Joined(entries, a, bid)) \subseteq Requesters(entries) \cup {a}
<1>1. CASE a \notin Requesters(entries)
  <2> DEFINE e == [agentId |-> a, bid |-> bid]
             s == Append(entries, e)
  <2>1. Joined(entries, a, bid) = s
    BY <1>1 DEF Joined
  <2>2. e \in Entry /\ e.agentId = a
    BY DEF Entry
  <2> HIDE DEF e
  <2>3. Len(s) = Len(entries) + 1 /\ s[Len(entries) + 1] = e
        /\ \A i \in 1 .. Len(entries) : s[i] = entries[i]
    BY <2>2, AppendProperties
  <2> HIDE DEF s
  <2>4. Len(entries) \in Nat
    OBVIOUS
  <2>5. ASSUME NEW i \in 1 .. Len(s) PROVE s[i].agentId \in Requesters(entries) \cup {a}
    BY <2>2, <2>3, <2>4 DEF Requesters
  <2> QED
    BY <2>1, <2>5 DEF Requesters
<1>2. CASE a \in Requesters(entries)
  <2>1. CASE bid = NoBid
    BY <1>2, <2>1 DEF Joined
  <2>2. CASE bid # NoBid
    <3> DEFINE s == [i \in 1 .. Len(entries) |->
                      IF entries[i].agentId = a THEN [entries[i] EXCEPT !.bid = bid] ELSE entries[i]]
    <3>1. Joined(entries, a, bid) = s
      BY <1>2, <2>2 DEF Joined
    <3>2. \A i \in 1 .. Len(entries) : entries[i] \in Entry
      OBVIOUS
    <3>3. \A i \in 1 .. Len(entries) : s[i].agentId = entries[i].agentId
      BY <3>2 DEF Entry
    <3>4. Len(s) = Len(entries)
      <4>1. Len(entries) \in Nat
        OBVIOUS
      <4> QED
        BY <4>1
    <3> HIDE DEF s
    <3> QED
      BY <3>1, <3>3, <3>4 DEF Requesters
  <2> QED
    BY <2>1, <2>2
<1> QED
  BY <1>1, <1>2

\* The server answers a request: taken up, refused, or the answer is lost.
LEMMA AnswerKeepsMInv ==
  ASSUME MInv, NEW a \in Agent, RequestAnswered(a), IInv'
  PROVE  MInv'
<1>1. /\ ClientTypes /\ IInv /\ issued \in Nat /\ Linked(a)
      /\ conn \in [Agent -> {Idle} \cup Post]
      /\ pendingRequests \in [Request -> Seq(Entry)]
  BY ConnAssumption DEF MInv, IInv, TypeOK
<1>2. PICK reply \in {Pending, Refused} :
        RequestTurn(a, reply) /\ (Goto(a, "polling") \/ Return(a))
  BY DEF RequestAnswered
<1>3. UNCHANGED <<utterance, grant, abandoned, synced, heard, faults>>
  BY DEF RequestAnswered
<1>4. client[a] = "requesting" /\ conn[a] = RequestPost(a)
  <2>1. conn[a].op = "request-turn"
    BY <1>2 DEF RequestTurn
  <2>2. conn[a] # Idle /\ EndPost(a).op # "request-turn"
    BY <2>1 DEF Idle, EndPost
  <2> QED
    BY <1>1, <2>1, <2>2 DEF Linked
<1> DEFINE u == utterance[a]
<1>5. u \in Request /\ heard[a][u] > 0 /\ RequestPost(a).requestId = u /\ RequestPost(a).agentId = a
      /\ RequestPost(a).bid \in Bid
  BY <1>1, <1>4 DEF Linked, RequestPost, Bid, Score, MinScore, MaxScore, DefaultScore
<1>6. PICK s \in {"polling", "idle", "closing"} : Goto(a, s)
  BY <1>2 DEF Return
<1>7. /\ conn' = [conn EXCEPT ![a] = Idle]
      /\ \/ pendingRequests' = pendingRequests
         \/ pendingRequests' = [pendingRequests EXCEPT ![u] = Joined(@, a, RequestPost(a).bid)]
      /\ UNCHANGED <<floorVars, decisions, issued>>
  BY <1>2, <1>4, <1>5 DEF RequestTurn
<1> HIDE DEF u
<1>8. \A b \in Agent, r \in Request :
        b \in Requesters(pendingRequests'[r]) => b \in Requesters(pendingRequests[r]) \/ (b = a /\ r = u)
  BY <1>1, <1>5, <1>7, JoinedRequesters
<1>9. client'[a] = s /\ conn'[a] = Idle /\ utterance'[a] = u
  BY <1>1, <1>3, <1>6, <1>7 DEF Goto, ClientTypes, u
<1>10. ClientTypes'
  BY <1>1, <1>3, <1>6 DEF ClientTypes, ClientState, Goto
<1>11. \A b \in Agent \ {a} : AgentKept(b)
  BY <1>1, <1>3, <1>6, <1>7 DEF AgentKept, ClientTypes, Goto
<1>12. Linked(a)'
  BY <1>1, <1>3, <1>5, <1>7, <1>9 DEF Linked
<1>13. ASSUME HeardOnceOnly, Steady PROVE New(a)' /\ Holds(a)'
  <2>1. New(a) /\ a \notin decisions[u].allowed
    BY <1>4, <1>5, <1>13 DEF MInv, New, u
  <2>2. ASSUME NEW r \in Request, heard'[a][r] = 0
        PROVE  a \notin decisions'[r].allowed /\ a \notin Requesters(pendingRequests'[r])
    <3>1. heard[a][r] = 0 /\ r # u
      BY <1>3, <1>5, <2>2
    <3> QED
      BY <1>7, <1>8, <2>1, <3>1 DEF New
  <2>3. New(a)'
    BY <1>9, <2>2 DEF New
  <2>4. Holds(a)'
    BY <1>7, <1>9, <2>1 DEF Holds
  <2> QED
    BY <2>3, <2>4
<1> QED
  BY <1>3, <1>7, <1>8, <1>10, <1>11, <1>12, <1>13, AgentMoves

\* A poll: what it grants, the agent has.
LEMMA PollKeepsMInv ==
  ASSUME MInv, NEW a \in Agent, Poll(a), IInv'
  PROVE  MInv'
<1> DEFINE u == utterance[a]
           d == decisions[u]
<1>1. /\ ClientTypes /\ IInv /\ issued \in Nat /\ Linked(a) /\ client[a] = "polling"
      /\ decisions \in [Request -> Decision]
  BY DEF MInv, IInv, TypeOK, Poll
<1>2. u \in Request /\ heard[a][u] > 0 /\ conn[a] = Idle
  BY <1>1 DEF Linked, Ending
<1>3. d.turnId \in Nat /\ d.turnId <= issued
  <2>1. d \in Decision
    BY <1>1, <1>2
  <2>2. d.turnId \in Nat
    BY <2>1 DEF Decision
  <2> QED
    BY <1>1, <1>2, <2>2 DEF IInv, OneWinnerPerGrant, NoTurn
<1>4. /\ CheckLeaseExpiry
      /\ UNCHANGED <<utterance, abandoned, heard, faults, pendingRequests, decisions, conn, issued>>
  BY DEF Poll, GetTurnDecision
<1> HIDE DEF u
<1>5. PICK s \in {"polling", "idle", "closing", "speaking"}, g \in Nat :
        /\ client' = [client EXCEPT ![a] = s]
        /\ grant' = [grant EXCEPT ![a] = g]
        /\ g = grant[a] \/ (g = d.turnId /\ s = "speaking")
        /\ s = "speaking" => g = d.turnId /\ a \in d.allowed
  <2>1. client = [client EXCEPT ![a] = "polling"] /\ grant = [grant EXCEPT ![a] = grant[a]] /\ grant[a] \in Nat
    BY <1>1 DEF ClientTypes
  <2> DEFINE reply == TurnDecisionReply(u, a)
  <2>2. reply.allowed = (a \in d.allowed) /\ (reply.allowed => reply.turnId = d.turnId)
    BY DEF TurnDecisionReply
  <2>3. \/ UNCHANGED <<client, grant>>
        \/ Return(a) /\ UNCHANGED grant
        \/ reply.allowed /\ Goto(a, "speaking") /\ grant' = [grant EXCEPT ![a] = reply.turnId]
    BY DEF Poll, u
  <2> HIDE DEF reply
  <2>4. CASE UNCHANGED <<client, grant>>
    BY <2>1, <2>4
  <2>5. CASE Return(a) /\ UNCHANGED grant
    BY <2>1, <2>5 DEF Return, Goto
  <2>6. CASE reply.allowed /\ Goto(a, "speaking") /\ grant' = [grant EXCEPT ![a] = reply.turnId]
    BY <1>3, <2>2, <2>6 DEF Goto
  <2> QED
    BY <2>3, <2>4, <2>5, <2>6
<1>6. client'[a] = s /\ grant'[a] = g /\ utterance'[a] = u
  BY <1>1, <1>4, <1>5 DEF ClientTypes, u
<1>7. ClientTypes'
  BY <1>1, <1>4, <1>5 DEF ClientTypes, ClientState
<1>8. \A b \in Agent \ {a} : AgentKept(b)
  BY <1>1, <1>4, <1>5 DEF AgentKept, ClientTypes
<1>9. Linked(a)'
  BY <1>1, <1>2, <1>3, <1>4, <1>5, <1>6 DEF Linked
<1>10. ASSUME HeardOnceOnly, Steady PROVE New(a)' /\ Holds(a)'
  <2>1. New(a) /\ Holds(a)
    BY <1>10 DEF MInv
  <2>2. New(a)'
    BY <1>4, <1>6, <2>1 DEF New
  <2>3. a \in d.allowed => Floored(a, d.turnId)
    BY <1>1, <2>1 DEF Holds, u
  <2>4. a \in d.allowed =>
          currentSpeaker' = a /\ currentLease'.turnId = d.turnId /\ ~currentLease'.expired
    BY <1>4, <2>3, ExpiryKeepsFloor DEF Floored, floorVars
  <2>5. decisions'[utterance'[a]] = d
    BY <1>4, <1>6
  <2>6. Holds(a)'
    BY <1>5, <1>6, <2>4, <2>5 DEF Holds, Floored
  <2> QED
    BY <2>2, <2>6
<1> QED
  BY <1>4, <1>7, <1>8, <1>9, <1>10, ExpiryKeepsFloor, AgentMoves

\* Where an agent is after its end-turn, or a request that failed.
LEMMA AfterPost ==
  ASSUME MInv, NEW a \in Agent, RequestGone(a) \/ AfterEnd(a)
  PROVE  /\ client[a] # "idle"
         /\ \E s \in ClientState, g \in Nat :
              /\ Goto(a, s) /\ abandoned' = [abandoned EXCEPT ![a] = g] /\ g <= issued
              /\ HeardOnceOnly /\ Steady => s \in {"idle", "ending", "closing"}
<1>1. /\ abandoned[a] \in Nat /\ abandoned[a] <= issued /\ issued \in Nat
      /\ abandoned = [abandoned EXCEPT ![a] = abandoned[a]]
  BY DEF MInv, ClientTypes, Linked, IInv, TypeOK
<1>2. HeardOnceOnly /\ Steady => client[a] # "releasing"
  BY DEF MInv, New
<1>3. client[a] # "idle"
  BY DEF RequestGone, AfterEnd
<1>4. CASE Return(a) /\ UNCHANGED abandoned
  BY <1>1, <1>3, <1>4 DEF Return, ClientState
<1>5. CASE client[a] = "releasing" /\ Goto(a, "requesting") /\ UNCHANGED abandoned
  BY <1>1, <1>2, <1>3, <1>5 DEF ClientState
<1>6. CASE Goto(a, "idle") /\ abandoned' = [abandoned EXCEPT ![a] = NoTurn]
  <2>1. /\ "idle" \in ClientState /\ 0 \in Nat /\ 0 <= issued
        /\ Goto(a, "idle") /\ abandoned' = [abandoned EXCEPT ![a] = 0]
    BY <1>1, <1>6 DEF ClientState, NoTurn
  <2> QED
    BY <1>3, <2>1
<1> QED
  BY <1>4, <1>5, <1>6 DEF RequestGone, AfterEnd

\* The server answers end-turn: only the agent's own floor can be given up.
LEMMA EndKeepsMInv ==
  ASSUME MInv, NEW a \in Agent, EndAnswered(a), IInv'
  PROVE  MInv'
<1>1. Linked(a) /\ conn \in [Agent -> {Idle} \cup Post]
  BY ConnAssumption DEF MInv, IInv, TypeOK
<1>2. EndTurn(a, Ok) /\ AfterEnd(a) /\ UNCHANGED <<utterance, grant, heard, faults>>
  BY DEF EndAnswered
<1>3. conn[a].agentId = a
  <2>1. conn[a] # Idle
    BY <1>2 DEF EndTurn, Idle
  <2> QED
    BY <1>1, <2>1 DEF Linked, RequestPost, EndPost
<1>4. /\ conn' = [conn EXCEPT ![a] = Idle]
      /\ UNCHANGED <<pendingRequests, decisions, issued>>
      /\ currentSpeaker = a \/ UNCHANGED floorVars
  BY <1>2, <1>3 DEF EndTurn
<1>5. PICK s \in ClientState, g \in Nat :
        /\ Goto(a, s) /\ abandoned' = [abandoned EXCEPT ![a] = g] /\ g <= issued
        /\ HeardOnceOnly /\ Steady => s \in {"idle", "ending", "closing"}
  BY <1>2, AfterPost
<1>6. client[a] # "idle"
  BY <1>2, AfterPost
<1>7. (\A b \in Agent \ {a} : conn'[b] = conn[b]) /\ conn'[a] = Idle
  BY <1>1, <1>4
<1> QED
  BY <1>2, <1>4, <1>5, <1>6, <1>7, QuietStep

\* What an agent does on its own, and what fails around it.
LEMMA LocalKeepsMInv ==
  ASSUME MInv, NEW a \in Agent, DecisionTimeout(a) \/ Spoken(a) \/ Fault(a), IInv'
  PROVE  MInv'
<1>1. /\ Linked(a) /\ conn \in [Agent -> {Idle} \cup Post] /\ issued \in Nat
      /\ grant[a] \in Nat /\ abandoned[a] \in Nat
      /\ abandoned = [abandoned EXCEPT ![a] = abandoned[a]]
  BY ConnAssumption DEF MInv, IInv, TypeOK, ClientTypes
<1>2. /\ UNCHANGED <<utterance, grant, heard, faults>>
      /\ UNCHANGED vars \/ BodyFails(a, BadRequest)
  BY DEF DecisionTimeout, Spoken, Fault, FallBack, PostLost, PostCut, Crash
<1>3. /\ UNCHANGED <<floorVars, pendingRequests, decisions, issued>>
      /\ \A b \in Agent \ {a} : conn'[b] = conn[b]
  BY <1>1, <1>2 DEF vars, floorVars, BodyFails
<1>4. conn'[a] = Idle
  <2>1. CASE UNCHANGED vars /\ conn[a] = Idle
    BY <2>1 DEF vars
  <2>2. CASE BodyFails(a, BadRequest)
    BY <1>1, <2>2 DEF BodyFails
  <2>3. client[a] \in {"polling", "speaking"} => conn[a] = Idle
    BY <1>1 DEF Linked, Ending
  <2> QED
    BY <2>1, <2>2, <2>3 DEF DecisionTimeout, Spoken, Fault, FallBack, PostLost, PostCut, Crash
<1>5. /\ client[a] # "idle"
      /\ \E s \in ClientState, g \in Nat :
           /\ Goto(a, s) /\ abandoned' = [abandoned EXCEPT ![a] = g] /\ g <= issued
           /\ HeardOnceOnly /\ Steady => s \in {"idle", "ending", "closing"}
  <2>1. CASE DecisionTimeout(a)
    BY <1>1, <2>1 DEF DecisionTimeout, Return, Linked, ClientState
  <2>2. CASE Spoken(a)
    BY <1>1, <2>2 DEF Spoken, Linked, ClientState
  <2>3. CASE FallBack(a)
    BY <1>1, <2>3 DEF FallBack, Linked, ClientState, Steady
  <2>4. CASE PostLost(a) \/ PostCut(a)
    <3>1. RequestGone(a) \/ AfterEnd(a)
      BY <2>4 DEF PostLost, PostCut
    <3> QED
      BY <3>1, AfterPost
  <2>5. CASE Crash(a)
    <3>1. /\ "idle" \in ClientState /\ 0 \in Nat /\ 0 <= issued /\ client[a] # "idle"
          /\ Goto(a, "idle") /\ abandoned' = [abandoned EXCEPT ![a] = 0]
      BY <1>1, <2>5 DEF Crash, ClientState, NoTurn
    <3> QED
      BY <3>1
  <2> QED
    BY <2>1, <2>2, <2>3, <2>4, <2>5 DEF Fault
<1>6. PICK s \in ClientState, g \in Nat :
        /\ Goto(a, s) /\ abandoned' = [abandoned EXCEPT ![a] = g] /\ g <= issued
        /\ HeardOnceOnly /\ Steady => s \in {"idle", "ending", "closing"}
  BY <1>5
<1> QED
  BY <1>2, <1>3, <1>4, <1>5, <1>6, QuietStep

----------------------------------------------------------------------------
(* The steps of the server                                                 *)

\* A lease ends: not that of an agent that speaks or is about to.
LEMMA LeaseKeepsMInv ==
  ASSUME MInv, LeaseRunsOut, IInv'
  PROVE  MInv'
<1>1. /\ UNCHANGED <<clientVars, pendingRequests, decisions, conn, issued>>
      /\ HolderBusy => "slowTurn" \in faults
  BY DEF LeaseRunsOut, LeaseEnds
<1>2. ClientTypes'
  BY <1>1 DEF MInv, ClientTypes, clientVars
<1> SUFFICES ASSUME NEW a \in Agent
             PROVE  Linked(a)' /\ (HeardOnceOnly /\ Steady => New(a)' /\ Holds(a)')
  BY <1>1, <1>2 DEF MInv, Steady, clientVars
<1>3. Linked(a)'
  <2>1. AgentKept(a) /\ Linked(a) /\ ClientTypes /\ issued \in Nat
    BY <1>1 DEF AgentKept, MInv, clientVars, IInv, TypeOK
  <2> QED
    BY <1>1, <2>1, KeptLinked
<1>4. ASSUME HeardOnceOnly, Steady PROVE New(a)' /\ Holds(a)'
  <2>1. New(a) /\ Holds(a) /\ ~HolderBusy
    BY <1>1, <1>4 DEF MInv, Steady
  <2>2. client[a] # "speaking"
    BY <2>1 DEF Holds, Floored, HolderBusy
  <2>3. ~(client[a] = "polling" /\ a \in decisions[utterance[a]].allowed)
    BY <2>1 DEF Holds, Floored, HolderBusy
  <2> QED
    BY <1>1, <2>1, <2>2, <2>3 DEF New, Holds, clientVars
<1> QED
  BY <1>3, <1>4

\* A bucket is flushed: nobody's floor is given away, and who is granted gets the
\* floor with the decision.
LEMMA WindowKeepsMInv ==
  ASSUME MInv, NEW r \in Request, Window(r), IInv'
  PROVE  MInv'
<1>1. /\ FlushRequest(r) /\ UNCHANGED <<clientVars, conn>>
      /\ IInv /\ ClientTypes /\ issued \in Nat /\ decisions \in [Request -> Decision]
      /\ pendingRequests \in [Request -> Seq(Entry)]
  BY DEF Window, FlushRequest, MInv, IInv, TypeOK
<1>2. ClientTypes'
  BY <1>1 DEF ClientTypes, clientVars
<1>3. \E w \in Agent, ids \in SUBSET Agent, t \in Nat :
        /\ decisions' = [decisions EXCEPT ![r] = [decided |-> TRUE, allowed |-> ids, turnId |-> t]]
        /\ ids \subseteq Requesters(pendingRequests[r]) \cap {w}
        /\ \/ SpeakerNow # NoAgent /\ CheckLeaseExpiry /\ ids = {} /\ issued' = issued
           \/ /\ SpeakerNow = NoAgent /\ issued' = issued + 1 /\ currentSpeaker' = w
              /\ currentLease' = [turnId |-> t, expired |-> FALSE]
  <2>1. CASE DenyAll(r)
    <3>1. SpeakerNow \in Agent
      BY <1>1, <2>1 DEF DenyAll, SpeakerNow, IInv, TypeOK
    <3> QED
      BY <2>1, <3>1 DEF DenyAll, NoTurn
  <2>2. CASE \E w \in Agent : Grant(r, w)
    <3>1. PICK w \in Agent : Grant(r, w)
      BY <2>2
    <3>2. issued' \in Nat /\ {w} \cap Requesters(pendingRequests[r]) \in SUBSET Agent
      BY <1>1, <3>1 DEF Grant
    <3> QED
      BY <3>1, <3>2 DEF Grant
  <2> QED
    BY <1>1, <2>1, <2>2 DEF FlushRequest
<1>4. PICK w \in Agent, ids \in SUBSET Agent, t \in Nat :
        /\ decisions' = [decisions EXCEPT ![r] = [decided |-> TRUE, allowed |-> ids, turnId |-> t]]
        /\ ids \subseteq Requesters(pendingRequests[r]) \cap {w}
        /\ \/ SpeakerNow # NoAgent /\ CheckLeaseExpiry /\ ids = {} /\ issued' = issued
           \/ /\ SpeakerNow = NoAgent /\ issued' = issued + 1 /\ currentSpeaker' = w
              /\ currentLease' = [turnId |-> t, expired |-> FALSE]
  BY <1>3
<1>5. /\ pendingRequests' = [pendingRequests EXCEPT ![r] = <<>>]
      /\ \A b \in Agent, q \in Request :
           b \in Requesters(pendingRequests'[q]) => b \in Requesters(pendingRequests[q])
  <2>1. pendingRequests' = [pendingRequests EXCEPT ![r] = <<>>]
    BY <1>1 DEF FlushRequest
  <2>2. Requesters(<<>>) = {}
    BY DEF Requesters
  <2> QED
    BY <1>1, <2>1, <2>2
<1>6. /\ decisions'[r].allowed = ids /\ decisions'[r].turnId = t
      /\ \A q \in Request \ {r} : decisions'[q] = decisions[q]
  BY <1>1, <1>4
<1> SUFFICES ASSUME NEW a \in Agent
             PROVE  Linked(a)' /\ (HeardOnceOnly /\ Steady => New(a)' /\ Holds(a)')
  BY <1>1, <1>2 DEF MInv, Steady, clientVars
<1>7. Linked(a)'
  <2>1. AgentKept(a) /\ Linked(a)
    BY <1>1 DEF AgentKept, MInv, clientVars
  <2>2. issued' \in Nat /\ issued' >= issued
    BY <1>1, <1>4
  <2> QED
    BY <1>1, <2>1, <2>2, KeptLinked
<1>8. ASSUME HeardOnceOnly, Steady PROVE New(a)' /\ Holds(a)'
  <2>1. New(a) /\ Holds(a) /\ Linked(a)
    BY <1>8 DEF MInv
  <2>2. UNCHANGED <<client, utterance, grant, heard>>
    BY <1>1 DEF clientVars
  <2>3. New(a)'
    BY <1>4, <1>5, <1>6, <2>1, <2>2 DEF New
  <2>4. currentSpeaker = a /\ ~currentLease.expired => UNCHANGED floorVars
    <3>1. a # NoAgent
      BY AgentAssumption DEF NoAgent
    <3>2. currentSpeaker = a /\ ~currentLease.expired => SpeakerNow # NoAgent
      BY <3>1 DEF SpeakerNow, LeaseLapsed
    <3> QED
      BY <1>4, <3>2, ExpiryKeepsFloor
  <2>5. client[a] = "speaking" => Floored(a, grant[a])'
    BY <2>1, <2>2, <2>4 DEF Holds, Floored, floorVars
  <2>6. ASSUME client[a] = "polling", a \in decisions'[utterance[a]].allowed
        PROVE  /\ currentSpeaker' = a /\ currentLease'.turnId = decisions'[utterance[a]].turnId
               /\ ~currentLease'.expired
    <3>1. utterance[a] \in Request
      BY <2>1, <2>6 DEF Linked
    <3>2. CASE utterance[a] = r
      BY <1>4, <1>6, <2>6, <3>2
    <3>3. CASE utterance[a] # r
      <4>1. decisions'[utterance[a]] = decisions[utterance[a]]
        BY <1>6, <3>1, <3>3
      <4> QED
        BY <2>1, <2>4, <2>6, <4>1 DEF Holds, Floored, floorVars
    <3> QED
      BY <3>2, <3>3
  <2>7. Holds(a)'
    BY <2>2, <2>5, <2>6 DEF Holds, Floored
  <2> QED
    BY <2>3, <2>7
<1> QED
  BY <1>7, <1>8

----------------------------------------------------------------------------
(* The theorems                                                            *)

\* The invariant holds at first, before anybody has heard anything.
LEMMA InitMInv ==
  ASSUME MultiAgentInit
  PROVE  MInv
<1>1. Init /\ IInv
  BY InitIInv DEF MultiAgentInit
<1>2. ClientTypes
  BY DEF MultiAgentInit, ClientTypes, ClientState, NoTurn
<1> SUFFICES ASSUME NEW a \in Agent
             PROVE  Linked(a) /\ (HeardOnceOnly /\ Steady => New(a) /\ Holds(a))
  BY <1>1, <1>2 DEF MInv
<1>3. client[a] = "idle" /\ grant[a] = 0 /\ abandoned[a] = 0
  BY DEF MultiAgentInit, NoTurn
<1>4. conn[a] = Idle /\ issued = 0
  BY <1>1, ConnAssumption DEF Init
<1>5. \A r \in Request : decisions[r].allowed = {} /\ Requesters(pendingRequests[r]) = {}
  BY <1>1 DEF Init, Undecided, Requesters
<1> QED
  BY <1>3, <1>4, <1>5 DEF Linked, New, Holds

\* Every step keeps it.
LEMMA StepKeepsMInv ==
  ASSUME MInv, [MultiAgentNext]_allVars
  PROVE  MInv'
<1>1. IInv'
  BY StepOfServer, NextKeepsIInv DEF MInv
<1>2. ASSUME NEW a \in Agent, AgentStep(a) PROVE MInv'
  BY <1>1, <1>2, ArrivalKeepsMInv, AnswerKeepsMInv, PollKeepsMInv, EndKeepsMInv, LocalKeepsMInv
     DEF AgentStep
<1>3. ASSUME NEW a \in Agent, Fault(a) PROVE MInv'
  BY <1>1, <1>3, LocalKeepsMInv
<1>4. ASSUME NEW a \in Agent, NEW r \in Request, Hear(a, r) PROVE MInv'
  BY <1>1, <1>4, HearKeepsMInv
<1>5. ASSUME NEW r \in Request, Window(r) PROVE MInv'
  BY <1>1, <1>5, WindowKeepsMInv
<1>6. CASE LeaseRunsOut
  BY <1>1, <1>6, LeaseKeepsMInv
<1>7. CASE UNCHANGED allVars
  <2>1. ClientTypes'
    BY <1>7 DEF allVars, clientVars, MInv, ClientTypes
  <2>2. ASSUME NEW a \in Agent
        PROVE  Linked(a)' /\ (HeardOnceOnly /\ Steady' => New(a)' /\ Holds(a)')
    <3>1. AgentKept(a) /\ Linked(a) /\ ClientTypes /\ issued' = issued /\ issued \in Nat
      BY <1>7 DEF allVars, clientVars, vars, AgentKept, MInv, IInv, TypeOK
    <3>2. Linked(a)'
      BY <3>1, KeptLinked
    <3>3. HeardOnceOnly /\ Steady' => New(a)' /\ Holds(a)'
      BY <1>7, <3>1 DEF allVars, clientVars, vars, MInv, Steady, AgentKept, New, Holds, Floored
    <3> QED
      BY <3>2, <3>3
  <2> QED
    BY <1>1, <2>1, <2>2 DEF MInv
<1> QED
  BY <1>2, <1>3, <1>4, <1>5, <1>6, <1>7 DEF MultiAgentNext

\* It holds throughout.
LEMMA MultiAgentInvariance == MultiAgentSpec => []MInv
<1>1. MultiAgentInit => MInv
  BY InitMInv
<1>2. MInv /\ [MultiAgentNext]_allVars => MInv'
  BY StepKeepsMInv
<1> QED
  BY <1>1, <1>2, PTL DEF MultiAgentSpec

\* Agents that take turns as the pipeline does, with fetches that fail, processes
\* that crash and turns that fall back, drive the server only through behaviours
\* it is specified for: what is proved of the coordinator under any clients
\* (its lease lock, dialogue and grants) holds of the system.
THEOREM Composition == MultiAgentSpec => Spec
<1>1. MultiAgentInit => Init
  BY DEF MultiAgentInit
<1>2. MInv /\ [MultiAgentNext]_allVars => [Next]_vars
  BY StepOfServer
<1> QED
  BY <1>1, <1>2, MultiAgentInvariance, PTL DEF MultiAgentSpec, Spec

\* Where no agent hears the same utterance twice, an agent speaks only under the
\* lease that is live at the coordinator, with lost fetches, late decisions and
\* crashes, unless a lease ends under its turn or PersonaPlex falls back.
THEOREM SpeakerSafety ==
  ASSUME HeardOnceOnly
  PROVE  MultiAgentSpec => []SpeakerHasTheFloor
<1>1. MInv => SpeakerHasTheFloor
  BY DEF MInv, Steady, Holds, Floored, SpeakerHasTheFloor
<1> QED
  BY <1>1, MultiAgentInvariance, PTL

\* Under the same conditions no two agents speak at a time, which is what the
\* coordinator is for.
THEOREM OneSpeaker ==
  ASSUME HeardOnceOnly
  PROVE  MultiAgentSpec => [](Steady => NoOverlap)
<1>1. MInv => (Steady => NoOverlap)
  BY DEF MInv, Steady, Holds, Floored, NoOverlap
<1> QED
  BY <1>1, MultiAgentInvariance, PTL
===============================================================================
