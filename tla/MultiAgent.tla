----------------------------- MODULE MultiAgent -----------------------------
(***************************************************************************)
(* Agents that take turns through the coordinator: the server of module    *)
(* Coordinator with one CoordinatorClient (src/coordinator/client.ts) per  *)
(* agent process, and of each process's pipeline the order in which a turn *)
(* uses the client (src/pipeline/orchestrator.ts, runTurnCore): sync the   *)
(* dialogue, request the turn, speak, end the turn.                        *)
(*                                                                         *)
(* A client uses one connection, its agent's.  A fetch may fail before the *)
(* server has seen it or after the handler ran; the time a reply takes is  *)
(* the time before the client's next step.                                 *)
(*                                                                         *)
(* `faults` says what the environment does to a run besides interleaving:  *)
(*   "loss"      fetches fail                                              *)
(*   "timeout"   a decision takes longer than decisionTimeoutMs            *)
(*   "crash"     an agent process dies and is started again                *)
(*   "slowTurn"  a lease ends while its holder waits for it or speaks      *)
(*   "fallback"  PersonaPlex fails and the turn falls back to the pipeline *)
(***************************************************************************)
EXTENDS Coordinator, FiniteSets

CONSTANTS
  FaultCases, \* the sets of faults to look at
  MaxHears    \* bound: times an agent hears the same utterance, by case

ASSUME ConnAssumption == Conn = Agent
ASSUME FaultsAssumption ==
  FaultCases \subseteq SUBSET {"loss", "timeout", "crash", "slowTurn", "fallback"}
ASSUME MaxHearsAssumption == MaxHears \in [FaultCases -> [Request -> Nat]]
ASSUME StubBidAssumption == Bids \cap {DefaultScore, NoBid} # {}

VARIABLES
  client,     \* where the agent is in its turn: "idle", "requesting", "polling",
              \* "speaking", "ending", "releasing", "closing"
  utterance,  \* the utterance of that turn
  grant,      \* turnId the turn was granted with
  abandoned,  \* after a fallback, the turnId PersonaPlex had; else NoTurn
  synced,     \* the agent's copy of the shared dialogue
  heard,      \* how often each agent heard each utterance
  faults      \* what the environment does in this run

clientVars == <<client, utterance, grant, abandoned, synced, heard, faults>>
allVars == <<vars, clientVars>>

MultiAgentInit ==
  /\ Init
  /\ client = [a \in Agent |-> "idle"]
  /\ utterance = [a \in Agent |-> CHOOSE r \in Request : TRUE]
  /\ grant = [a \in Agent |-> NoTurn]
  /\ abandoned = [a \in Agent |-> NoTurn]
  /\ synced = [a \in Agent |-> <<>>]
  /\ heard = [a \in Agent |-> [r \in Request |-> 0]]
  /\ faults \in FaultCases

Goto(a, state) == client' = [client EXCEPT ![a] = state]

\* The turn returns; a fallback's turn returns into runTurnPersonaPlex, whose
\* own finally block ends the first grant once more.
Return(a) == Goto(a, IF abandoned[a] = NoTurn THEN "idle" ELSE "closing")

----------------------------------------------------------------------------
(* A turn                                                                  *)

\* syncRecentTurns and replaceTurns: a failed fetch counts as no turns at all.
Sync(a, turns) ==
  \/ synced' = [synced EXCEPT ![a] = turns]
  \/ "loss" \in faults /\ synced' = [synced EXCEPT ![a] = <<>>]

\* A transcript of r is ready: sync, then requestTurn starts.
Hear(a, r) ==
  /\ client[a] = "idle"
  /\ conn[a] = Idle
  /\ heard[a][r] < MaxHears[faults][r]
  /\ heard' = [heard EXCEPT ![a][r] = @ + 1]
  /\ utterance' = [utterance EXCEPT ![a] = r]
  /\ Sync(a, recentTurns)
  /\ Goto(a, "requesting")
  /\ UNCHANGED <<vars, grant, abandoned, faults>>

\* The bid of runTurnCore is a stub: its score is the default one.
RequestPost(a) ==
  [op |-> "request-turn", agentId |-> a, requestId |-> utterance[a],
   bid |-> IF DefaultScore \in Bids THEN DefaultScore ELSE NoBid]

RequestReachesServer(a) ==
  /\ client[a] = "requesting"
  /\ PostArrives(a, RequestPost(a))
  /\ UNCHANGED clientVars

\* The handler answers; without an answer the client takes it as a no.
RequestAnswered(a) ==
  /\ \E reply \in {Pending, Refused} :
       /\ RequestTurn(a, reply)
       /\ \/ reply = Pending /\ Goto(a, "polling")
          \/ reply = Refused /\ Return(a)
          \/ "loss" \in faults /\ Return(a)
  /\ UNCHANGED <<utterance, grant, abandoned, synced, heard, faults>>

\* GET /turn-decision: not decided yet, denied, or granted.
Poll(a) ==
  /\ client[a] = "polling"
  /\ LET reply == TurnDecisionReply(utterance[a], a)
     IN  /\ GetTurnDecision(utterance[a], a, reply)
         /\ IF ~reply.decided THEN UNCHANGED <<client, grant>>
            ELSE IF ~reply.allowed THEN Return(a) /\ UNCHANGED grant
            ELSE /\ Goto(a, "speaking")
                 /\ grant' = [grant EXCEPT ![a] = reply.turnId]
  /\ UNCHANGED <<utterance, abandoned, synced, heard, faults>>

\* No decision before the deadline: the turn is over.  (A poll whose fetch
\* rejects is caught nowhere; it ends the process, see Crash.)
DecisionTimeout(a) ==
  /\ "timeout" \in faults
  /\ client[a] = "polling"
  /\ Return(a)
  /\ UNCHANGED <<vars, utterance, grant, abandoned, synced, heard, faults>>

\* The reply is spoken; the finally block posts end-turn.
Spoken(a) ==
  /\ client[a] = "speaking"
  /\ Goto(a, "ending")
  /\ UNCHANGED <<vars, utterance, grant, abandoned, synced, heard, faults>>

\* PersonaPlex fails before any audio: end-turn, then runTurnCore requests the
\* turn of the same utterance again.
FallBack(a) ==
  /\ "fallback" \in faults
  /\ client[a] = "speaking"
  /\ abandoned[a] = NoTurn
  /\ abandoned' = [abandoned EXCEPT ![a] = grant[a]]
  /\ Goto(a, "releasing")
  /\ UNCHANGED <<vars, utterance, grant, synced, heard, faults>>

EndPost(a) ==
  [op |-> "end-turn", agentId |-> a,
   turnId |-> IF client[a] = "closing" THEN abandoned[a] ELSE grant[a]]

\* endTurn is in progress.
Ending(a) == client[a] \in {"ending", "releasing", "closing"}

EndReachesServer(a) ==
  /\ Ending(a)
  /\ PostArrives(a, EndPost(a))
  /\ UNCHANGED clientVars

\* What follows end-turn: nothing, or the fallback's sync and request.
AfterEnd(a) ==
  \/ client[a] = "ending" /\ Return(a) /\ UNCHANGED <<abandoned, synced>>
  \/ client[a] = "releasing" /\ Goto(a, "requesting") /\ Sync(a, recentTurns') /\ UNCHANGED abandoned
  \/ /\ client[a] = "closing"
     /\ Goto(a, "idle")
     /\ abandoned' = [abandoned EXCEPT ![a] = NoTurn]
     /\ UNCHANGED synced

EndAnswered(a) ==
  /\ EndTurn(a, Ok)
  /\ AfterEnd(a)
  /\ UNCHANGED <<utterance, grant, heard, faults>>

----------------------------------------------------------------------------
(* Faults                                                                  *)

RequestGone(a) == client[a] = "requesting" /\ Return(a) /\ UNCHANGED <<abandoned, synced>>

\* A POST fails before the server has its headers.  endTurn's callers swallow
\* the error, requestTurn returns allowed: false.
PostLost(a) ==
  /\ "loss" \in faults
  /\ conn[a] = Idle
  /\ UNCHANGED vars
  /\ RequestGone(a) \/ AfterEnd(a)
  /\ UNCHANGED <<utterance, grant, heard, faults>>

\* A POST breaks off between its headers and the end of its body.
PostCut(a) ==
  /\ "loss" \in faults
  /\ BodyFails(a, BadRequest)
  /\ RequestGone(a) \/ AfterEnd(a)
  /\ UNCHANGED <<utterance, grant, heard, faults>>

\* The process dies and starts again with an empty memory.
Crash(a) ==
  /\ "crash" \in faults
  /\ client[a] # "idle"
  /\ \/ conn[a] = Idle /\ UNCHANGED vars
     \/ BodyFails(a, BadRequest)
  /\ Goto(a, "idle")
  /\ synced' = [synced EXCEPT ![a] = <<>>]
  /\ abandoned' = [abandoned EXCEPT ![a] = NoTurn]
  /\ UNCHANGED <<utterance, grant, heard, faults>>

\* The agent that has the floor is about to learn it, or speaks.
HolderBusy ==
  \E a \in Agent :
    /\ currentSpeaker = a
    /\ \/ (client[a] = "speaking" \/ Ending(a)) /\ grant[a] = currentLease.turnId
       \/ /\ client[a] \in {"requesting", "polling"}
          /\ decisions[utterance[a]].turnId = currentLease.turnId

LeaseRunsOut ==
  /\ HolderBusy => "slowTurn" \in faults
  /\ LeaseEnds
  /\ UNCHANGED clientVars

----------------------------------------------------------------------------

Window(r) == FlushRequest(r) /\ UNCHANGED clientVars

AgentStep(a) ==
  \/ RequestReachesServer(a)
  \/ RequestAnswered(a)
  \/ Poll(a)
  \/ DecisionTimeout(a)
  \/ Spoken(a)
  \/ EndReachesServer(a)
  \/ EndAnswered(a)

Fault(a) == FallBack(a) \/ PostLost(a) \/ PostCut(a) \/ Crash(a)

MultiAgentNext ==
  \/ \E a \in Agent : AgentStep(a) \/ Fault(a) \/ \E r \in Request : Hear(a, r)
  \/ \E r \in Request : Window(r)
  \/ LeaseRunsOut

MultiAgentSpec == MultiAgentInit /\ [][MultiAgentNext]_allVars

\* Timers fire, fetches in progress return, a reply is spoken to its end, and
\* a lease that is nobody's business any more runs out.
Fairness ==
  /\ \A a \in Agent : WF_allVars(AgentStep(a))
  /\ \A r \in Request : WF_allVars(Window(r))
  /\ WF_allVars(LeaseRunsOut)

FairMultiAgentSpec == MultiAgentSpec /\ Fairness

----------------------------------------------------------------------------
(* Properties                                                              *)

\* An agent speaks only with the floor: under the very lease that is live at
\* the coordinator, although it acts on a decision it polled and the floor may
\* have moved on since; unless the lease ends under a slow turn, or a fallback's
\* second end-turn is still to come.
SpeakerHasTheFloor ==
  faults \cap {"slowTurn", "fallback"} = {} =>
    \A a \in Agent :
      client[a] = "speaking" => currentSpeaker = a /\ currentLease.turnId = grant[a]

\* "No overlapping speech" (docs/MULTI_AGENT_PHASE1.md:8).
NoOverlap == \A a, b \in Agent : client[a] = "speaking" /\ client[b] = "speaking" => a = b

\* A request the coordinator took up (pending: true) is decided and the client
\* learns it, without the client's own timeout.
AcceptedRequestIsDecided ==
  \A a \in Agent :
    client[a] = "polling" /\ "timeout" \notin faults ~> client[a] # "polling"

\* Whatever is lost, and whoever crashes or is too slow, the floor can be had
\* again: by end-turn or by the lease.
FloorComesBack == []<>(SpeakerNow = NoAgent)

\* An utterance that some agent heard is answered if nothing fails: whoever
\* else asks, and whenever its request is taken up, refused or denied, a first
\* turn is spoken to its end and gets into the shared dialogue.
UtteranceIsAnswered ==
  (faults = {} /\ \E a \in Agent, r \in Request : heard[a][r] > 0) ~> recentTurns # <<>>
============================================================================
