---------------------------- MODULE Coordinator ----------------------------
(***************************************************************************)
(* The turn coordinator (src/coordinator/index.ts): an HTTP server that    *)
(* grants the floor to one agent per user utterance, under a lease.        *)
(*                                                                         *)
(* Node runs one handler at a time, up to an await: a step is what happens *)
(* between two awaits.  A POST is therefore two steps, because its handler *)
(* calls checkLeaseExpiry before `await parseJsonBody` and does the rest   *)
(* after it; a GET is one.                                                 *)
(*                                                                         *)
(* Time is abstract: the lease's expiresAt passes at any moment (LeaseEnds)*)
(* and so does a collection window (FlushRequest).  As in the code an      *)
(* expired lease is only noticed by the next checkLeaseExpiry.             *)
(*                                                                         *)
(* A request id is the hash of an utterance, so Request is the set of the  *)
(* distinct utterances.  What an agent reports of a turn, its two texts,   *)
(* is identified by the agent and the turnId it reports with.              *)
(***************************************************************************)
EXTENDS Auction

CONSTANTS
  Request,         \* request ids
  Mentions,        \* agents whose display name the utterance contains
  Conn,            \* HTTP connections
  Bids,            \* bids that arrive, normalized; NoBid where a post has none
  UseAuction,      \* COORDINATOR_USE_AUCTION
  MaxRecentTurns,  \* MAX_RECENT_TURNS
  MaxBuckets       \* bound: buckets opened in a behaviour

ASSUME MentionsAssumption == Mentions \in [Request -> SUBSET Agent]
ASSUME BidsAssumption == Bids \subseteq Bid
ASSUME UseAuctionAssumption == UseAuction \in BOOLEAN
ASSUME MaxRecentTurnsAssumption == MaxRecentTurns \in Nat \ {0}
ASSUME MaxBucketsAssumption == MaxBuckets \in Nat

VARIABLES
  currentSpeaker,       \* agent that has the floor, or NoAgent
  currentLease,         \* its lease, or NoLease
  lastSpeakerId,        \* last agent to complete a turn
  lastRespondentIndex,  \* round-robin position, from 0; -1 before any
  discoveredOrder,      \* agents in the order found, when AgentOrder is unset
  recentTurns,          \* the shared dialogue
  pendingRequests,      \* entries of each open bucket, <<>> when there is none
  decisions,            \* decision of each request, or Undecided
  conn,                 \* each connection: Idle, or the post whose body is awaited
  issued,               \* turn ids generated; the newest one is `issued`
  opened                \* buckets opened, for the bound MaxBuckets

selectionVars == <<lastRespondentIndex, discoveredOrder>>
floorVars == <<currentSpeaker, currentLease>>
vars == <<currentSpeaker, currentLease, lastSpeakerId, lastRespondentIndex,
          discoveredOrder, recentTurns, pendingRequests, decisions, conn,
          issued, opened>>

----------------------------------------------------------------------------
(* Values                                                                  *)

NoTurn == 0
NoLease == [turnId |-> NoTurn, expired |-> FALSE]
Lease == [turnId : Nat, expired : BOOLEAN]

\* `allowed` holds the agents the code maps to true.
Undecided == [decided |-> FALSE, allowed |-> {}, turnId |-> NoTurn]
Decision == [decided : BOOLEAN, allowed : SUBSET Agent, turnId : Nat]

Turn == [agentId : Agent, turnId : Nat]

RequestTurnPost == [op : {"request-turn"}, agentId : Agent, requestId : Request, bid : Bids]
EndTurnPost == [op : {"end-turn"}, agentId : Agent, turnId : Nat]
Post == RequestTurnPost \cup EndTurnPost

\* Replies: the 400, and those of the three handlers.
BadRequest == [kind |-> "badRequest"]
Ok == [kind |-> "ok"]
Pending == [kind |-> "request", pending |-> TRUE]
Refused == [kind |-> "request", pending |-> FALSE]
DecisionReply == [kind : {"decision"}, decided : BOOLEAN, allowed : BOOLEAN, turnId : Nat]

\* A connection is idle or holds a post whose body is awaited.
Idle == [op |-> "none"]

Init ==
  /\ currentSpeaker = NoAgent
  /\ currentLease = NoLease
  /\ lastSpeakerId = NoAgent
  /\ lastRespondentIndex = -1
  /\ discoveredOrder = <<>>
  /\ recentTurns = <<>>
  /\ pendingRequests = [r \in Request |-> <<>>]
  /\ decisions = [r \in Request |-> Undecided]
  /\ conn = [c \in Conn |-> Idle]
  /\ issued = 0
  /\ opened = 0

----------------------------------------------------------------------------
(* checkLeaseExpiry: what the handlers that begin with it see.             *)

LeaseLapsed == currentSpeaker # NoAgent /\ currentLease # NoLease /\ currentLease.expired

\* Faulty variant: the floor outlives its lease.
SpeakerForever == currentSpeaker

SpeakerNow == IF LeaseLapsed THEN NoAgent ELSE currentSpeaker
LeaseNow == IF LeaseLapsed THEN NoLease ELSE currentLease

CheckLeaseExpiry ==
  /\ currentSpeaker' = SpeakerNow
  /\ currentLease' = LeaseNow

\* The clock passes expiresAt.
LeaseEnds ==
  /\ currentLease # NoLease
  /\ ~currentLease.expired
  /\ currentLease' = [currentLease EXCEPT !.expired = TRUE]
  /\ UNCHANGED <<currentSpeaker, lastSpeakerId, selectionVars, recentTurns,
                 pendingRequests, decisions, conn, issued, opened>>

----------------------------------------------------------------------------
(* runSelection: a step that picks w among the entries.                    *)

Order == IF AgentOrder # <<>> THEN AgentOrder ELSE discoveredOrder

\* Distances from lastRespondentIndex at which the order has a requester.
Hits(entries) ==
  {i \in 1 .. Len(Order) : Order[((lastRespondentIndex + i) % Len(Order)) + 1] \in Requesters(entries)}

SelectAddressed(entries, mentioned, w) ==
  /\ \E i \in First(Addressed(entries, mentioned)) : w = entries[i].agentId
  /\ UNCHANGED selectionVars

\* Faulty variant: does not remember the position.
SelectWithoutTurns(entries, mentioned, w) ==
  /\ Addressed(entries, mentioned) = {}
  /\ \E i \in First(Hits(entries)) : w = Order[((lastRespondentIndex + i) % Len(Order)) + 1]
  /\ UNCHANGED selectionVars

SelectRoundRobin(entries, mentioned, w) ==
  /\ Addressed(entries, mentioned) = {}
  /\ \E i \in First(Hits(entries)) :
       LET next == (lastRespondentIndex + i) % Len(Order)
       IN  /\ w = Order[next + 1]
           /\ lastRespondentIndex' = next
  /\ UNCHANGED discoveredOrder

\* No requester is in the order: each is therefore new to discoveredOrder.
SelectUnlisted(entries, mentioned, w) ==
  /\ Addressed(entries, mentioned) = {}
  /\ Hits(entries) = {}
  /\ discoveredOrder' = IF AgentOrder # <<>> THEN discoveredOrder
                        ELSE discoveredOrder \o [i \in 1 .. Len(entries) |-> entries[i].agentId]
  /\ lastRespondentIndex' = (lastRespondentIndex + 1) % Len(entries)
  /\ w = entries[lastRespondentIndex' + 1].agentId

RunSelection(entries, mentioned, w) ==
  \/ SelectAddressed(entries, mentioned, w)
  \/ SelectRoundRobin(entries, mentioned, w)
  \/ SelectUnlisted(entries, mentioned, w)

Choose(entries, mentioned, w) ==
  IF UseAuction /\ WithBids(entries) # {}
  THEN w \in Awarded(entries, mentioned) /\ UNCHANGED selectionVars
  ELSE RunSelection(entries, mentioned, w)

----------------------------------------------------------------------------
(* flushRequest: the collection timer of bucket r fires.                   *)

\* Faulty variant: the denial is not written down.
DenySilently(r) ==
  /\ SpeakerNow # NoAgent
  /\ CheckLeaseExpiry
  /\ UNCHANGED <<decisions, selectionVars, issued>>

DenyAll(r) ==
  /\ SpeakerNow # NoAgent
  /\ CheckLeaseExpiry
  /\ decisions' = [decisions EXCEPT ![r] = [decided |-> TRUE, allowed |-> {}, turnId |-> NoTurn]]
  /\ UNCHANGED <<selectionVars, issued>>

\* Faulty variant: everyone who asked is allowed.
GrantToAll(r, w) ==
  /\ SpeakerNow = NoAgent
  /\ Choose(pendingRequests[r], Mentions[r], w)
  /\ issued' = issued + 1
  /\ currentSpeaker' = w
  /\ currentLease' = [turnId |-> issued', expired |-> FALSE]
  /\ decisions' = [decisions EXCEPT ![r] =
       [decided |-> TRUE, allowed |-> Requesters(pendingRequests[r]), turnId |-> issued']]

\* Faulty variant: the floor is granted while somebody has it.
GrantAnyway(r, w) ==
  /\ Choose(pendingRequests[r], Mentions[r], w)
  /\ issued' = issued + 1
  /\ currentSpeaker' = w
  /\ currentLease' = [turnId |-> issued', expired |-> FALSE]
  /\ decisions' = [decisions EXCEPT ![r] =
       [decided |-> TRUE, allowed |-> {w} \cap Requesters(pendingRequests[r]), turnId |-> issued']]

Grant(r, w) ==
  /\ SpeakerNow = NoAgent
  /\ Choose(pendingRequests[r], Mentions[r], w)
  /\ issued' = issued + 1
  /\ currentSpeaker' = w
  /\ currentLease' = [turnId |-> issued', expired |-> FALSE]
  /\ decisions' = [decisions EXCEPT ![r] =
       [decided |-> TRUE, allowed |-> {w} \cap Requesters(pendingRequests[r]), turnId |-> issued']]

FlushRequest(r) ==
  /\ pendingRequests[r] # <<>>
  /\ pendingRequests' = [pendingRequests EXCEPT ![r] = <<>>]
  /\ DenyAll(r) \/ \E w \in Agent : Grant(r, w)
  /\ UNCHANGED <<lastSpeakerId, recentTurns, conn, opened>>

----------------------------------------------------------------------------
(* Handlers                                                                *)

\* Each takes the reply it sends as a parameter; who gets it is the client's
\* affair.

\* Faulty variant: the winner is not told its turnId.
ReplyWithoutTurnId(r, a) ==
  [kind |-> "decision", decided |-> decisions[r].decided,
   allowed |-> a \in decisions[r].allowed, turnId |-> NoTurn]

TurnDecisionReply(r, a) ==
  LET allowed == a \in decisions[r].allowed
  IN  [kind |-> "decision", decided |-> decisions[r].decided, allowed |-> allowed,
       turnId |-> IF allowed THEN decisions[r].turnId ELSE NoTurn]

GetTurnDecision(r, a, reply) ==
  /\ CheckLeaseExpiry
  /\ reply = TurnDecisionReply(r, a)
  /\ UNCHANGED <<lastSpeakerId, selectionVars, recentTurns, pendingRequests,
                 decisions, conn, issued, opened>>

\* Both POST handlers, up to `await parseJsonBody(req)`.
PostArrives(c, post) ==
  /\ conn[c] = Idle
  /\ CheckLeaseExpiry
  /\ conn' = [conn EXCEPT ![c] = post]
  /\ UNCHANGED <<lastSpeakerId, selectionVars, recentTurns, pendingRequests,
                 decisions, issued, opened>>

\* The client goes away before its body is complete: parseJsonBody rejects.
BodyFails(c, reply) ==
  /\ conn[c] # Idle
  /\ conn' = [conn EXCEPT ![c] = Idle]
  /\ reply = BadRequest
  /\ UNCHANGED <<floorVars, lastSpeakerId, selectionVars, recentTurns,
                 pendingRequests, decisions, issued, opened>>

\* The entries of a bucket after a post of agent a.
Joined(entries, a, bid) ==
  IF a \notin Requesters(entries) THEN Append(entries, [agentId |-> a, bid |-> bid])
  ELSE IF bid = NoBid THEN entries
  ELSE [i \in 1 .. Len(entries) |->
          IF entries[i].agentId = a THEN [entries[i] EXCEPT !.bid = bid] ELSE entries[i]]

\* Faulty variant: requests are taken while somebody has the floor.
RequestTurnUnchecked(c, reply) ==
  /\ conn[c].op = "request-turn"
  /\ conn' = [conn EXCEPT ![c] = Idle]
  /\ reply = Pending
  /\ LET post == conn[c]
     IN  pendingRequests' = [pendingRequests EXCEPT ![post.requestId] = Joined(@, post.agentId, post.bid)]
  /\ UNCHANGED <<floorVars, lastSpeakerId, selectionVars, recentTurns, decisions, issued, opened>>

\* /request-turn after the await.  The floor is looked at as it is now, an
\* expiry since the first half goes unnoticed.
RequestTurn(c, reply) ==
  /\ conn[c].op = "request-turn"
  /\ conn' = [conn EXCEPT ![c] = Idle]
  /\ LET post == conn[c]
         r == post.requestId
     IN  \/ /\ currentSpeaker # NoAgent
            /\ reply = Refused
            /\ UNCHANGED <<pendingRequests, opened>>
         \/ /\ currentSpeaker = NoAgent
            /\ reply = Pending
            /\ IF pendingRequests[r] = <<>>
               THEN opened < MaxBuckets /\ opened' = opened + 1
               ELSE UNCHANGED opened
            /\ pendingRequests' = [pendingRequests EXCEPT ![r] = Joined(@, post.agentId, post.bid)]
  /\ UNCHANGED <<floorVars, lastSpeakerId, selectionVars, recentTurns, decisions, issued>>

\* The newest MaxRecentTurns of a dialogue.
Trimmed(turns) ==
  IF Len(turns) <= MaxRecentTurns THEN turns
  ELSE SubSeq(turns, Len(turns) - MaxRecentTurns + 1, Len(turns))

\* Faulty variant: any turnId is accepted.
MatchesAnyLease(turnId) == TRUE

MatchesLease(turnId) == currentLease = NoLease \/ (turnId # NoTurn /\ turnId = currentLease.turnId)

\* Faulty variant: whoever knows the turnId can end the turn, and its turn is
\* recorded with its fields swapped.
EndTurnOfAnyone(c, reply) ==
  /\ conn[c].op = "end-turn"
  /\ conn' = [conn EXCEPT ![c] = Idle]
  /\ reply = Ok
  /\ LET post == conn[c]
     IN  IF MatchesLease(post.turnId) /\ currentSpeaker # NoAgent
         THEN /\ lastSpeakerId' = post.agentId
              /\ currentSpeaker' = NoAgent
              /\ currentLease' = NoLease
              /\ recentTurns' = Trimmed(Append(recentTurns,
                                   [agentId |-> post.turnId, turnId |-> post.agentId]))
         ELSE UNCHANGED <<floorVars, lastSpeakerId, recentTurns>>
  /\ UNCHANGED <<selectionVars, pendingRequests, decisions, issued, opened>>

\* /end-turn after the await.
EndTurn(c, reply) ==
  /\ conn[c].op = "end-turn"
  /\ conn' = [conn EXCEPT ![c] = Idle]
  /\ reply = Ok
  /\ LET post == conn[c]
     IN  IF MatchesLease(post.turnId) /\ currentSpeaker = post.agentId
         THEN /\ lastSpeakerId' = post.agentId
              /\ currentSpeaker' = NoAgent
              /\ currentLease' = NoLease
              /\ recentTurns' = Trimmed(Append(recentTurns,
                                   [agentId |-> post.agentId, turnId |-> post.turnId]))
         ELSE UNCHANGED <<floorVars, lastSpeakerId, recentTurns>>
  /\ UNCHANGED <<selectionVars, pendingRequests, decisions, issued, opened>>

----------------------------------------------------------------------------
(* The server under any clients that keep to the wire format: a client may *)
(* post for any utterance and end a turn with any id generated so far.     *)

AnyPost ==
  RequestTurnPost \cup [op : {"end-turn"}, agentId : Agent, turnId : NoTurn .. issued]

Next ==
  \/ LeaseEnds
  \/ \E r \in Request : FlushRequest(r)
  \/ \E r \in Request, a \in Agent : GetTurnDecision(r, a, TurnDecisionReply(r, a))
  \/ \E c \in Conn :
       \/ \E post \in AnyPost : PostArrives(c, post)
       \/ BodyFails(c, BadRequest)
       \/ \E reply \in {Pending, Refused} : RequestTurn(c, reply)
       \/ EndTurn(c, Ok)

Spec == Init /\ [][Next]_vars

----------------------------------------------------------------------------
(* Properties                                                              *)

\* Types of the server's state.
TypeOK ==
  /\ currentSpeaker \in Agent \cup {NoAgent}
  /\ currentLease \in Lease
  /\ lastSpeakerId \in Agent \cup {NoAgent}
  /\ lastRespondentIndex \in Int /\ lastRespondentIndex >= -1
  /\ discoveredOrder \in Seq(Agent)
  /\ recentTurns \in Seq(Turn)
  /\ pendingRequests \in [Request -> Seq(Entry)]
  /\ decisions \in [Request -> Decision]
  /\ conn \in [Conn -> {Idle} \cup Post]
  /\ issued \in Nat
  /\ opened \in Nat

\* Floor and lease are taken and given up together (index.ts:61-63 keeps them
\* in two variables): the branch of /end-turn that accepts any turnId "for
\* backward compat" while there is no lease never releases anything.
FloorHasLease ==
  /\ currentSpeaker = NoAgent <=> currentLease = NoLease
  /\ currentSpeaker # NoAgent => currentLease.turnId \in 1 .. issued

\* The agent that has the floor can learn it: the decision that announces its
\* grant stays readable, and will not be overwritten by a bucket of the same
\* utterance, for as long as the grant holds.  (A decision nobody can read
\* would block the room until the lease ends.)
LiveGrantIsAnnounced ==
  currentSpeaker # NoAgent =>
    \E r \in Request :
      /\ decisions[r].turnId = currentLease.turnId
      /\ decisions[r].allowed = {currentSpeaker}
      /\ pendingRequests[r] = <<>>

\* A turnId, the token that /end-turn checks, is announced to one agent for
\* one utterance, whatever buckets were flushed, denied and opened again.
OneWinnerPerGrant ==
  \A r \in Request :
    decisions[r].turnId # NoTurn =>
      /\ decisions[r].turnId <= issued
      /\ \E a \in Agent : decisions[r].allowed = {a}
      /\ \A q \in Request \ {r} : decisions[q].turnId # decisions[r].turnId

\* The dialogue the agents share has each finished turn once, in the order the
\* turns were granted, no matter how late or how often end-turn posts arrive;
\* the live grant comes after all of them.
DialogueInGrantOrder ==
  /\ Len(recentTurns) <= MaxRecentTurns
  /\ \A i \in 1 .. Len(recentTurns) : recentTurns[i].turnId <= issued
  /\ \A i, j \in 1 .. Len(recentTurns) : i < j => recentTurns[i].turnId < recentTurns[j].turnId
  /\ currentSpeaker # NoAgent =>
       \A i \in 1 .. Len(recentTurns) : recentTurns[i].turnId < currentLease.turnId

\* The server implements the lease lock of FloorLease: no grant while a lease
\* lasts, no release by a late or foreign end-turn, no dialogue but the
\* holder's own.
Floor == INSTANCE FloorLease WITH
  Nobody <- NoAgent,
  holder <- currentSpeaker,
  turn <- currentLease.turnId,
  lapsed <- currentLease.expired,
  dialogue <- recentTurns

ImplementsFloorLease == Floor!Spec

============================================================================
