-------------------------- MODULE PersonaPlexClient --------------------------
(***************************************************************************)
(* Turns of PersonaPlexClient (src/adapters/personaplex/client.ts) on one  *)
(* server: runTurn opens a WebSocket, waits for the server's handshake     *)
(* byte, sends the user's audio, and hands the server's audio to its       *)
(* caller through an AsyncBufferQueue and its words through a promise.     *)
(* A turn timer, the poll for the handshake, the idle timer, the socket's  *)
(* close, error and message events and the caller's abort race to end it.  *)
(*                                                                         *)
(* Every event handler is one step.  The caller consumes at its own pace,  *)
(* as the loop of runTurnPersonaPlex does: frame after frame, until the    *)
(* queue ends, fails, or a barge-in makes it abort; then it awaits the     *)
(* words.  A frame of the server is its number; what the user said, the    *)
(* words and the codec are left out.                                       *)
(***************************************************************************)
EXTENDS Integers, Sequences, FiniteSets

CONSTANTS
  TurnId,       \* turns that are run, by one process or several tasks of it
  MaxFrames,    \* bound: audio frames of the server per turn
  Faults        \* "setup": no socket can be made; "decode"; "send"

ASSUME TurnAssumption == IsFiniteSet(TurnId)
ASSUME MaxFramesAssumption == MaxFrames \in Nat
ASSUME FaultsAssumption == Faults \subseteq {"setup", "decode", "send"}

VARIABLES
  inflight,          \* inflightByServerUrl of the server
  caller,            \* where the caller of runTurn is
  socket,            \* readyState of ws
  sender,            \* the open handler: "polling" for the handshake, then
                     \* "idle" with the idle timer set, "over" when that is cleared
  handshakeDone, sawAnyAudio, abortRequested,
  timer,             \* timeoutTimer is pending
  capacityReleased,
  ended,             \* what endOnce was first called with
  text,              \* textPromise
  queue, queueEnd,   \* AsyncBufferQueue
  frames,            \* frames the queue accepted
  delivered          \* what the caller got; its last frame may be in its hands

socketVars == <<socket, sender, handshakeDone, sawAnyAudio>>
outcomeVars == <<inflight, timer, capacityReleased, ended, text>>
queueVars == <<queue, queueEnd, caller, delivered>>
vars == <<socketVars, outcomeVars, queueVars, abortRequested, frames>>

Init ==
  /\ inflight = 0
  /\ caller = [t \in TurnId |-> "none"]
  /\ socket = [t \in TurnId |-> "none"]
  /\ sender = [t \in TurnId |-> "none"]
  /\ handshakeDone = [t \in TurnId |-> FALSE]
  /\ sawAnyAudio = [t \in TurnId |-> FALSE]
  /\ abortRequested = [t \in TurnId |-> FALSE]
  /\ timer = [t \in TurnId |-> FALSE]
  /\ capacityReleased = [t \in TurnId |-> FALSE]
  /\ ended = [t \in TurnId |-> "no"]
  /\ text = [t \in TurnId |-> "pending"]
  /\ queue = [t \in TurnId |-> <<>>]
  /\ queueEnd = [t \in TurnId |-> "no"]
  /\ frames = [t \in TurnId |-> 0]
  /\ delivered = [t \in TurnId |-> <<>>]

----------------------------------------------------------------------------
(* AsyncBufferQueue                                                        *)

\* Faulty variant: the frame stays in the queue when a waiter gets it.
PushTwice(t, frame) ==
  /\ queueEnd[t] = "no"
  /\ frames' = [frames EXCEPT ![t] = frame]
  /\ queue' = [queue EXCEPT ![t] = Append(@, frame)]
  /\ IF caller[t] = "waiting"
     THEN caller' = [caller EXCEPT ![t] = "holding"] /\ delivered' = [delivered EXCEPT ![t] = Append(@, frame)]
     ELSE UNCHANGED <<caller, delivered>>
  /\ UNCHANGED queueEnd

\* A caller that waits is handed the frame.
Push(t, frame) ==
  /\ queueEnd[t] = "no"
  /\ frames' = [frames EXCEPT ![t] = frame]
  /\ IF caller[t] = "waiting"
     THEN /\ caller' = [caller EXCEPT ![t] = "holding"]
          /\ delivered' = [delivered EXCEPT ![t] = Append(@, frame)]
          /\ UNCHANGED queue
     ELSE /\ queue' = [queue EXCEPT ![t] = Append(@, frame)]
          /\ UNCHANGED <<caller, delivered>>
  /\ UNCHANGED queueEnd

\* The first end counts, and wakes a caller that waits.
EndQueue(t, outcome) ==
  /\ IF queueEnd[t] # "no" THEN UNCHANGED <<queueEnd, caller>>
     ELSE /\ queueEnd' = [queueEnd EXCEPT ![t] = outcome]
          /\ caller' = [caller EXCEPT ![t] = IF @ = "waiting" THEN "pulling" ELSE @]
  /\ UNCHANGED <<queue, delivered>>

----------------------------------------------------------------------------
(* The end of a turn                                                       *)

\* Faulty variant: released at every end.
ReleaseAgain(t) ==
  /\ inflight' = IF inflight <= 1 THEN 0 ELSE inflight - 1
  /\ UNCHANGED capacityReleased

ReleaseCapacity(t) ==
  IF capacityReleased[t] THEN UNCHANGED <<inflight, capacityReleased>>
  ELSE /\ capacityReleased' = [capacityReleased EXCEPT ![t] = TRUE]
       /\ inflight' = IF inflight <= 1 THEN 0 ELSE inflight - 1

\* Faulty variant: a later end replaces the first.
EndAgain(t, outcome) == ended' = [ended EXCEPT ![t] = outcome]

EndOnce(t, outcome) ==
  ended' = [ended EXCEPT ![t] = IF @ = "no" THEN outcome ELSE @]

\* finish: a promise is settled once; the timers are cleared.
Finish(t, outcome) ==
  /\ timer' = [timer EXCEPT ![t] = FALSE]
  /\ text' = [text EXCEPT ![t] = IF @ = "pending" THEN outcome ELSE @]

\* What every handler that ends the turn calls, and the sender's state after it.
Settle(t, outcome, senderAfter) ==
  /\ EndQueue(t, outcome)
  /\ EndOnce(t, outcome)
  /\ Finish(t, outcome)
  /\ ReleaseCapacity(t)
  /\ sender' = [sender EXCEPT ![t] = senderAfter]

\* finish clears the idle timer; the poll for the handshake goes on.
SenderCleared(t) == IF sender[t] = "idle" THEN "over" ELSE sender[t]

\* ws.close(): the closing handshake begins, the close event comes later.
Closing(t) ==
  socket' = [socket EXCEPT ![t] = IF @ \in {"connecting", "open"} THEN "closing" ELSE @]

----------------------------------------------------------------------------
(* runTurn                                                                 *)

Busy(t) ==
  /\ caller[t] = "none"
  /\ inflight >= 1
  /\ caller' = [caller EXCEPT ![t] = "busy"]
  /\ UNCHANGED <<socketVars, outcomeVars, queue, queueEnd, delivered, abortRequested, frames>>

TakeCapacity(t) ==
  /\ caller[t] = "none"
  /\ inflight < 1
  /\ inflight' = inflight + 1

Start(t) ==
  /\ TakeCapacity(t)
  /\ caller' = [caller EXCEPT ![t] = "pulling"]
  /\ socket' = [socket EXCEPT ![t] = "connecting"]
  /\ timer' = [timer EXCEPT ![t] = TRUE]
  /\ UNCHANGED <<sender, handshakeDone, sawAnyAudio, capacityReleased, ended, text,
                 queue, queueEnd, delivered, abortRequested, frames>>

\* The WebSocket's or the encoder's constructor throws, with the capacity taken.
StartFails(t) ==
  /\ "setup" \in Faults
  /\ TakeCapacity(t)
  /\ caller' = [caller EXCEPT ![t] = "failed"]
  /\ UNCHANGED <<socketVars, timer, capacityReleased, ended, text,
                 queue, queueEnd, delivered, abortRequested, frames>>

----------------------------------------------------------------------------
(* Timers and the open handler                                             *)

\* Faulty variant: leaves it to the close event.
TurnTimerCloses(t) ==
  /\ timer[t]
  /\ timer' = [timer EXCEPT ![t] = FALSE]
  /\ Closing(t)
  /\ UNCHANGED <<sender, handshakeDone, sawAnyAudio, inflight, capacityReleased, ended, text, queueVars, abortRequested, frames>>

TurnTimer(t) ==
  /\ timer[t]
  /\ Closing(t)
  /\ Settle(t, "failed", SenderCleared(t))
  /\ UNCHANGED <<handshakeDone, sawAnyAudio, abortRequested, frames>>

\* The open event: the handler polls for the handshake.
Opened(t) ==
  /\ socket[t] = "connecting"
  /\ socket' = [socket EXCEPT ![t] = "open"]
  /\ sender' = [sender EXCEPT ![t] = "polling"]
  /\ UNCHANGED <<handshakeDone, sawAnyAudio, outcomeVars, queueVars, abortRequested, frames>>

\* The audio is sent (a socket that is closing drops it) and the idle timer set,
\* also when the turn has ended meanwhile.
SendAudio(t) ==
  /\ sender[t] = "polling" /\ handshakeDone[t]
  /\ sender' = [sender EXCEPT ![t] = "idle"]
  /\ UNCHANGED <<socket, handshakeDone, sawAnyAudio, outcomeVars, queueVars, abortRequested, frames>>

\* No handshake in time; or encoding or sending throws.
SenderFails(t) ==
  /\ sender[t] = "polling"
  /\ handshakeDone[t] => "send" \in Faults
  /\ Closing(t)
  /\ Settle(t, "failed", "over")
  /\ UNCHANGED <<handshakeDone, sawAnyAudio, abortRequested, frames>>

\* No audio for a while after the last frame sent, or since.
IdleTimer(t) ==
  /\ sender[t] = "idle"
  /\ sender' = [sender EXCEPT ![t] = "over"]
  /\ Closing(t)
  /\ UNCHANGED <<handshakeDone, sawAnyAudio, outcomeVars, queueVars, abortRequested, frames>>

----------------------------------------------------------------------------
(* Events of the socket; messages come until it is closed                  *)

Receives(t) == socket[t] \in {"open", "closing"}

Handshake(t) ==
  /\ Receives(t)
  /\ ~handshakeDone[t]
  /\ handshakeDone' = [handshakeDone EXCEPT ![t] = TRUE]
  /\ UNCHANGED <<socket, sender, sawAnyAudio, outcomeVars, queueVars, abortRequested, frames>>

\* An audio frame; an ended queue drops it.
Audio(t) ==
  /\ Receives(t) /\ handshakeDone[t]
  /\ frames[t] < MaxFrames
  /\ sawAnyAudio' = [sawAnyAudio EXCEPT ![t] = TRUE]
  /\ Push(t, frames[t] + 1) \/ (queueEnd[t] # "no" /\ UNCHANGED <<queueVars, frames>>)
  /\ UNCHANGED <<socket, sender, handshakeDone, outcomeVars, abortRequested>>

DecodeFails(t) ==
  /\ "decode" \in Faults
  /\ Receives(t) /\ handshakeDone[t]
  /\ Closing(t)
  /\ Settle(t, "failed", SenderCleared(t))
  /\ UNCHANGED <<handshakeDone, sawAnyAudio, abortRequested, frames>>

\* An error event; a close event follows it.
WsError(t) ==
  /\ socket[t] \in {"connecting", "open", "closing"}
  /\ Closing(t)
  /\ Settle(t, "failed", SenderCleared(t))
  /\ UNCHANGED <<handshakeDone, sawAnyAudio, abortRequested, frames>>

\* The close event: fine when the caller aborted or there was audio.
WsClose(t) ==
  /\ Receives(t)
  /\ socket' = [socket EXCEPT ![t] = "closed"]
  /\ LET fine == abortRequested[t] \/ (handshakeDone[t] /\ sawAnyAudio[t])
     IN  Settle(t, IF fine THEN "ok" ELSE "failed", SenderCleared(t))
  /\ UNCHANGED <<handshakeDone, sawAnyAudio, abortRequested, frames>>

----------------------------------------------------------------------------
(* The caller                                                              *)

\* iterate: the queue first, then its end.
Pull(t) ==
  /\ caller[t] = "pulling"
  /\ \/ /\ queue[t] # <<>>
        /\ caller' = [caller EXCEPT ![t] = "holding"]
        /\ delivered' = [delivered EXCEPT ![t] = Append(@, Head(queue[t]))]
        /\ queue' = [queue EXCEPT ![t] = Tail(@)]
     \/ /\ queue[t] = <<>>
        /\ caller' = [caller EXCEPT ![t] =
             CASE queueEnd[t] = "no" -> "waiting"
               [] queueEnd[t] = "ok" -> "words"
               [] queueEnd[t] = "failed" -> "failed"]
        /\ UNCHANGED <<queue, delivered>>
  /\ UNCHANGED <<socketVars, outcomeVars, queueEnd, abortRequested, frames>>

Play(t) ==
  /\ caller[t] = "holding"
  /\ caller' = [caller EXCEPT ![t] = "pulling"]
  /\ UNCHANGED <<socketVars, outcomeVars, queue, queueEnd, delivered, abortRequested, frames>>

\* A barge-in is noticed when there is a frame to play.
Abort(t) ==
  /\ caller[t] = "holding"
  /\ caller' = [caller EXCEPT ![t] = "words"]
  /\ abortRequested' = [abortRequested EXCEPT ![t] = TRUE]
  /\ Closing(t)
  /\ UNCHANGED <<sender, handshakeDone, sawAnyAudio, outcomeVars, queue, queueEnd, delivered, frames>>

\* The promise is settled, one way or the other.
WordsKnown(t) ==
  /\ caller[t] = "words"
  /\ text[t] # "pending"
  /\ caller' = [caller EXCEPT ![t] = "done"]
  /\ UNCHANGED <<socketVars, outcomeVars, queue, queueEnd, delivered, abortRequested, frames>>

Caller(t) == Pull(t) \/ Play(t) \/ WordsKnown(t)

----------------------------------------------------------------------------

RunTurn(t) == Start(t) \/ StartFails(t) \/ Busy(t)
Sender(t) == Opened(t) \/ SendAudio(t) \/ SenderFails(t) \/ IdleTimer(t)
SocketEvent(t) == Handshake(t) \/ Audio(t) \/ DecodeFails(t) \/ WsError(t) \/ WsClose(t)

Next ==
  \E t \in TurnId : RunTurn(t) \/ TurnTimer(t) \/ Sender(t) \/ SocketEvent(t) \/ Caller(t) \/ Abort(t)

Spec == Init /\ [][Next]_vars

\* The turn timer fires and the caller goes on; nothing is asked of the server,
\* of the socket or of the other timers.
Fairness == \A t \in TurnId : WF_vars(TurnTimer(t)) /\ WF_vars(Caller(t))

FairSpec == Spec /\ Fairness

----------------------------------------------------------------------------
(* Properties                                                              *)

InUse(t) == caller[t] \notin {"none", "done", "failed", "busy"}

\* The turn has its exchange with the server, or could not be set up and keeps
\* the capacity for good.
Running(t) == socket[t] # "none" /\ ended[t] = "no"
Leaked(t) == caller[t] = "failed" /\ socket[t] = "none"

\* "Acquire single-flight “capacity” per serverUrl" (client.ts:158): at most one
\* turn has an exchange with the server, and the counter is up exactly then,
\* whichever of the racing handlers ended the turns before; except that a turn
\* whose socket could not be set up (client.ts:195) keeps it up for good.
SingleFlight ==
  LET holders == {t \in TurnId : Running(t) \/ Leaked(t)}
  IN  Cardinality(holders) <= 1 /\ inflight = Cardinality(holders)

\* However the timers, the socket's events and the abort race, a turn ends once:
\* the log line, the promise and the queue tell the same story (client.ts:220-312).
OutcomesAgree ==
  \A t \in TurnId :
    /\ queueEnd[t] = ended[t]
    /\ text[t] = IF ended[t] = "no" THEN "pending" ELSE ended[t]

\* The caller gets the server's frames in order, none twice and none left out,
\* and, unless it aborts, all of them before it hears of the end or the failure.
FramesInOrder ==
  \A t \in TurnId :
    /\ \A i \in 1 .. Len(delivered[t]) : delivered[t][i] = i
    /\ (caller[t] \in {"words", "done", "failed"} /\ ~abortRequested[t]) =>
         Len(delivered[t]) = frames[t]

\* A turn gets back to its caller whatever the server does or leaves undone.
TurnEnds == \A t \in TurnId : InUse(t) ~> ~InUse(t)
============================================================================
