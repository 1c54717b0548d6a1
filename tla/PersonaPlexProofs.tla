--------------------------- MODULE PersonaPlexProofs ---------------------------
(***************************************************************************)
(* A PersonaPlex turn ends once and gives its capacity back once, and its  *)
(* caller gets the server's frames in order, for any turns on one server,  *)
(* any number of frames and any faults.                                    *)
(***************************************************************************)
EXTENDS PersonaPlexClient, FiniteSetTheorems, SequenceTheorems, TLAPS

Callers == {"none", "busy", "pulling", "holding", "waiting", "words", "done", "failed"}

TypeOK ==
  /\ inflight \in Nat
  /\ caller \in [TurnId -> Callers]
  /\ socket \in [TurnId -> {"none", "connecting", "open", "closing", "closed"}]
  /\ sender \in [TurnId -> {"none", "polling", "idle", "over"}]
  /\ handshakeDone \in [TurnId -> BOOLEAN]
  /\ sawAnyAudio \in [TurnId -> BOOLEAN]
  /\ abortRequested \in [TurnId -> BOOLEAN]
  /\ timer \in [TurnId -> BOOLEAN]
  /\ capacityReleased \in [TurnId -> BOOLEAN]
  /\ ended \in [TurnId -> {"no", "ok", "failed"}]
  /\ text \in [TurnId -> {"pending", "ok", "failed"}]
  /\ queue \in [TurnId -> Seq(Nat)]
  /\ queueEnd \in [TurnId -> {"no", "ok", "failed"}]
  /\ frames \in [TurnId -> Nat]
  /\ delivered \in [TurnId -> Seq(Nat)]

\* The three records of the end agree, and the capacity goes back with them.
EndInv(t) ==
  /\ queueEnd[t] = ended[t]
  /\ text[t] = IF ended[t] = "no" THEN "pending" ELSE ended[t]
  /\ capacityReleased[t] <=> ended[t] # "no"

\* Nothing of a turn is there before its socket: no timer, sender, end or frame.
SocketInv(t) ==
  /\ socket[t] = "none" =>
       /\ ~timer[t] /\ sender[t] = "none" /\ ended[t] = "no"
       /\ caller[t] \in {"none", "busy", "failed"}
       /\ frames[t] = 0
  /\ caller[t] \in {"none", "busy"} => socket[t] = "none"

\* What the caller got and what the queue holds are together the n frames that
\* the queue accepted.
InOrder(got, rest, n) ==
  /\ Len(got) + Len(rest) = n
  /\ \A i \in 1 .. Len(got) : got[i] = i
  /\ \A i \in 1 .. Len(rest) : rest[i] = Len(got) + i

FrameInv(t) == InOrder(delivered[t], queue[t], frames[t])

\* Who waits finds nothing, and who goes on without an abort has emptied a queue
\* that has ended.
CallerInv(t) ==
  /\ caller[t] = "waiting" => queue[t] = <<>> /\ queueEnd[t] = "no"
  /\ (caller[t] \in {"words", "done", "failed"} /\ ~abortRequested[t] /\ socket[t] # "none") =>
       queue[t] = <<>> /\ queueEnd[t] # "no"

\* The turns that hold the server's capacity.
Holds(t) == Running(t) \/ Leaked(t)

CapacityInv ==
  \/ inflight = 0 /\ \A t \in TurnId : ~Holds(t)
  \/ inflight = 1 /\ \E u \in TurnId : \A t \in TurnId : Holds(t) <=> t = u

\* The inductive invariant: the three properties need one another, since an end
\* gives back the capacity of the turn that holds it and closes its queue.
PInv ==
  /\ TypeOK
  /\ \A t \in TurnId : EndInv(t) /\ SocketInv(t) /\ FrameInv(t) /\ CallerInv(t)
  /\ CapacityInv

----------------------------------------------------------------------------
(* The queue                                                               *)

\* The next frame goes to the end of the queue.
LEMMA QueuedInOrder ==
  ASSUME NEW got \in Seq(Nat), NEW rest \in Seq(Nat), NEW n \in Nat, InOrder(got, rest, n)
  PROVE  InOrder(got, Append(rest, n + 1), n + 1)
<1> DEFINE longer == Append(rest, n + 1)
<1>1. /\ Len(longer) = Len(rest) + 1
      /\ \A i \in 1 .. Len(rest) : longer[i] = rest[i]
      /\ longer[Len(rest) + 1] = n + 1
  BY AppendProperties
<1>2. Len(rest) \in Nat /\ Len(got) \in Nat
  OBVIOUS
<1> HIDE DEF longer
<1>3. ASSUME NEW i \in 1 .. Len(rest) + 1 PROVE longer[i] = Len(got) + i
  <2>1. CASE i \in 1 .. Len(rest)
    BY <1>1, <2>1 DEF InOrder
  <2>2. CASE i = Len(rest) + 1
    <3>1. PICK a \in Nat, b \in Nat : a = Len(got) /\ b = Len(rest)
      BY <1>2
    <3>2. a + b = n
      BY <3>1 DEF InOrder
    <3> QED
      BY <1>1, <2>2, <3>1, <3>2
  <2> QED
    BY <1>2, <2>1, <2>2
<1>4. Len(got) + Len(longer) = n + 1
  BY <1>1, <1>2 DEF InOrder
<1>5. InOrder(got, longer, n + 1)
  BY <1>1, <1>3, <1>4 DEF InOrder
<1> QED
  BY <1>5 DEF longer

\* The next frame goes into the hands of a caller whose queue is empty.
LEMMA HandedInOrder ==
  ASSUME NEW got \in Seq(Nat), NEW n \in Nat, InOrder(got, <<>>, n)
  PROVE  InOrder(Append(got, n + 1), <<>>, n + 1)
<1> DEFINE longer == Append(got, n + 1)
<1>1. Len(got) = n /\ Len(got) \in Nat
  BY DEF InOrder
<1>2. /\ Len(longer) = n + 1
      /\ \A i \in 1 .. n : longer[i] = got[i]
      /\ longer[n + 1] = n + 1
  BY <1>1, AppendProperties
<1> HIDE DEF longer
<1>3. ASSUME NEW i \in 1 .. n + 1 PROVE longer[i] = i
  <2>1. CASE i \in 1 .. n
    BY <1>1, <1>2, <2>1 DEF InOrder
  <2>2. CASE i = n + 1
    BY <1>2, <2>2
  <2> QED
    BY <2>1, <2>2
<1>4. InOrder(longer, <<>>, n + 1)
  BY <1>2, <1>3 DEF InOrder
<1> QED
  BY <1>4 DEF longer

\* The head of the queue goes to the caller.
LEMMA PulledInOrder ==
  ASSUME NEW got \in Seq(Nat), NEW rest \in Seq(Nat), NEW n \in Nat, InOrder(got, rest, n),
         rest # <<>>
  PROVE  InOrder(Append(got, Head(rest)), Tail(rest), n)
<1> DEFINE more == Append(got, Head(rest))
           less == Tail(rest)
<1>1. Len(got) \in Nat /\ Len(rest) \in Nat \ {0}
  BY EmptySeq
<1>2. Head(rest) = Len(got) + 1 /\ Head(rest) \in Nat
  BY <1>1, HeadTailProperties DEF InOrder
<1>3. /\ Len(more) = Len(got) + 1
      /\ \A i \in 1 .. Len(got) : more[i] = got[i]
      /\ more[Len(got) + 1] = Len(got) + 1
  BY <1>1, <1>2, AppendProperties
<1>4. Len(less) = Len(rest) - 1 /\ \A i \in 1 .. Len(less) : less[i] = rest[i + 1]
  BY <1>1, HeadTailProperties
<1> HIDE DEF more, less
<1>5. ASSUME NEW i \in 1 .. Len(got) + 1 PROVE more[i] = i
  <2>1. CASE i \in 1 .. Len(got)
    BY <1>3, <2>1 DEF InOrder
  <2>2. CASE i = Len(got) + 1
    BY <1>3, <2>2
  <2> QED
    BY <1>1, <2>1, <2>2
<1>6. ASSUME NEW i \in 1 .. Len(rest) - 1 PROVE less[i] = (Len(got) + 1) + i
  <2>1. i + 1 \in 1 .. Len(rest) /\ i \in 1 .. Len(less)
    BY <1>1, <1>4
  <2> QED
    BY <1>1, <1>4, <2>1 DEF InOrder
<1>7. Len(more) + Len(less) = n
  <2>1. PICK a \in Nat, b \in Nat : a = Len(got) /\ b = Len(rest)
    BY <1>1
  <2>2. a + b = n
    BY <2>1 DEF InOrder
  <2>3. Len(more) = a + 1
    BY <1>3, <2>1
  <2>4. Len(less) = b - 1
    BY <1>4, <2>1
  <2> QED
    BY <2>2, <2>3, <2>4
<1>8. InOrder(more, less, n)
  BY <1>3, <1>4, <1>5, <1>6, <1>7 DEF InOrder
<1> QED
  BY <1>8 DEF more, less

----------------------------------------------------------------------------
(* A step of one turn                                                      *)

\* Nothing of turn u changes.
Same(u) ==
  /\ caller'[u] = caller[u] /\ socket'[u] = socket[u] /\ sender'[u] = sender[u]
  /\ abortRequested'[u] = abortRequested[u] /\ timer'[u] = timer[u]
  /\ capacityReleased'[u] = capacityReleased[u] /\ ended'[u] = ended[u] /\ text'[u] = text[u]
  /\ queue'[u] = queue[u] /\ queueEnd'[u] = queueEnd[u]
  /\ frames'[u] = frames[u] /\ delivered'[u] = delivered[u]

\* Another turn keeps what is said of it.
LEMMA OthersKeep ==
  ASSUME NEW u \in TurnId, Same(u), EndInv(u), SocketInv(u), FrameInv(u), CallerInv(u)
  PROVE  EndInv(u)' /\ SocketInv(u)' /\ FrameInv(u)' /\ CallerInv(u)' /\ (Holds(u)' <=> Holds(u))
<1>1. EndInv(u)'
  BY DEF Same, EndInv
<1>2. SocketInv(u)'
  BY DEF Same, SocketInv
<1>3. FrameInv(u)'
  BY DEF Same, FrameInv
<1>4. CallerInv(u)'
  BY DEF Same, CallerInv
<1>5. Holds(u)' <=> Holds(u)
  BY DEF Same, Holds, Running, Leaked
<1> QED
  BY <1>1, <1>2, <1>3, <1>4, <1>5

\* The capacity stays where it is, is taken, or is given back.
LEMMA CapacityMoves ==
  ASSUME CapacityInv, NEW t \in TurnId,
         \A u \in TurnId \ {t} : Holds(u)' <=> Holds(u),
         \/ (Holds(t)' <=> Holds(t)) /\ inflight' = inflight
         \/ inflight = 0 /\ Holds(t)' /\ inflight' = 1
         \/ Holds(t) /\ ~Holds(t)' /\ inflight' = 0
  PROVE  CapacityInv'
<1> DEFINE H == {u \in TurnId : Holds(u)}
           G == {u \in TurnId : Holds(u)'}
<1>1. CapacityInv <=> \/ inflight = 0 /\ H = {}
                      \/ inflight = 1 /\ \E u \in TurnId : H = {u}
  BY DEF CapacityInv
<1>2. CapacityInv' <=> \/ inflight' = 0 /\ G = {}
                       \/ inflight' = 1 /\ \E u \in TurnId : G = {u}
  BY DEF CapacityInv
<1>3. CASE (Holds(t)' <=> Holds(t)) /\ inflight' = inflight
  <2>1. G = H
    BY <1>3
  <2> HIDE DEF G, H
  <2> QED
    BY <1>1, <1>2, <1>3, <2>1
<1>4. CASE inflight = 0 /\ Holds(t)' /\ inflight' = 1
  <2>1. H = {}
    BY <1>1, <1>4
  <2>2. G = {t}
    BY <1>4, <2>1
  <2> HIDE DEF G, H
  <2> QED
    BY <1>2, <1>4, <2>2
<1>5. CASE Holds(t) /\ ~Holds(t)' /\ inflight' = 0
  <2>1. H = {t}
    BY <1>1, <1>5
  <2>2. G = {}
    BY <1>5, <2>1
  <2> HIDE DEF G, H
  <2> QED
    BY <1>2, <1>5, <2>2
<1> QED
  BY <1>3, <1>4, <1>5

\* What has to be shown of a step of turn t.
LEMMA TurnSteps ==
  ASSUME PInv, NEW t \in TurnId, TypeOK',
         \A u \in TurnId \ {t} : Same(u),
         EndInv(t)', SocketInv(t)', FrameInv(t)', CallerInv(t)',
         \/ (Holds(t)' <=> Holds(t)) /\ inflight' = inflight
         \/ inflight = 0 /\ Holds(t)' /\ inflight' = 1
         \/ Holds(t) /\ ~Holds(t)' /\ inflight' = 0
  PROVE  PInv'
<1>1. \A u \in TurnId \ {t} :
         EndInv(u)' /\ SocketInv(u)' /\ FrameInv(u)' /\ CallerInv(u)' /\ (Holds(u)' <=> Holds(u))
  BY OthersKeep DEF PInv
<1>2. CapacityInv'
  BY <1>1, CapacityMoves DEF PInv
<1> QED
  BY <1>1, <1>2 DEF PInv

\* While nobody holds the capacity the counter is down, and up while someone does.
LEMMA CounterTells ==
  ASSUME PInv
  PROVE  /\ inflight \in {0, 1}
         /\ \A t \in TurnId : Holds(t) => inflight = 1
  BY DEF PInv, CapacityInv

----------------------------------------------------------------------------
(* The handlers that end a turn                                            *)

\* Whichever handler comes, Settle ends the turn and gives the capacity back if
\* nothing did before, and changes no record of an end that came before.
LEMMA SettleKeepsPInv ==
  ASSUME PInv, NEW t \in TurnId, socket[t] # "none",
         NEW outcome \in {"ok", "failed"}, NEW after \in {"none", "polling", "idle", "over"},
         Settle(t, outcome, after),
         socket' \in [TurnId -> {"none", "connecting", "open", "closing", "closed"}],
         \A u \in TurnId \ {t} : socket'[u] = socket[u],
         socket'[t] # "none",
         UNCHANGED <<handshakeDone, sawAnyAudio, abortRequested, frames>>
  PROVE  PInv'
<1> USE DEF Settle
<1>1. TypeOK'
  <2>1. inflight' \in Nat /\ capacityReleased' \in [TurnId -> BOOLEAN]
    <3>1. inflight' \in Nat
      BY CounterTells DEF ReleaseCapacity
    <3>2. capacityReleased' \in [TurnId -> BOOLEAN]
      BY DEF ReleaseCapacity, PInv, TypeOK
    <3> QED
      BY <3>1, <3>2
  <2>2. caller' \in [TurnId -> Callers] /\ queueEnd' \in [TurnId -> {"no", "ok", "failed"}]
    <3>1. (IF caller[t] = "waiting" THEN "pulling" ELSE caller[t]) \in Callers
      BY DEF PInv, TypeOK, Callers
    <3>2. caller' \in [TurnId -> Callers]
      BY <3>1 DEF EndQueue, PInv, TypeOK
    <3>3. queueEnd' \in [TurnId -> {"no", "ok", "failed"}]
      BY DEF EndQueue, PInv, TypeOK
    <3> QED
      BY <3>2, <3>3
  <2>3. ended' \in [TurnId -> {"no", "ok", "failed"}]
    BY DEF EndOnce, PInv, TypeOK
  <2>4. timer' \in [TurnId -> BOOLEAN] /\ text' \in [TurnId -> {"pending", "ok", "failed"}]
    BY DEF Finish, PInv, TypeOK
  <2>5. sender' \in [TurnId -> {"none", "polling", "idle", "over"}]
    BY DEF PInv, TypeOK
  <2>6. queue' = queue /\ delivered' = delivered
    BY DEF EndQueue
  <2> QED
    BY <2>1, <2>2, <2>3, <2>4, <2>5, <2>6 DEF PInv, TypeOK
<1>2. \A u \in TurnId \ {t} : Same(u)
  BY DEF EndQueue, EndOnce, Finish, ReleaseCapacity, PInv, TypeOK, Same
<1>3. CASE ended[t] = "no"
  <2>1. queueEnd[t] = "no" /\ text[t] = "pending" /\ ~capacityReleased[t] /\ Holds(t)
    BY <1>3 DEF PInv, EndInv, Holds, Running
  <2>2. queueEnd'[t] = outcome /\ ended'[t] = outcome /\ text'[t] = outcome
    BY <1>3, <2>1 DEF EndQueue, EndOnce, Finish, PInv, TypeOK
  <2>3. capacityReleased'[t] = TRUE /\ inflight' = 0
    BY <2>1, CounterTells DEF ReleaseCapacity, PInv, TypeOK
  <2>4. caller'[t] = IF caller[t] = "waiting" THEN "pulling" ELSE caller[t]
    BY <2>1 DEF EndQueue, PInv, TypeOK
  <2>5. EndInv(t)'
    BY <2>2, <2>3 DEF EndInv
  <2>6. SocketInv(t)'
    BY <2>4 DEF SocketInv, PInv
  <2>7. queue'[t] = queue[t] /\ delivered'[t] = delivered[t]
    BY DEF EndQueue
  <2>8. FrameInv(t)' /\ CallerInv(t)'
    <3>1. FrameInv(t)'
      BY <2>7 DEF FrameInv, PInv
    <3>2. CallerInv(t)'
      BY <2>1, <2>2, <2>4, <2>7 DEF CallerInv, PInv
    <3> QED
      BY <3>1, <3>2
  <2>9. ~Holds(t)'
    BY <2>2 DEF Holds, Running, Leaked
  <2> QED
    BY <1>1, <1>2, <2>1, <2>3, <2>5, <2>6, <2>8, <2>9, TurnSteps
<1>4. CASE ended[t] # "no"
  <2>1. queueEnd[t] # "no" /\ text[t] # "pending" /\ capacityReleased[t] = TRUE
    BY <1>4 DEF PInv, EndInv, TypeOK
  <2>2. queueEnd' = queueEnd /\ caller' = caller /\ queue' = queue /\ delivered' = delivered
    BY <2>1 DEF EndQueue
  <2>3. ended'[t] = ended[t] /\ text'[t] = text[t]
    BY <1>4, <2>1 DEF EndOnce, Finish, PInv, TypeOK
  <2>4. inflight' = inflight /\ capacityReleased' = capacityReleased
    BY <2>1 DEF ReleaseCapacity
  <2>5. EndInv(t)'
    BY <2>2, <2>3, <2>4 DEF EndInv, PInv
  <2>6. SocketInv(t)'
    BY <2>2 DEF SocketInv, PInv
  <2>7. FrameInv(t)' /\ CallerInv(t)'
    BY <2>2 DEF FrameInv, CallerInv, PInv
  <2>8. Holds(t)' <=> Holds(t)
    BY <1>4, <2>2, <2>3 DEF Holds, Running, Leaked
  <2> QED
    BY <1>1, <1>2, <2>4, <2>5, <2>6, <2>7, <2>8, TurnSteps
<1> QED
  BY <1>3, <1>4

\* What ws.close() does to the socket.
LEMMA ClosingSocket ==
  ASSUME TypeOK, NEW t \in TurnId, Closing(t)
  PROVE  /\ socket' \in [TurnId -> {"none", "connecting", "open", "closing", "closed"}]
         /\ \A u \in TurnId \ {t} : socket'[u] = socket[u]
         /\ socket'[t] = "none" <=> socket[t] = "none"
         /\ socket'[t] # "connecting"
  BY DEF TypeOK, Closing

\* The turn timer.
LEMMA TurnTimerKeepsPInv ==
  ASSUME PInv, NEW t \in TurnId, TurnTimer(t)
  PROVE  PInv'
<1>1. socket[t] # "none"
  BY DEF PInv, SocketInv, TurnTimer
<1>2. SenderCleared(t) \in {"none", "polling", "idle", "over"}
  BY DEF SenderCleared, PInv, TypeOK
<1> QED
  BY <1>1, <1>2, ClosingSocket, SettleKeepsPInv DEF TurnTimer, PInv

\* No handshake in time, or a failure to send.
LEMMA SenderFailsKeepsPInv ==
  ASSUME PInv, NEW t \in TurnId, SenderFails(t)
  PROVE  PInv'
<1>1. socket[t] # "none"
  BY DEF PInv, SocketInv, SenderFails
<1> QED
  BY <1>1, ClosingSocket, SettleKeepsPInv DEF SenderFails, PInv

\* A frame that cannot be decoded, an error event and the close event.
LEMMA SocketEndKeepsPInv ==
  ASSUME PInv, NEW t \in TurnId, DecodeFails(t) \/ WsError(t) \/ WsClose(t)
  PROVE  PInv'
<1>1. socket[t] # "none"
  BY DEF DecodeFails, WsError, WsClose, Receives
<1>2. SenderCleared(t) \in {"none", "polling", "idle", "over"}
  BY DEF SenderCleared, PInv, TypeOK
<1>3. CASE DecodeFails(t) \/ WsError(t)
  BY <1>1, <1>2, <1>3, ClosingSocket, SettleKeepsPInv DEF DecodeFails, WsError, PInv
<1>4. CASE WsClose(t)
  <2>1. PICK outcome \in {"ok", "failed"} : Settle(t, outcome, SenderCleared(t))
    BY <1>4 DEF WsClose
  <2>2. /\ socket' \in [TurnId -> {"none", "connecting", "open", "closing", "closed"}]
        /\ \A u \in TurnId \ {t} : socket'[u] = socket[u]
        /\ socket'[t] # "none"
    BY <1>4 DEF WsClose, PInv, TypeOK
  <2> QED
    BY <1>1, <1>2, <1>4, <2>1, <2>2, SettleKeepsPInv DEF WsClose
<1> QED
  BY <1>3, <1>4

----------------------------------------------------------------------------
(* The steps that end nothing                                              *)

\* runTurn: busy, started, or without a socket and with the capacity taken.
LEMMA RunTurnKeepsPInv ==
  ASSUME PInv, NEW t \in TurnId, RunTurn(t)
  PROVE  PInv'
<1>1. caller[t] = "none" /\ socket[t] = "none" /\ ended[t] = "no"
  BY DEF RunTurn, Busy, Start, StartFails, TakeCapacity, PInv, SocketInv
<1>2. inflight \in {0, 1}
  BY CounterTells
<1>3. CASE Busy(t)
  <2>1. TypeOK' /\ \A u \in TurnId \ {t} : Same(u)
    BY <1>3 DEF Busy, socketVars, outcomeVars, PInv, TypeOK, Callers, Same
  <2>2. EndInv(t)' /\ SocketInv(t)' /\ FrameInv(t)' /\ CallerInv(t)'
    BY <1>1, <1>3 DEF Busy, socketVars, outcomeVars, PInv, TypeOK, EndInv, SocketInv, FrameInv, CallerInv
  <2>3. (Holds(t)' <=> Holds(t)) /\ inflight' = inflight
    BY <1>1, <1>3 DEF Busy, socketVars, outcomeVars, PInv, TypeOK, Holds, Running, Leaked
  <2> QED
    BY <2>1, <2>2, <2>3, TurnSteps
<1>4. CASE Start(t)
  <2>1. TypeOK' /\ \A u \in TurnId \ {t} : Same(u)
    BY <1>4 DEF Start, TakeCapacity, PInv, TypeOK, Callers, Same
  <2>2. EndInv(t)' /\ SocketInv(t)' /\ FrameInv(t)' /\ CallerInv(t)'
    BY <1>1, <1>4 DEF Start, PInv, TypeOK, EndInv, SocketInv, FrameInv, CallerInv
  <2>3. inflight = 0 /\ inflight' = 1
    BY <1>2, <1>4 DEF Start, TakeCapacity
  <2>4. Holds(t)'
    BY <1>1, <1>4 DEF Start, PInv, TypeOK, Holds, Running
  <2> QED
    BY <2>1, <2>2, <2>3, <2>4, TurnSteps
<1>5. CASE StartFails(t)
  <2>1. TypeOK' /\ \A u \in TurnId \ {t} : Same(u)
    BY <1>5 DEF StartFails, TakeCapacity, socketVars, PInv, TypeOK, Callers, Same
  <2>2. EndInv(t)' /\ SocketInv(t)' /\ FrameInv(t)' /\ CallerInv(t)'
    BY <1>1, <1>5 DEF StartFails, socketVars, PInv, TypeOK, EndInv, SocketInv, FrameInv, CallerInv
  <2>3. inflight = 0 /\ inflight' = 1
    BY <1>2, <1>5 DEF StartFails, TakeCapacity
  <2>4. Holds(t)'
    BY <1>1, <1>5 DEF StartFails, socketVars, PInv, TypeOK, Holds, Leaked
  <2> QED
    BY <2>1, <2>2, <2>3, <2>4, TurnSteps
<1> QED
  BY <1>3, <1>4, <1>5 DEF RunTurn

\* The open event, the sending, the idle timer and the handshake touch only the
\* socket's side of a turn that has a socket.
LEMMA SocketStepKeepsPInv ==
  ASSUME PInv, NEW t \in TurnId, Opened(t) \/ SendAudio(t) \/ IdleTimer(t) \/ Handshake(t)
  PROVE  PInv'
<1>1. socket[t] # "none"
  BY DEF Opened, SendAudio, IdleTimer, Handshake, Receives, PInv, SocketInv
<1>2. UNCHANGED <<outcomeVars, queueVars, abortRequested, frames>>
  BY DEF Opened, SendAudio, IdleTimer, Handshake
<1>3. /\ socket' \in [TurnId -> {"none", "connecting", "open", "closing", "closed"}]
      /\ sender' \in [TurnId -> {"none", "polling", "idle", "over"}]
      /\ handshakeDone' \in [TurnId -> BOOLEAN] /\ sawAnyAudio' \in [TurnId -> BOOLEAN]
      /\ \A u \in TurnId \ {t} : socket'[u] = socket[u] /\ sender'[u] = sender[u]
      /\ socket'[t] # "none"
  BY <1>1, ClosingSocket DEF Opened, SendAudio, IdleTimer, Handshake, PInv, TypeOK
<1>4. TypeOK' /\ \A u \in TurnId \ {t} : Same(u)
  BY <1>2, <1>3 DEF outcomeVars, queueVars, PInv, TypeOK, Same
<1>5. EndInv(t)' /\ SocketInv(t)' /\ FrameInv(t)' /\ CallerInv(t)'
  BY <1>1, <1>2, <1>3 DEF outcomeVars, queueVars, PInv, EndInv, SocketInv, FrameInv, CallerInv
<1>6. (Holds(t)' <=> Holds(t)) /\ inflight' = inflight
  BY <1>1, <1>2, <1>3 DEF outcomeVars, queueVars, Holds, Running, Leaked
<1> QED
  BY <1>4, <1>5, <1>6, TurnSteps

\* A frame goes to the end of the queue, or into the hands of a caller that
\* waits at an empty one.
LEMMA AudioKeepsPInv ==
  ASSUME PInv, NEW t \in TurnId, Audio(t)
  PROVE  PInv'
<1>1. socket[t] # "none" /\ UNCHANGED <<socket, sender, handshakeDone, outcomeVars, abortRequested>>
  BY DEF Audio, Receives
<1>2. sawAnyAudio' \in [TurnId -> BOOLEAN]
  BY DEF Audio, PInv, TypeOK
<1>3. Holds(t)' <=> Holds(t)
  BY <1>1 DEF outcomeVars, Holds, Running, Leaked
<1>4. CASE UNCHANGED <<queueVars, frames>>
  <2>1. TypeOK' /\ \A u \in TurnId \ {t} : Same(u)
    BY <1>1, <1>2, <1>4 DEF outcomeVars, queueVars, PInv, TypeOK, Same
  <2>2. EndInv(t)' /\ SocketInv(t)' /\ FrameInv(t)' /\ CallerInv(t)'
    BY <1>1, <1>4 DEF outcomeVars, queueVars, PInv, EndInv, SocketInv, FrameInv, CallerInv
  <2> QED
    BY <1>1, <1>3, <2>1, <2>2, TurnSteps DEF outcomeVars
<1>5. CASE Push(t, frames[t] + 1)
  <2>1. /\ queue[t] \in Seq(Nat) /\ delivered[t] \in Seq(Nat) /\ frames[t] \in Nat
        /\ queueEnd[t] = "no" /\ queueEnd' = queueEnd
        /\ frames' \in [TurnId -> Nat] /\ frames'[t] = frames[t] + 1
        /\ \A u \in TurnId \ {t} : frames'[u] = frames[u]
    BY <1>5 DEF Push, PInv, TypeOK
  <2>2. CASE caller[t] = "waiting"
    <3>1. queue[t] = <<>>
      BY <2>2 DEF PInv, CallerInv
    <3>2. /\ caller' \in [TurnId -> Callers] /\ caller'[t] = "holding"
          /\ delivered' \in [TurnId -> Seq(Nat)] /\ delivered'[t] = Append(delivered[t], frames[t] + 1)
          /\ queue' = queue
          /\ \A u \in TurnId \ {t} : caller'[u] = caller[u] /\ delivered'[u] = delivered[u]
      <4>1. Append(delivered[t], frames[t] + 1) \in Seq(Nat)
        BY <2>1, AppendProperties
      <4> QED
        BY <1>5, <2>2, <4>1 DEF Push, PInv, TypeOK, Callers
    <3>3. TypeOK' /\ \A u \in TurnId \ {t} : Same(u)
      BY <1>1, <1>2, <2>1, <3>2 DEF outcomeVars, PInv, TypeOK, Same
    <3>4. EndInv(t)' /\ SocketInv(t)' /\ CallerInv(t)'
      BY <1>1, <2>1, <3>2 DEF outcomeVars, PInv, EndInv, SocketInv, CallerInv
    <3>5. FrameInv(t)'
      <4>1. InOrder(delivered[t], <<>>, frames[t])
        BY <3>1 DEF PInv, FrameInv
      <4>2. InOrder(Append(delivered[t], frames[t] + 1), <<>>, frames[t] + 1)
        BY <2>1, <4>1, HandedInOrder
      <4> QED
        BY <2>1, <3>1, <3>2, <4>2 DEF FrameInv
    <3> QED
      BY <1>1, <1>3, <3>3, <3>4, <3>5, TurnSteps DEF outcomeVars
  <2>3. CASE caller[t] # "waiting"
    <3>1. /\ queue' \in [TurnId -> Seq(Nat)] /\ queue'[t] = Append(queue[t], frames[t] + 1)
          /\ caller' = caller /\ delivered' = delivered
          /\ \A u \in TurnId \ {t} : queue'[u] = queue[u]
      <4>1. Append(queue[t], frames[t] + 1) \in Seq(Nat)
        BY <2>1, AppendProperties
      <4> QED
        BY <1>5, <2>3, <4>1 DEF Push, PInv, TypeOK
    <3>2. TypeOK' /\ \A u \in TurnId \ {t} : Same(u)
      BY <1>1, <1>2, <2>1, <3>1 DEF outcomeVars, PInv, TypeOK, Same
    <3>3. EndInv(t)' /\ SocketInv(t)'
      BY <1>1, <2>1, <3>1 DEF outcomeVars, PInv, EndInv, SocketInv
    <3>4. CallerInv(t)'
      BY <1>1, <2>1, <2>3, <3>1 DEF PInv, CallerInv
    <3>5. FrameInv(t)'
      <4>1. InOrder(delivered[t], queue[t], frames[t])
        BY DEF PInv, FrameInv
      <4>2. InOrder(delivered[t], Append(queue[t], frames[t] + 1), frames[t] + 1)
        BY <2>1, <4>1, QueuedInOrder
      <4> QED
        BY <2>1, <3>1, <4>2 DEF FrameInv
    <3> QED
      BY <1>1, <1>3, <3>2, <3>3, <3>4, <3>5, TurnSteps DEF outcomeVars
  <2> QED
    BY <2>2, <2>3
<1> QED
  BY <1>4, <1>5 DEF Audio

\* What has to be shown of a step of the caller: the turn's end and capacity do
\* not depend on where a caller is that has its socket.
LEMMA CallerSteps ==
  ASSUME PInv, NEW t \in TurnId,
         UNCHANGED <<sender, handshakeDone, sawAnyAudio, outcomeVars, queueEnd, frames>>,
         socket[t] # "none", socket'[t] # "none", caller'[t] \notin {"none", "busy"},
         TypeOK', \A u \in TurnId \ {t} : Same(u),
         FrameInv(t)', CallerInv(t)'
  PROVE  PInv'
<1>1. EndInv(t)' /\ SocketInv(t)'
  BY DEF outcomeVars, PInv, EndInv, SocketInv
<1>2. (Holds(t)' <=> Holds(t)) /\ inflight' = inflight
  BY DEF outcomeVars, Holds, Running, Leaked
<1> QED
  BY <1>1, <1>2, TurnSteps

\* The next frame, the wait for it, or the end of the queue.
LEMMA PullKeepsPInv ==
  ASSUME PInv, NEW t \in TurnId, Pull(t)
  PROVE  PInv'
<1>1. UNCHANGED <<socketVars, outcomeVars, queueEnd, abortRequested, frames>>
  BY DEF Pull
<1>2. socket[t] # "none" /\ socket'[t] # "none" /\ caller[t] = "pulling"
  BY DEF Pull, PInv, SocketInv, socketVars
<1>3. queue[t] \in Seq(Nat) /\ delivered[t] \in Seq(Nat) /\ frames[t] \in Nat
  BY DEF PInv, TypeOK
<1>4. InOrder(delivered[t], queue[t], frames[t])
  BY DEF PInv, FrameInv
<1>5. CASE queue[t] # <<>>
  <2>1. Head(queue[t]) \in Nat /\ Tail(queue[t]) \in Seq(Nat)
    BY <1>3, <1>5, HeadTailProperties
  <2>2. Append(delivered[t], Head(queue[t])) \in Seq(Nat)
    BY <1>3, <2>1, AppendProperties
  <2>3. /\ caller' = [caller EXCEPT ![t] = "holding"]
        /\ delivered' = [delivered EXCEPT ![t] = Append(delivered[t], Head(queue[t]))]
        /\ queue' = [queue EXCEPT ![t] = Tail(queue[t])]
    BY <1>5 DEF Pull
  <2>4. /\ caller' \in [TurnId -> Callers] /\ caller'[t] = "holding"
        /\ delivered' \in [TurnId -> Seq(Nat)] /\ delivered'[t] = Append(delivered[t], Head(queue[t]))
        /\ queue' \in [TurnId -> Seq(Nat)] /\ queue'[t] = Tail(queue[t])
        /\ \A u \in TurnId \ {t} : caller'[u] = caller[u] /\ delivered'[u] = delivered[u] /\ queue'[u] = queue[u]
    BY <2>1, <2>2, <2>3 DEF PInv, TypeOK, Callers
  <2>5. TypeOK' /\ \A u \in TurnId \ {t} : Same(u)
    BY <1>1, <2>4 DEF socketVars, outcomeVars, PInv, TypeOK, Same
  <2>6. FrameInv(t)'
    BY <1>1, <1>3, <1>4, <1>5, <2>4, PulledInOrder DEF FrameInv
  <2>7. CallerInv(t)'
    BY <2>4 DEF CallerInv
  <2> QED
    BY <1>1, <1>2, <2>4, <2>5, <2>6, <2>7, CallerSteps DEF socketVars
<1>6. CASE queue[t] = <<>>
  <2>1. queueEnd[t] \in {"no", "ok", "failed"}
    BY DEF PInv, TypeOK
  <2>2. PICK to \in Callers :
          /\ caller' = [caller EXCEPT ![t] = to]
          /\ \/ to = "waiting" /\ queueEnd[t] = "no"
             \/ to \in {"words", "failed"} /\ queueEnd[t] # "no"
    <3>1. CASE queueEnd[t] = "no"
      BY <1>6, <3>1 DEF Pull, Callers
    <3>2. CASE queueEnd[t] = "ok"
      BY <1>6, <3>2 DEF Pull, Callers
    <3>3. CASE queueEnd[t] = "failed"
      BY <1>6, <3>3 DEF Pull, Callers
    <3> QED
      BY <2>1, <3>1, <3>2, <3>3
  <2>3. /\ caller' \in [TurnId -> Callers] /\ caller'[t] = to
        /\ \A u \in TurnId \ {t} : caller'[u] = caller[u]
        /\ delivered' = delivered /\ queue' = queue
    BY <1>6, <2>2 DEF Pull, PInv, TypeOK
  <2>4. TypeOK' /\ \A u \in TurnId \ {t} : Same(u)
    BY <1>1, <2>3 DEF socketVars, outcomeVars, PInv, TypeOK, Same
  <2>5. FrameInv(t)' /\ CallerInv(t)'
    BY <1>1, <1>4, <1>6, <2>2, <2>3 DEF FrameInv, CallerInv
  <2> QED
    BY <1>1, <1>2, <2>2, <2>3, <2>4, <2>5, CallerSteps DEF socketVars
<1> QED
  BY <1>5, <1>6

\* A frame is played; the words are known; a barge-in is noticed.
LEMMA CallerKeepsPInv ==
  ASSUME PInv, NEW t \in TurnId, Play(t) \/ WordsKnown(t) \/ Abort(t)
  PROVE  PInv'
<1>1. UNCHANGED <<sender, handshakeDone, sawAnyAudio, outcomeVars, queue, queueEnd, delivered, frames>>
  BY DEF Play, WordsKnown, Abort, socketVars
<1>2. socket[t] # "none"
  BY DEF Play, WordsKnown, Abort, PInv, SocketInv
<1>3. /\ socket' \in [TurnId -> {"none", "connecting", "open", "closing", "closed"}]
      /\ \A u \in TurnId \ {t} : socket'[u] = socket[u]
      /\ socket'[t] # "none"
  BY <1>2, ClosingSocket DEF Play, WordsKnown, Abort, socketVars, PInv, TypeOK
<1>4. /\ caller' \in [TurnId -> Callers]
      /\ \A u \in TurnId \ {t} : caller'[u] = caller[u]
      /\ caller'[t] \in {"pulling", "words", "done"}
  BY DEF Play, WordsKnown, Abort, PInv, TypeOK, Callers
<1>5. /\ abortRequested' \in [TurnId -> BOOLEAN]
      /\ \A u \in TurnId \ {t} : abortRequested'[u] = abortRequested[u]
  BY DEF Play, WordsKnown, Abort, PInv, TypeOK
<1>6. TypeOK' /\ \A u \in TurnId \ {t} : Same(u)
  BY <1>1, <1>3, <1>4, <1>5 DEF outcomeVars, PInv, TypeOK, Same
<1>7. CallerInv(t)'
  <2>1. CASE Play(t)
    BY <2>1, <1>4 DEF Play, PInv, TypeOK, CallerInv
  <2>2. CASE WordsKnown(t)
    BY <2>2, <1>1, <1>2, <1>4 DEF WordsKnown, PInv, TypeOK, CallerInv
  <2>3. CASE Abort(t)
    BY <2>3, <1>4 DEF Abort, PInv, TypeOK, CallerInv
  <2> QED
    BY <2>1, <2>2, <2>3
<1>8. FrameInv(t)'
  BY <1>1 DEF PInv, FrameInv
<1> QED
  BY <1>1, <1>2, <1>3, <1>4, <1>6, <1>7, <1>8, CallerSteps

----------------------------------------------------------------------------
(* The theorems                                                            *)

LEMMA InitPInv == Init => PInv
<1> SUFFICES ASSUME Init PROVE PInv
  OBVIOUS
<1>1. TypeOK
  BY DEF Init, TypeOK, Callers
<1>2. \A t \in TurnId : EndInv(t) /\ SocketInv(t) /\ FrameInv(t) /\ CallerInv(t)
  BY DEF Init, EndInv, SocketInv, FrameInv, InOrder, CallerInv
<1>3. CapacityInv
  BY DEF Init, CapacityInv, Holds, Running, Leaked
<1> QED
  BY <1>1, <1>2, <1>3 DEF PInv

LEMMA StepKeepsPInv == PInv /\ [Next]_vars => PInv'
<1> SUFFICES ASSUME PInv, [Next]_vars PROVE PInv'
  OBVIOUS
<1>1. ASSUME NEW t \in TurnId, RunTurn(t) PROVE PInv'
  BY <1>1, RunTurnKeepsPInv
<1>2. ASSUME NEW t \in TurnId, TurnTimer(t) PROVE PInv'
  BY <1>2, TurnTimerKeepsPInv
<1>3. ASSUME NEW t \in TurnId, Sender(t) PROVE PInv'
  BY <1>3, SenderFailsKeepsPInv, SocketStepKeepsPInv DEF Sender
<1>4. ASSUME NEW t \in TurnId, SocketEvent(t) PROVE PInv'
  BY <1>4, SocketStepKeepsPInv, AudioKeepsPInv, SocketEndKeepsPInv DEF SocketEvent
<1>5. ASSUME NEW t \in TurnId, Caller(t) \/ Abort(t) PROVE PInv'
  BY <1>5, PullKeepsPInv, CallerKeepsPInv DEF Caller
<1>6. CASE UNCHANGED vars
  <2>1. TypeOK'
    BY <1>6 DEF vars, socketVars, outcomeVars, queueVars, PInv, TypeOK
  <2>2. \A t \in TurnId : Same(t)
    BY <1>6 DEF vars, socketVars, outcomeVars, queueVars, Same
  <2>3. \A t \in TurnId : EndInv(t)' /\ SocketInv(t)' /\ FrameInv(t)' /\ CallerInv(t)' /\ (Holds(t)' <=> Holds(t))
    BY <2>2, OthersKeep DEF PInv
  <2>4. inflight' = inflight
    BY <1>6 DEF vars, outcomeVars
  <2>5. CapacityInv'
    BY <2>3, <2>4 DEF PInv, CapacityInv
  <2> QED
    BY <2>1, <2>3, <2>5 DEF PInv
<1> QED
  BY <1>1, <1>2, <1>3, <1>4, <1>5, <1>6 DEF Next

\* At most one turn on a server has an exchange with it, and the counter that
\* runTurn takes and releaseCapacity gives back is up exactly then, or since a
\* turn failed before it had a socket: nobody gives its capacity back
\* (client.ts:195), and no turn runs after it.
THEOREM CapacitySafety == Spec => []SingleFlight
<1>1. PInv => SingleFlight
  <2> SUFFICES ASSUME PInv PROVE SingleFlight
    OBVIOUS
  <2> DEFINE holders == {t \in TurnId : Running(t) \/ Leaked(t)}
  <2>1. CASE inflight = 0 /\ \A t \in TurnId : ~Holds(t)
    <3>1. holders = {}
      BY <2>1 DEF Holds
    <3> QED
      BY <2>1, <3>1, FS_EmptySet DEF SingleFlight
  <2>2. CASE inflight = 1 /\ \E u \in TurnId : \A t \in TurnId : Holds(t) <=> t = u
    <3>1. PICK u \in TurnId : \A t \in TurnId : Holds(t) <=> t = u
      BY <2>2
    <3>2. holders = {u}
      BY <3>1 DEF Holds
    <3> QED
      BY <2>2, <3>2, FS_Singleton DEF SingleFlight
  <2> QED
    BY <2>1, <2>2 DEF PInv, CapacityInv
<1> QED
  BY <1>1, InitPInv, StepKeepsPInv, PTL DEF Spec

\* Whichever timer, event or error ends a turn first, the log line, the promise
\* of the words and the queue end the same way (endOnce, finish, end, fail).
THEOREM OutcomeSafety == Spec => []OutcomesAgree
<1>1. PInv => OutcomesAgree
  BY DEF PInv, EndInv, OutcomesAgree
<1> QED
  BY <1>1, InitPInv, StepKeepsPInv, PTL DEF Spec

\* The caller gets the frames in order, none twice, and all that the queue
\* accepted before it hears of the end, unless it aborts (AsyncBufferQueue).
THEOREM FrameSafety == Spec => []FramesInOrder
<1>1. PInv => FramesInOrder
  <2> SUFFICES ASSUME PInv, NEW t \in TurnId
               PROVE  /\ \A i \in 1 .. Len(delivered[t]) : delivered[t][i] = i
                      /\ (caller[t] \in {"words", "done", "failed"} /\ ~abortRequested[t]) =>
                           Len(delivered[t]) = frames[t]
    BY DEF FramesInOrder
  <2>1. InOrder(delivered[t], queue[t], frames[t]) /\ SocketInv(t) /\ CallerInv(t)
    BY DEF PInv, FrameInv
  <2>2. delivered[t] \in Seq(Nat) /\ queue[t] \in Seq(Nat)
    BY DEF PInv, TypeOK
  <2>3. ASSUME caller[t] \in {"words", "done", "failed"}, ~abortRequested[t]
        PROVE  Len(delivered[t]) = frames[t]
    <3>1. PICK a \in Nat, b \in Nat : a = Len(delivered[t]) /\ b = Len(queue[t])
      BY <2>2
    <3>2. a + b = frames[t]
      BY <2>1, <3>1 DEF InOrder
    <3>3. frames[t] = 0 \/ b = 0
      BY <2>1, <2>3, <3>1 DEF SocketInv, CallerInv
    <3>4. frames[t] \in Nat
      BY DEF PInv, TypeOK
    <3>5. a = frames[t]
      BY <3>2, <3>3, <3>4
    <3> QED
      BY <3>1, <3>5
  <2> QED
    BY <2>1, <2>3 DEF InOrder
<1> QED
  BY <1>1, InitPInv, StepKeepsPInv, PTL DEF Spec
================================================================================
