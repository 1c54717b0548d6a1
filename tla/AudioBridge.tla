----------------------------- MODULE AudioBridge -----------------------------
(***************************************************************************)
(* The bot's way into the room: the transmit side of                       *)
(* room/jitsi-browser-bot.ts and of bot-page/bot.js.                       *)
(*                                                                         *)
(* pushAudio cuts speech into frames, a timer sends one per tick over the  *)
(* bridge's WebSocket, and the page keeps them in a jitter buffer that its *)
(* audio callback reads.  Audio is counted in units, numbered in the order *)
(* they are pushed; a frame is FrameUnits of them.  The page loads, is     *)
(* reloaded or crashes, its socket breaks, start() comes up next to it and *)
(* leave() takes it down.  Receiving is left out.                          *)
(***************************************************************************)
EXTENDS Integers, SequencesExt

CONSTANTS
  FrameUnits,      \* BRIDGE_FRAME_BYTES
  MaxTxBuffer,     \* MAX_TX_BUFFER_BYTES
  DropThreshold,   \* JITTER_BUFFER_DROP_THRESHOLD_MS
  CallbackUnits,   \* bufferSize of the page's ScriptProcessor
  Ports,           \* BRIDGE_PORT_RETRY_COUNT
  ChunkSizes,      \* sizes of pushes
  MaxPushed,       \* bound on the units pushed
  MaxConn          \* bound on the page loads

Conn == 1 .. MaxConn
NoConn == 0

ASSUME BridgeAssumption ==
  /\ FrameUnits \in Nat \ {0}
  /\ CallbackUnits \in Nat \ {0}
  /\ MaxTxBuffer \in Nat /\ MaxTxBuffer >= FrameUnits
  /\ DropThreshold \in Nat /\ DropThreshold >= FrameUnits
  /\ Ports \in Nat \ {0}
  /\ ChunkSizes \subseteq Nat \ {0}
  /\ \E n \in ChunkSizes : \A m \in ChunkSizes : m <= n

VARIABLES
  pushed,          \* history: number of the newest unit
  txBuffer,        \* units that do not fill a frame yet
  txQueue,         \* frames to send
  ws,              \* this.ws
  txTimer,         \* txInterval is running
  closed,          \* leave() was called
  start,           \* start() is "binding", "launching", "loading", "waiting",
                   \* and then "started" or "failed"
  port,            \* attempts to bind
  leaving,         \* leave() is "no", at the "page" or the "server", or has "left"
  conn,            \* Conn -> server side of a page's socket: "none", "open",
                   \* "ending" (no longer open, its close event is due), "closed"
  page,            \* the page that is loaded, by its connection
  wire,            \* frames on their way to the page
  jitter,          \* jitterBuffer
  readOffset,      \* jitterReadOffset
  samples,         \* jitterBufferSamples
  lastPlayed       \* history: the newest unit that went into the room

nodeVars == <<pushed, txBuffer, txQueue>>
startVars == <<start, port>>
pageVars == <<page, wire, jitter, readOffset, samples, lastPlayed>>
vars == <<nodeVars, ws, txTimer, closed, startVars, leaving, conn, pageVars>>

Unit == 1 .. MaxPushed

Init ==
  /\ pushed = 0
  /\ txBuffer = <<>>
  /\ txQueue = <<>>
  /\ ws = NoConn
  /\ txTimer = FALSE
  /\ closed = FALSE
  /\ start = "binding"
  /\ port = 1
  /\ leaving = "no"
  /\ conn = [c \in Conn |-> "none"]
  /\ page = NoConn
  /\ wire = <<>>
  /\ jitter = <<>>
  /\ readOffset = 0
  /\ samples = 0
  /\ lastPlayed = 0

\* A start() that fails, and the end of leave(), end the process.
Running == start # "failed" /\ leaving # "left"

----------------------------------------------------------------------------
(* Cutting speech into frames *)

FrameCount(b) == Len(b) \div FrameUnits

\* chunk48k20ms
Frames(b) ==
  [i \in 1 .. FrameCount(b) |-> SubSeq(b, (i - 1) * FrameUnits + 1, i * FrameUnits)]

\* What flushTxFrames leaves in the buffer.
Remainder(b) == SubSeq(b, FrameCount(b) * FrameUnits + 1, Len(b))

\* Faulty variant: the newest goes.
CappedAtEnd(b) == IF Len(b) > MaxTxBuffer THEN SubSeq(b, 1, MaxTxBuffer) ELSE b

\* The oldest goes when the buffer passes MAX_TX_BUFFER_BYTES.
Capped(b) == IF Len(b) > MaxTxBuffer THEN SubSeq(b, Len(b) - MaxTxBuffer + 1, Len(b)) ELSE b

\* pushAudio
PushAudio(n) ==
  LET chunk == [i \in 1 .. n |-> pushed + i]
      b == Capped(txBuffer \o chunk)
  IN  /\ Running
      /\ ~closed
      /\ pushed + n <= MaxPushed
      /\ pushed' = pushed + n
      /\ txBuffer' = Remainder(b)
      /\ txQueue' = txQueue \o Frames(b)
      /\ UNCHANGED <<ws, txTimer, closed, startVars, leaving, conn, pageVars>>

----------------------------------------------------------------------------
(* start(): bind the bridge, launch the browser, load the page, wait for it. *)

\* listen() may find any port in use; the last attempt rethrows.
BindPort ==
  /\ start = "binding"
  /\ \/ start' = "launching" /\ port' = port
     \/ port < Ports /\ start' = start /\ port' = port + 1
     \/ start' = "failed" /\ port' = port
  /\ UNCHANGED <<nodeVars, ws, txTimer, closed, leaving, conn, pageVars>>

LaunchBrowser ==
  /\ start = "launching"
  /\ start' \in {"loading", "failed"}
  /\ UNCHANGED <<nodeVars, ws, txTimer, closed, port, leaving, conn, pageVars>>

\* page.goto returns or times out; the page's script may have connected before.
PageLoaded ==
  /\ start = "loading"
  /\ start' \in {"waiting", "failed"}
  /\ UNCHANGED <<nodeVars, ws, txTimer, closed, port, leaving, conn, pageVars>>

\* bridgeConnectedPromise: resolved by the first connection, whenever it came.
BridgeConnected == \E c \in Conn : conn[c] # "none"

\* The race of bridgeConnectedPromise with the timeout.
WaitForBridge ==
  /\ start = "waiting"
  /\ start' = IF BridgeConnected THEN "started" ELSE "failed"
  /\ UNCHANGED <<nodeVars, ws, txTimer, closed, port, leaving, conn, pageVars>>

----------------------------------------------------------------------------
(* The bridge's sockets *)

\* A page begins with nothing in its buffers.
NewPage(c) ==
  /\ page' = c
  /\ wire' = <<>>
  /\ jitter' = <<>>
  /\ readOffset' = 0
  /\ samples' = 0
  /\ UNCHANGED lastPlayed

\* A page loads, for the first time or again, and the server gets its
\* connection: this.ws is replaced, whatever it was, and so is the timer.
Connection(c) ==
  /\ Running
  /\ start \in {"loading", "waiting", "started"}
  /\ leaving \in {"no", "page"}
  /\ conn[c] = "none" /\ \A d \in 1 .. c - 1 : conn[d] # "none"
  /\ conn' = [conn EXCEPT ![c] = "open"]
  /\ ws' = c
  /\ txTimer' = TRUE
  /\ txQueue' = IF closed THEN txQueue ELSE txQueue \o Frames(txBuffer)
  /\ txBuffer' = IF closed THEN txBuffer ELSE Remainder(txBuffer)
  /\ NewPage(c)
  /\ UNCHANGED <<pushed, closed, startVars, leaving>>

\* The page crashes or is closed.
PageGone ==
  /\ page # NoConn
  /\ NewPage(NoConn)
  /\ UNCHANGED <<nodeVars, ws, txTimer, closed, startVars, leaving, conn>>

\* The server learns that a socket has ended: its page has gone, or the
\* connection broke under a page that plays on what it has.
SocketEnds(c) ==
  /\ Running
  /\ conn[c] = "open"
  /\ conn' = [conn EXCEPT ![c] = "ending"]
  /\ UNCHANGED <<nodeVars, ws, txTimer, closed, startVars, leaving, pageVars>>

\* ws.on("close"): this.ws becomes null also when it is a newer socket.
CloseEvent(c) ==
  /\ Running
  /\ conn[c] = "ending"
  /\ conn' = [conn EXCEPT ![c] = "closed"]
  /\ ws' = NoConn
  /\ UNCHANGED <<nodeVars, txTimer, closed, startVars, leaving, pageVars>>

\* Faulty variant: a frame that goes to a page that has gone is queued again.
QueueWithLost == IF page = ws THEN Tail(txQueue) ELSE Append(Tail(txQueue), Head(txQueue))

QueueAfterSend == Tail(txQueue)

\* The paced sender; a tick that finds nothing to send, or no open socket,
\* changes nothing. What is sent to a page that has gone is lost.
SendFrame ==
  /\ Running
  /\ txTimer
  /\ ~closed
  /\ ws # NoConn /\ conn[ws] = "open"
  /\ txQueue # <<>>
  /\ txQueue' = QueueAfterSend
  /\ wire' = IF page = ws THEN Append(wire, Head(txQueue)) ELSE wire
  /\ UNCHANGED <<pushed, txBuffer, ws, txTimer, closed, startVars, leaving, conn,
                 page, jitter, readOffset, samples, lastPlayed>>

----------------------------------------------------------------------------
(* The page *)

TooFarBehind(buffered, total) == total > DropThreshold /\ Len(buffered) > 1

\* Faulty variant: counts a whole frame out, also when it was half read.
WholeFrame == FrameUnits

UnreadOfFirst == FrameUnits - readOffset

\* pushMicPcmFrame: too far behind, the oldest frame goes, read or not.
PushMicPcmFrame ==
  LET buffered == Append(jitter, Head(wire))
      total == samples + FrameUnits
      drop == TooFarBehind(buffered, total)
  IN  /\ wire # <<>>
      /\ wire' = Tail(wire)
      /\ jitter' = IF drop THEN Tail(buffered) ELSE buffered
      /\ samples' = IF drop THEN total - UnreadOfFirst ELSE total
      /\ readOffset' = IF drop THEN 0 ELSE readOffset
      /\ UNCHANGED <<nodeVars, ws, txTimer, closed, startVars, leaving, conn, page, lastPlayed>>

\* micProcessor.onaudioprocess reads across frames and pads with silence.
OnAudioProcess ==
  LET ahead == FlattenSeq(jitter)
      taken == IF Len(ahead) - readOffset < CallbackUnits
               THEN Len(ahead) - readOffset ELSE CallbackUnits
      upto == readOffset + taken
  IN  /\ jitter # <<>>
      /\ lastPlayed' = ahead[upto]
      /\ jitter' = SubSeq(jitter, upto \div FrameUnits + 1, Len(jitter))
      /\ readOffset' = upto % FrameUnits
      /\ samples' = samples - taken
      /\ UNCHANGED <<nodeVars, ws, txTimer, closed, startVars, leaving, conn, page, wire>>

----------------------------------------------------------------------------
(* leave(), from main's SIGINT handler *)

Leave ==
  /\ start = "started"
  /\ leaving = "no"
  /\ leaving' = "page"
  /\ closed' = TRUE
  /\ txTimer' = FALSE
  /\ txQueue' = <<>>
  /\ UNCHANGED <<pushed, txBuffer, ws, startVars, conn, pageVars>>

\* Faulty variant: the page is left open.
LeavePageOpen ==
  /\ leaving = "page"
  /\ leaving' = "server"
  /\ UNCHANGED pageVars
  /\ conn' = IF ws # NoConn /\ conn[ws] = "open" THEN [conn EXCEPT ![ws] = "ending"] ELSE conn
  /\ ws' = NoConn
  /\ UNCHANGED <<nodeVars, txTimer, closed, startVars>>

\* page.close() and browser.close(), then this.ws is closed and forgotten.
LeavePage ==
  /\ leaving = "page"
  /\ leaving' = "server"
  /\ NewPage(NoConn)
  /\ conn' = IF ws # NoConn /\ conn[ws] = "open" THEN [conn EXCEPT ![ws] = "ending"] ELSE conn
  /\ ws' = NoConn
  /\ UNCHANGED <<nodeVars, txTimer, closed, startVars>>

\* server.close calls back once no connection is left.
LeaveServer ==
  /\ leaving = "server"
  /\ \A c \in Conn : conn[c] \in {"none", "closed"}
  /\ leaving' = "left"
  /\ UNCHANGED <<nodeVars, ws, txTimer, closed, startVars, conn, pageVars>>

Next ==
  \/ \E n \in ChunkSizes : PushAudio(n)
  \/ BindPort \/ LaunchBrowser \/ PageLoaded \/ WaitForBridge
  \/ \E c \in Conn : Connection(c) \/ SocketEnds(c) \/ CloseEvent(c)
  \/ PageGone
  \/ SendFrame
  \/ PushMicPcmFrame \/ OnAudioProcess
  \/ Leave \/ LeavePage \/ LeaveServer

\* leave() goes on; a socket whose page has gone is noticed, and its close event
\* delivered.
Fairness ==
  /\ WF_vars(LeavePage \/ LeaveServer)
  /\ \A c \in Conn : WF_vars(page # c /\ SocketEnds(c)) /\ WF_vars(CloseEvent(c))

Spec == Init /\ [][Next]_vars /\ Fairness

----------------------------------------------------------------------------
(* Properties *)

\* All that is on its way into the room, oldest first.
Underway ==
  LET ahead == FlattenSeq(jitter)
  IN  SubSeq(ahead, readOffset + 1, Len(ahead))
        \o FlattenSeq(wire) \o FlattenSeq(txQueue) \o txBuffer

\* No piece of speech is played twice or after a later one, whatever is cut
\* off by the cap, dropped by the page or lost with a socket: what is underway
\* is in the order it was pushed, and later than all that was played.
SpeechStaysInOrder ==
  LET s == <<lastPlayed>> \o Underway IN \A i \in 1 .. Len(s) - 1 : s[i] < s[i + 1]

\* The page never lags by a frame more than the threshold, and its sample
\* counter, kept apart from the buffer, agrees with it: also when the frame that
\* is dropped was half read.
PageLagIsBounded ==
  LET ahead == Len(FlattenSeq(jitter)) - readOffset
  IN  /\ samples = ahead
      /\ ahead < DropThreshold + FrameUnits

\* The bot keeps the newest speech: what waits in it ends with the unit pushed
\* last and has no holes but the excess of one push over the cap.
NewestIsKept ==
  LET s == FlattenSeq(txQueue) \o txBuffer
      excess == Max(ChunkSizes) + FrameUnits - 1 - MaxTxBuffer
  IN  /\ s # <<>> => Last(s) = pushed
      /\ \A i \in 1 .. Len(s) - 1 : s[i + 1] - s[i] <= 1 + Max({0, excess})

\* leave() closes every socket and comes to its end, also if a reload has left
\* a socket that is not this.ws.
LeaveEnds == leaving = "page" ~> leaving = "left" /\ \A c \in Conn : conn[c] # "open"
=============================================================================
