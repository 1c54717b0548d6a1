# Verification of podium-voices

podium-voices puts AI co-hosts into a Podium audio room. One process per agent
joins the room, listens, decides when the user has finished, asks a shared turn
coordinator for the floor and speaks. This directory models the parts of it in
which something other than a single call can go wrong, checks them with TLC and
proves the most important results with TLAPS.

Paths below are relative to the repository; `orchestrator.ts` is
`src/src/pipeline/orchestrator.ts` and so on. `PROJECT.json` maps every
definition to the lines it models.

## 1. The system

| Component | State it keeps | Operations |
|---|---|---|
| Turn coordinator `coordinator/index.ts` (one HTTP server) | floor and lease, round-robin position, discovered order, buckets of pending requests, decisions, shared dialogue | `GET /recent-turns`, `POST /request-turn`, collection timer, `GET /turn-decision`, `POST /end-turn`, lease expiry |
| Auction `coordinator/auction.ts` | none | `normalizeBid`, `runAward` |
| Coordinator client `coordinator/client.ts` (one per agent) | none between calls | `syncRecentTurns`, `requestTurn` (post, then poll until a deadline), `endTurn` |
| Pipeline `pipeline/orchestrator.ts` (one per agent) | `processing`, `speaking`, `cancelTts`, `pendingSegment`, `activeStreamingSession`, `turnHandledByAsrEvent`, audio buffer | `pushAudio`, turns over ASR-LLM-TTS or PersonaPlex, greeting, opener |
| PersonaPlex client `adapters/personaplex/client.ts` | in-flight count per server; per turn a socket, three timers, a queue and a promise | `runTurn`, `abort` |
| Speaking controller `room/speaking-controller.ts` | count and map of allowed utterances, `forceMuted` | `begin`, `end`, `shouldPlay`, `forceMute`, `cancelAll` |
| Live state `room/live-state.ts`, wiring `main.ts` | members and their speaking time; boot order, callbacks | snapshot, WebSocket messages, `canSpeakNow` |
| Local Whisper `adapters/asr/whisper-local.ts`, worker `scripts/whisper_local_worker.py` | worker process, request number, map of pending requests, audio files | `transcribe`, answers, worker start, exit and restart |
| VAD `pipeline/vad.ts` | counters of speech and silence frames | `processFrame` |
| Room `room/client.ts`, `ws.ts`, `api.ts`, SIGINT of `main.ts` | WebSocket, join handler and timer, Jitsi bot | `join`, `leave`, start/stop speaking, exit |
| Jitsi bot `room/jitsi-browser-bot.ts`, page `bot-page/bot.js` | browser, audio bridge sockets, transmit buffer and queue, the page's jitter buffer; bindings, mixer and track selection; streak and gate of the receive contract | `start`, `pushAudio`, paced sending, playing, `leave`; binding tracks, polling statistics, rebinding, truth probes |
| Session memory, feedback collector, metrics | lists and counters | append, replace, window |
| Router `scripts/personaplex-router.js` | per instance in-flight count, last use, health; assignments of session keys | pick an instance, open, close and fail sessions |
| Launcher `scripts/run-multi-agent.js`, `voices-kill.js` | child processes, PID files | spawn, Ctrl-C, a child's exit; SIGINT, check, SIGKILL |
| Supervisor `scripts/personaplex-supervisor.js` | processes, files | start, stop, status |

How they interact. The room delivers audio to `pushAudio`; the pipeline calls
the ASR, LLM and TTS adapters (or one PersonaPlex turn) and awaits each; before
it speaks it goes through the coordinator client, and what it speaks goes
through the callbacks of `main.ts` to the speaking controller and the room.
A terminal, the launcher and voices-kill may interrupt a bot at any point.
Podium tells the bot over the WebSocket how much speaking time is left. Agents
share nothing but the coordinator.

What is hard. Every process is a single thread, and every `await` lets
something else run: new audio, another turn, a greeting, a WebSocket message, a
timer. Flags are read before an await and relied on after it. The coordinator
answers polls, so decisions outlive their turns; posts can be late, repeated or
lost; an agent can die with the floor. The PersonaPlex client ends a turn from
seven places. `PROJECT.json` lists each such place under `hazards`, at its line.

What makes each part correct, in short: at most one agent has the floor, and
only it can give it back (coordinator); the award is the maximum of an order
(auction); an agent speaks only with the floor, and somebody gets it (client and
server); a process speaks with one voice, a barge-in sticks, no flag stays set
(pipeline); a turn ends once and always (PersonaPlex client); Podium shows what
is audible (speaking controller); speech reaches the room in order and without
growing delay (bridge); the participant who speaks is heard, nothing that was
taken away plays on, and lasting silence is reported (receiving); each
transcription gets its own answer (Whisper); who goes on is in the room, who
exits has left it, and the PID file outlives the process (session); a slot of
the pool is taken exactly as long as its session lives (router).

## 2. Modules

| Module | Models | Notes |
|---|---|---|
| `Auction` | `auction.ts` | pure operators: bids are clamped, `BestSoFar` is the pairwise loop of `runAward`, `Awarded` the reference definition |
| `Coordinator` | `coordinator/index.ts`, extends `Auction` | one action per handler part |
| `FloorLease` | what the coordinator promises | abstract specification, implemented by `Coordinator` |
| `CoordinatorFairness` | `Coordinator` with a history variable | both selections over every bucket that a window can build; how often each agent was passed over by each other |
| `MultiAgent` | `client.ts` and the order in which a turn uses it, extends `Coordinator` | composition of server, clients and faults |
| `Orchestrator` | `orchestrator.ts` | one process's tasks |
| `PersonaPlexClient` | `personaplex/client.ts` and the loop that calls it | turns of one server |
| `SpeakingController` | `speaking-controller.ts` | under any caller |
| `Presence` | `live-state.ts`, `main.ts`, extends `SpeakingController` | wiring and Podium's messages |
| `RoomSession` | `client.ts`, `ws.ts`, `main.ts`, `run-multi-agent.js`, `voices-kill.js`, extends `Presence` | the bot's process from launch to end |
| `WhisperWorker` | `whisper-local.ts`, `whisper_local_worker.py` | overlapping calls over one worker |
| `AudioBridge` | transmit side of `jitsi-browser-bot.ts` and `bot.js` | the bot, its sockets and the page |
| `TrackSelection` | receive side of `bot.js` | bindings, mixer, ranking, hysteresis |
| `ReceiveContract` | `handleTruthProbe` of `jitsi-browser-bot.ts` | streak, gate, grace |
| `RoomAudio` | both, extends them | a poll and the probe it ends with |
| `PersonaPlexRouter` | `personaplex-router.js` | under any clients and instances |
| `CoordinatorProofs` | theorems about `Coordinator`, `Auction` and `CoordinatorFairness` | section 5 |
| `MultiAgentProofs`, `OrchestratorProofs`, `PersonaPlexProofs`, `WhisperProofs`, `RouterProofs` | theorems about the module of that name | |
| `JitsiBotProofs` | theorems about `AudioBridge` and `RoomAudio` | |
| `RoomSessionProofs` | theorems about `SpeakingController`, `Presence` and `RoomSession` | |
| `MC*` | instances for TLC | section 3 |

Correspondence to the code.

* **Coordinator.** A POST handler calls `checkLeaseExpiry` when it gets the
  headers and does the rest after `await parseJsonBody`, so a POST is two steps
  (`PostArrives`, then `RequestTurn` or `EndTurn`, or `BodyFails`) and anything
  may happen in between; a GET is one step. The collection timer is
  `FlushRequest`. Time is abstract: a lease's time may be over at any moment
  (`LeaseEnds`), and as in the code nothing notices before the next
  `checkLeaseExpiry`. A request id is the hash of the words, so a `Request` is
  an utterance by its words. Of a finished turn the model keeps who reported
  it and for which grant, which identifies its two texts.
* **MultiAgent.** A client's `client[a]` is the point its turn has reached. A
  fetch may fail before the server sees it (`PostLost`), in the middle
  (`PostCut`), or after its handler ran (in `RequestAnswered`, `EndAnswered`).
  The variable `faults`, chosen at the start and constant, says what the
  environment may do; the properties use it as their premise. A rejected poll
  in a batch turn, which nobody catches, ends the process: it is a `Crash`. What
  it does elsewhere in the pipeline is in `Orchestrator`.
* **Orchestrator.** A task is the stack of the async functions it is in, of
  which the first frame runs. A step goes from one await to the next. Returns
  that do not wait (`Unwind`) come before anything else (`Quiet`), which is the
  order of the microtask queue. A frame's `pc` says which await it is at. Audio
  is the set of utterances it contains, so that one can see what gets lost or
  answered twice. `setting` is the deployment: backend, coordinator, adapter,
  greeting or opener, and what fails. Where the code's order of flag writes
  matters it is kept: `BeginSpeech` clears `processing` before speech,
  `maybeRunPendingTurn` runs before the `finally` that ends the turn,
  `ReplyOver` clears `speaking` before that. A poll that rejects
  (`coordinator/client.ts:111`) is an exception on its way out (`Thrown`,
  `Rejects`). Out of `pushAudio` it ends the process (`Unhandled`, `main.ts:177`);
  the turn of a streaming session is run again as a batch turn; and a queued turn
  that runs inside another throws into it: into the `catch` of the LLM, which says
  an apology (`orchestrator.ts:638`), the one around speech that was barged into
  (600), or through the `finally` blocks to the next caller. A transcript may be
  empty; `SafetyGate` lets none of those pass (`safety.ts:52`), so that such a
  turn ends at `orchestrator.ts:339` or in `runTurnCore`.
* **PersonaPlexClient.** Every event handler is a step, because each runs
  without an await, except the open handler, which polls for the handshake.
  `Settle` is what all ends call: queue, `endOnce`, `finish`, capacity. The
  caller takes frames at its own pace, which allows more interleavings than the
  loop of `runTurnPersonaPlex` needs.
* **SpeakingController, Presence.** `roomShows` is what Podium was last told.
  Of the live state only the bot's own time is kept, and of that whether any is
  left. The boot order of `main()` is `phase`: joined, snapshot requested, live.
* **RoomSession.** `stage` is the await of `main()` and `join()` that the bot is
  at, `leaving[s]` how far the `leave()` of each SIGINT has come. `Exit` ends
  the process with all it kept in memory, which is as at the start from then
  on. Until the end of `main()` a SIGINT has its default effect; `Live` stands
  for that end, a moment too early (nothing but the greeting's timer is between).
  The sleeps of 750 and 250 ms are not measured: the bot may get anything or
  nothing done in them. What `ws.leave()` sends reaches Podium at once, and a
  server that has been told takes the bot out. Nothing is said of other bots.
* **WhisperWorker.** A call is at `writing`, `ensuring` (the 10 ms after a
  start), `awaiting` or `unlinking`. `pending` maps request numbers to calls.
  `unhandled` says that something went wrong that nobody handles, on which Node
  exits: a process that cannot be spawned (`whisper-local.ts:152`) or a write to
  one that has died and whose exit has not come (116) emits `error` without a
  listener, and the exit of a worker may reject a promise nobody awaits (162).
  The worker's output may be lost with it.
* **TrackSelection, ReceiveContract, RoomAudio.** A binding has the id it was
  asked for, the track that is played, and whether through Jitsi's wrapper or
  the receiver; `mixed` is what is connected to the mixer. A poll is one step
  up to its truth probe, which the bot handles before the next. Energies are a
  choice: any subset of the sources that carry audio. Seconds since the last
  change saturate above cooldown and grace. A poll's statistics may come late, by
  up to `setting.late` seconds, because the page reads the clock when they have
  come (`bot.js:929`, 1072, 1200); the truth probe is sent at most every
  `ProbeEvery` seconds, so a late poll may go without. Statistics entries disappear with
  the receiver; that a disappearing entry lowers the sum of bytes once is left
  out. The page joins once, so its reset is `PageInit`.
* **AudioBridge.** Speech is counted in units that are numbered as they are
  pushed, so that order and loss can be seen; a frame is a few of them. `wire`
  is what the current page will still receive; a page that loads again begins
  with empty buffers. A socket ends before its close event is handled, and the
  handler clears `ws` whichever socket it was, as in the code. `page` and
  `conn` are apart because the server learns late that a page has gone. A page
  loads again when somebody reloads it (headed mode); the page itself never
  reconnects. Each port may be in use.
* **PersonaPlexRouter.** A session is the pair of sockets that an upgrade
  creates. `aborted` is an upstream socket that was closed while it connected:
  the ws library then emits `error`. The loop of `pickInstance` is the set
  `LeastLoaded` of what it ends with, at most one instance. `startedAt` and
  `until` are history.

Definitions named "Faulty variant" are bugs that the code does not have; each
property is shown to fail when one of them takes the place of the definition it
varies.

## 3. Runs

All runs terminate; the state counts are of distinct states.

| Run | Instance and bounds | Shows |
|---|---|---|
| `coordinator` | 2 agents, 2 utterances (one names an agent), 2 connections, bids 7 and none, 3 buckets, 2 remembered turns (1.6 million states) | types, a live grant can be read, a turnId has one winner, the dialogue is in grant order, refinement of `FloorLease` |
| `selection` | 3 agents, all listed, 1 utterance, bids absent, malformed and out of range on both sides, every bucket, 4 windows (2.0 million states) | the loop finds the unbeaten bid; nobody is passed over by any other agent more than once |
| `multi_agent` | 2 agents, 2 utterances heard once each, faults none, lost posts and crashes, also with timeouts, or all five on one utterance (326,087 states) | who speaks has the floor, requests are decided, somebody answers, the floor comes back |
| `pipeline` | 9 deployments with what fails in them, rejected polls included, 3 utterances, 5 tasks (668,867 states) | turns are covered by flags, one voice, barge-in sticks, answers are granted, no flag stays set |
| `personaplex` | 2 turns, 2 frames, all faults | one end per turn, one turn at a time, every frame once and in order, every turn returns |
| `presence` | one bot, 2 overlapping utterances, 1 change of the time, 2 join messages under way, creator or not, failing requests, browser, snapshot and speech, three SIGINTs (951,160 states) | Podium shows what passes, nothing that is over; who goes on is in the room; a clean exit has left; the PID file outlives the process; starting up and killing come to an end |
| `room_audio` | 4 rooms: one participant who renegotiates to a second track, two participants, one whose audio pauses, one who is muted, the last two with a binding that fails and with statistics up to 1 s late; selection after 2 polls, change after 3, a cooldown of 4 s, polls and probes every 2 s, grace 1 s (241,641 states) | the mixer is what the bindings say; a track that keeps flowing alone is heard; with such a grace lasting silence is reported |
| `whisper` | 3 calls, 2 workers that die (19,705 states) | each call gets its own transcript; its file lives as long as its request; each returns unless an unhandled error ends Node |
| `audio_bridge` | frames of 2 units, a callback of 3, chunks of 1, 3 and 5 with a cap of 4, 9 units, 2 page loads, 2 ports (108,020 states) | what is underway is in order and later than what was played, the newest speech is kept, the page's lag is bounded, `leave()` ends |
| `router` | 2 instances of 2 slots, 2 keys, 3 sessions, assignments of 2 ticks, 3 ticks (722,000 states) | slots count sessions, a key moves only when its assignment has run out |
| `multi_agent_repeat` | 2 agents, the same words twice, no faults | violated: two agents speak at a time |
| `queued_after_empty_reply` | 2 utterances, replies may be empty | violated: a queued segment is never processed |

Why the bounds are enough. Two agents are the least that can contend, and the
coordinator treats agents alike but for the order; three are needed for
fairness and for the award (a third party). Two utterances give two buckets
whose flushes, denials and grants interleave; a third bucket gives reopening
under an old decision. Two connections let one post wait for its body while
another completes. In the pipeline three utterances give a turn, a queued
segment and one that replaces it or comes back, and there are more tasks (and in
`MultiAgent` more buckets) than are ever in use, so that the bound holds nothing
up. Two PersonaPlex turns give a late event of
one in the other. In the bridge a callback reads one and a half frames, so that
a frame may be half read when it is dropped; three frames pass the page's threshold,
one chunk passes the cap. In the router three sessions fill an instance and
share it with one that ends. In `RoomSession` two utterances overlap and two
join messages put another's before the bot's own. In `WhisperWorker` three calls
let one worker die under a call, a second under one that started it and one that
found it. In `RoomAudio` one participant with two tracks and two with one each
are the ways in which the selected and the reported track differ; two and three
polls stand for the code's three and four, and keep the order of the two
thresholds. Connections and sessions are symmetric and the runs that use the
symmetry check safety only.

`CHECK_DEADLOCK FALSE` stands where utterances, or what the bounded environment
does, come to an end; the coordinator and its selections are checked for deadlock
because a new post or window is always possible until the bounds are reached.

### Fairness

* `MultiAgent`: weak fairness of each agent's steps, of each collection timer
  and of the lease's time. Timers of the process fire, and two things are assumed
  of what the code calls and does not bound: that fetches return or fail, and that
  a spoken reply ends. The ASR and `llm.chat` have timeouts, but the LLM's stream
  and TTS have none (`orchestrator.ts:538`, 549, 657, 754). `FloorComesBack` and
  `UtteranceIsAnswered` rest on the second assumption. Nothing is
  assumed of faults. `AcceptedRequestIsDecided` is claimed without the client's
  own deadline, which would make it trivial.
* `Orchestrator`: weak fairness of each task's next await, which assumes the same of
  the services (`SpeakingEnds` rests on it), and of the end of a run of speech,
  which VAD sees because the room goes on sending frames. The user need not speak.
* `PersonaPlexClient`: only the turn timer and the caller. Nothing is asked of
  the server, the socket or the other timers.
* `AudioBridge`: `leave()` goes on, because what it awaits ends with the page;
  the server notices that a page has gone, and close events are delivered.
  Nothing is assumed of timers, callbacks, reloads or pushes.
* `RoomSession`: requests and `connect()` are answered or fail, the join timer
  fires, voices-kill goes on and SIGKILL is carried out. (fetch and a refused or
  dropped connection give up by themselves; the handshake in `ws.ts:53` has no
  timeout, so that the server's answer to it is assumed.) Nothing is assumed of
  `user.joined`, of `leave()` or of the launcher.
* `WhisperWorker`: timers, file operations and events come; a worker that does
  not die loads its model and works. Nothing ends a call but the worker.
* `RoomAudio`: polls and the bindings' timers go on. Of tracks, receivers and RTP
  nothing is assumed but what a property says in its premise.

## 4. What the code does otherwise

Two disagreements are runs (the last two above); their traces are short. More
were met while modelling, and the properties carry the premise that leaves
them out:

* *Fallback under an old grant.* When PersonaPlex fails, the turn gives the floor
  back and requests the same utterance, whose old decision is still there; it
  speaks under a lease it gave back (`orchestrator.ts:430`). `SpeakerHasTheFloor`
  excludes it.
* *A sole agent is turned down* when it repeats an utterance or asks before its
  own end-turn has arrived, against `docs/FOLLOW_UP_ISSUES_AND_FACTORS.md:32`.
* *The dialogue is fetched before the turn is requested* (`orchestrator.ts:471`),
  so that turns which end meanwhile are missing.
* *The auction has no cooldown*, and the pipeline's bids are all alike: the first
  agent of the order wins every turn (`auction.ts:79`).
* *Two voices.* `startTurnFromTranscript` does not look at `speaking`: a streaming
  session that ends late starts a second turn over the first. `OneVoice` is about
  batch turns.
* *PersonaPlex needs a transcript.* A failed transcription is made an empty one, as if
  the turn were to go on without (`orchestrator.ts:334`, 345), but the safety gate
  refuses an empty transcript and the turn is over.
  The branches for turns without words (345, 362) are never taken.
* *An apology that is not one's own.* A queued turn whose poll rejects throws into the
  turn that took it up. That one has spoken, and says now that it has trouble
  responding; the coordinator is told the apology in place of the reply
  (`orchestrator.ts:638`, 645).
* *A barge-in is forgotten* when a greeting and a turn overlap: the later start
  clears `cancelTts`.
* *A greeting whose TTS fails* leaves `speaking` set and the controller's entry in
  place: nothing is processed any more, and Podium shows the bot speaking.
* *A second utterance during speech replaces the queued one.*
* *A streaming session survives* the queueing of its segment, and
  `turnHandledByAsrEvent` may swallow a later utterance.
* *Speech before the controller exists* (a turn during the join) is audible and
  never shown; a muted bot stays mute after a refill.
* *PersonaPlex capacity is kept for good* when the WebSocket cannot be made
  (`personaplex/client.ts:195`): every later turn fails as busy. `Leaked` in the
  module is that case.

* *A queued turn is refused.* `maybeRunPendingTurn` is awaited before the
  `finally` block that ends the turn (`orchestrator.ts:635`), so the queued turn
  asks for the floor while its own process has it.
* *Without COORDINATOR_AGENTS an agent can starve*: the discovered order is
  extended only when no requester is in it (`coordinator/index.ts:104`), so an
  agent that joins after the first batch never wins against one that did. The
  run `selection` uses a configured order.
* *A message between the snapshot and the subscription is lost* (`main.ts:206`):
  after `user.time_is_up` the bot may start to speak.
* *The transmit queue is not bounded.* The cap "Prevent unbounded buffering if the
  bridge isn't connected yet" (`jitsi-browser-bot.ts:842`) looks at a buffer that
  each push empties into `txQueue`; only a single push can pass it, and loses its
  beginning. The queue is not emptied by a barge-in or a mute either, and the
  last part of an utterance that does not fill a frame waits for the next one.
* *The ephemeral port is never tried.* `README.md:45` says the bridge "will retry
  multiple ports and can fall back to an ephemeral port"; the 25th port in use is
  rethrown (`jitsi-browser-bot.ts:979`), so the fallback is unreachable. In
  `BindPort` the last attempt fails.
* *An old socket's close* clears `ws` under a newer one (`jitsi-browser-bot.ts:1314`):
  the queue then waits although a page is connected.
* *The router frees a slot before its instance is free*: cleanup gives it back
  when it begins to close the upstream socket, so an instance of capacity one
  may have two connections for a while. An instance marked unhealthy stays so,
  because only a connection that opens would clear the mark and none is made. A
  client that hangs up while the router still connects is enough for it: closing
  a connecting socket is an error of that socket, and the handler takes it for
  one of the instance (`personaplex-router.js:219,237`), although "We treat
  instances as healthy unless we observe connection failures" (line 71). What a
  client sends before its upstream socket is open is dropped.
* *A wrong track is not reported.* By default the grace after a change of track
  (6 s) is longer than the cooldown between changes (4 s). A selected track that
  is silent although RTP arrives is bound anew every six seconds or so, each
  rebinding begins the grace anew, and "Failures are still reported when
  post-mixer is silent" (`docs/FOLLOW_UP_DIALOGUE_STATUS_AND_TROUBLESHOOTING.md:11`)
  is not so: with a grace of 6 s TLC refutes `SilenceIsDetected`, even when no poll
  is late. A shorter grace need not do either. If the statistics take 150 ms longer
  at one poll than at another, the second poll after a rebinding may find the
  cooldown over, or follow the first so soon that no probe is sent with it
  (1900 ms, `bot-page/bot.js:1256`), and every probe may fall into a grace of 3 s.
  `SilenceIsReported` states what is enough: the grace is over at the first poll
  after a change, that is, with the delay of a poll it is no longer than the 2 s
  between polls.
* *Rebinding by position.* `rebindMixerToReceiverTrack` falls back to the receiver
  of the first statistics entry: with two participants a departed one's binding
  may get the other's track, which is then mixed twice. A second participant
  bound through Jitsi's wrapper may never be rebound, because the reported id is
  that of the first entry. `FlowingTrackIsHeard` is about a track that flows
  alone. Bindings made on TRACK_ADDED get no grace, and those of participants
  who left stay.
* *A dead Whisper worker may end Node*, in three ways. Neither the process nor its
  stdin has a listener for `error`: an interpreter that cannot be spawned
  (`whisper-local.ts:152`) is enough, and so is a request that is written after the
  worker has died and before its exit is reported (116). And a worker that dies
  within the 10 ms of `ensureWorker` leaves `this.worker` null: the call fails with
  a TypeError, its entry stays in `pending`, and the next worker's exit rejects a
  promise nobody awaits, on which Node exits. A fatal error at startup is reported
  under the number -1 and matches no request; `stopWorker` never finds a worker to
  kill.
* *voices-kill cuts leave() off.* 750 ms after SIGINT comes SIGKILL, and a bot
  that has not left is not taken out by anyone here. A SIGINT before `main()` has
  installed its handler kills the bot without `leave()` although it may be in the
  room. The second of two overlapping `leave()`s may be refused, which is an
  unhandled rejection: the exit is not clean. The script takes a process of another
  user for one that is gone (EPERM, `voices-kill.js:28`) and removes its file, and
  it removes a file that holds no number (78); neither is in the model, whose file
  holds the number of the user's own bot.
* *PID files.* The launcher exits right after it has interrupted its children, so
  their `exit` handlers, which remove the PID files, do not run. A number found
  in such a file later may belong to another process, against "avoids
  accidentally killing unrelated Node processes" (`voices-kill.js:11`). A second
  launcher overwrites the files of the first. Both are outside the model, which
  has one bot and does not reuse numbers.

## 5. Proofs

Each theorem holds for every value of the constants that the named assumptions of
its module allow: any set of agents, tasks, turns, calls or tracks (finite where the
code counts them), any order, any bids, any bounds. They all go the same way: an
inductive invariant, which TLC has checked on the runs' instances, holds at the
start and is kept by each action; what several actions share (a lease that runs out,
a frame that is pushed, an end of a turn) is a lemma. Where an argument is an
induction over data, it is made on the least index at which the claim fails.

| Module | Theorems | Inductive invariant |
|---|---|---|
| `CoordinatorProofs` | `TypeCorrectness`, `FloorSafety`, `GrantSafety`, `WinnerSafety`, `DialogueSafety`, `Refinement`; `AuctionIsSound`; `RoundRobinIsFair` | `IInv`; `BucketsInv`; `TurnsGoRound` |
| `MultiAgentProofs` | `Composition`, `SpeakerSafety`, `OneSpeaker` | `MInv` |
| `OrchestratorProofs` | `TurnCover`, `GrantedReplies`, `SingleVoice`, `BargeInHolds` | `OInv` |
| `PersonaPlexProofs` | `CapacitySafety`, `OutcomeSafety`, `FrameSafety` | `PInv` |
| `RoomSessionProofs` | `ControllerCorrect`, `SessionShowsWhatPlays`, `SessionShowsRealSpeech`, `JoinSafety`, `ExitSafety`, `PidFileSafety` | `CInv`, `VInv`, `SInv` |
| `JitsiBotProofs` | `SpeechOrder`, `LagIsBounded`, `NewestSpeech`; `MixerSafety` | `BInv`; `RInv` |
| `WhisperProofs` | `TranscriptSafety`, `FileSafety` | `WInv` |
| `RouterProofs` | `RouterTypes`, `SlotSafety`, `KeySafety` | `RInv` |

**The coordinator.** `IInv` is the type invariant with the four safety properties
of the run, which need each other: that a live grant stays announced needs that
no other request carries its turnId, hence that turnIds are at most `issued`;
that the dialogue is in grant order needs that the live grant is newer than all
of it, which holds because a grant takes the next number and end-turn takes the
entry only from the live lease. `Refinement` maps each step to a step of
`FloorLease` or to a stutter; a flush that reclaims and grants is one `Grant`.

**The auction.** `AuctionIsSound` says that the pairwise loop of `runAward` returns
the one entry that no other would replace, in every bucket the server builds.
It takes two facts: replacing is transitive and total on entries of different
agents, because scores are clamped to numbers and ties go to the earlier one in
the order; and a bucket has one entry per agent (`BucketsInv`), because
`/request-turn` replaces. If the loop were wrong after some round, there would
be a first such round, and the entry it took is better than the one before.

**Round robin.** `RoundRobinIsFair` has as hypotheses what makes the property true:
every agent is in `AgentOrder` once (`EveryoneListed`), and no auction and no
name overrules the order (`RoundRobinOnly`). Without `COORDINATOR_AGENTS` the
first does not hold and an agent can starve (section 4). `TurnsGoRound` says for
every agent that those who come before it, from the last respondent on, have not
passed it over yet. A winner is among these for each agent that asked and lost, and
the walk then starts behind the winner, so that none wins a second time over an
agent that goes on asking.

**Agents and coordinator.** `Composition` shows that `MultiAgent` implements
`Coordinator`: with lost and cut posts, deadlines, slow turns, fallbacks and
crashes the agents still are the clients the server is proved for. `SpeakerSafety`
and `OneSpeaker` have the hypothesis that no agent hears the same words twice
(`HeardOnceOnly`, of the constants); the run `multi_agent_repeat` shows that they
fail without it, because a poll then reads the decision of an earlier turn. The
safety properties themselves leave out turns that outlast the lease and
fallbacks under an old grant, in which nobody claims that the floor is held.
`MInv` says what an agent that polls will learn: it was in no decision and no
bucket when it asked (`New`), so that an allowing decision it finds is the one of
the lease that runs (`Holds`). `Linked` ties an agent to its post, which may still
arrive when the agent has gone on.

**The pipeline.** `OInv` reads the flags off the stacks. Each frame is where its
configuration may lead and was granted what it needs (`StacksOK`; an exception resumes
only such a frame, so that an apology is granted as well); at most one
frame holds the floor (`FloorInv`); without a coordinator there is only one task
of batch turns, because whoever works has `processing` or `speaking` set
(`SingleTask`, `CoverInv`). From this, nobody else speaks when a reply begins, so
that clearing `cancelTts` forgets no barge-in (`BargeInv`). The bound on stacks is
no part of it: a queued turn may run inside another to any depth.

**PersonaPlex.** `PInv` says that the three records of a turn's end agree and that
the capacity goes back with them (`EndInv`), that nothing of a turn exists before
its socket (`SocketInv`), that at most one turn holds the capacity, or has leaked
it (`CapacityInv`), and that what was delivered and what is queued are together
1, 2, ... up to the number of accepted frames (`FrameInv`).

**The room session.** `CInv` has the reference count, the map and what Podium shows;
a lemma shows that every step of `Presence` is a step of the controller under
arbitrary callers, so `ControllerCorrect` does not depend on how `main.ts` calls
it. `VInv` says for which utterances the map may have an entry: those whose
speech has begun and is not over. `SInv` says that the bot's own `user.joined`, while
under way, is true unless a `leave()` has begun, and that none is under way before
JOIN is sent, also after the process has ended and its memory is as at the
start. To the controller a step of the session is a step of `Presence`, an exit or
nothing, which carries `CInv` and `VInv` over to the whole life of the process.
What passes before the controller exists is in neither: `SessionShowsWhatPlays`
says of that time only that nothing is shown.

**The way into the room.** `BInv` sees all speech between `pushAudio` and the room as
one line: what the page has not read, the wire, the queue and the buffer are
rising sequences, each wholly before the next and behind what was played
(`LineInv`). The queue ends where the buffer goes on and has no gap but what one
push may lose to the cap (`QueueInv`); the buffer is the newest units, fewer than
a frame (`BufferInv`), which is why flushing it on a connection sends nothing. The
page's sample counter is the length of its buffers without what was read of the
first frame (`LagInv`): dropping a half-read frame, or reading over several
frames, keeps both. The sizes are arbitrary (`BridgeAssumption`: a frame has some
units, cap and threshold are no smaller, a push has a largest size). Most lemmas
are about cutting sequences into frames and putting frames together; they rest on
induction over the length of a sequence, which is made with the set of numbers
for which the claim holds, since its complement would have a least member.

**The page's mixer.** `attachExistingRemoteTracks` binds all listed tracks at once.
`RInv` says that no participant has two of them, because a renegotiated track
takes the place of the one before; otherwise two bindings of one step could
leave a source in the mixer that no binding knows. That every source is its
binding's then holds through rebinding, failures, removal and page loads.

**Whisper.** Request numbers are the only link between a call and its answer.
`WInv` says that the numbers in the worker's input, in its hands and in its output
are in order, so that none is there twice (`OrderInv`), and that each is in
`pending` for a call that still waits (`PipeInv`). Hence an answer meets the call
that asked, and a file that the worker may open belongs to a call that has not
come to its `finally`.

**The router.** `RInv` says that only sessions that were begun live, and on an
instance, so that cleanup gives back a slot that is taken; and that the
assignment under which a session was accepted has run out or still stands
(`AssignmentsStand`), which is what the next upgrade of its key reads.

Only model-checked:

* all liveness (`UtteranceIsAnswered` and the like), which is out of the prover's
  reach, as is everything about ENABLED;
* the two violated properties, which their runs refute.

## 6. Not modelled

Prompts, personas, the safety gate, fillers, the sentence splitter, metrics,
logging and configuration have no state that interacts with anything. The cloud
adapters are one call each; the pipeline model takes every outcome of a call.
Of the Jitsi bot the diagnostics, the publish contract, levels, resampling and
what starts the browser are left out; of the room client reactions and the mock
room. The VAD's frame counters, trimming of the session memory and the feedback
window are small sequential functions of their inputs. The supervisor starts and
stops processes one at a time and keeps files only; the test scripts drive the
program from outside.
The metrics watchdog only logs.

## 7. Plan

In order of importance, with what is done:

1. `Coordinator`, `Auction`, `FloorLease`, `CoordinatorFairness`: modelled, checked,
   all their safety proved.
2. `MultiAgent`: the same, for words that are heard once.
3. `Orchestrator`: the same.
4. `SpeakingController`, `Presence`, `RoomSession`: the same.
5. `PersonaPlexClient`: the same.
6. `AudioBridge`: the same.
7. `PersonaPlexRouter`: modelled, checked, proved.
8. `WhisperWorker`: the same.
9. `TrackSelection`, `ReceiveContract`, `RoomAudio`: the same.
10. `Vad`, `SessionMemory`, `FeedbackCollector`: frame counters, trimming and the
    reaction window against reference definitions.
