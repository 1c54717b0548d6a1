---------------------------- MODULE Orchestrator ----------------------------
(***************************************************************************)
(* One agent's pipeline (src/pipeline/orchestrator.ts): room audio goes    *)
(* through VAD into turns, a turn is ASR -> floor -> LLM -> TTS, and a few *)
(* flags decide what new audio does meanwhile.                             *)
(*                                                                         *)
(* The program is one thread.  Every pushAudio, greeting or event of the   *)
(* ASR starts a task, a stack of the async functions it is in, of which    *)
(* the first frame runs.  A step runs a task from one await to the next;   *)
(* returns from awaits that are over at once (Unwind) come before anything *)
(* else happens, which is what Quiet says.                                 *)
(*                                                                         *)
(* Audio is the set of the utterances it contains: `run` is what VAD has   *)
(* of the current run of speech, a segment is a run that ended.            *)
(* The memory's content, prompts, metrics and fillers are left out.        *)
(***************************************************************************)
EXTENDS Integers, Sequences

CONSTANTS
  MaxUtterances,   \* bound: what the user says in a behaviour
  MaxTasks,        \* bound: tasks at a time
  Settings         \* the configurations, and what fails in each

\* backend is conversationBackendMode, coordinated says that there is a
\* coordinatorClient, fallback is personaplexFallbackToLlm, adapter what the ASR
\* adapter can do, proactive what main.ts schedules after joining.
Setting ==
  [backend : {"asr-llm-tts", "personaplex"}, coordinated : BOOLEAN, fallback : BOOLEAN,
   adapter : SUBSET {"sessions", "turnEvents"}, proactive : {"none", "greeting", "opener"},
   faults : SUBSET {"asr", "llm", "emptyReply", "tts", "personaplex", "poll"}]

ASSUME BoundsAssumption == MaxUtterances \in Nat /\ MaxTasks \in Nat
ASSUME SettingsAssumption == Settings \subseteq Setting

VARIABLES
  processing,      \* flags and fields of class Orchestrator
  speaking,
  cancelTts,
  pendingSegment,  \* {} for null
  session,         \* activeStreamingSession: what it was given, {} for null
  handled,         \* turnHandledByAsrEvent: {} for false, else what that session had
  run,             \* VAD's current run of speech, {} for none
  stack,           \* the tasks
  said,            \* utterances so far
  scheduled,       \* the timer of the greeting or opener is pending
  running,         \* the process has not ended
  setting          \* the configuration of this run

flags == <<processing, speaking, cancelTts>>
audio == <<pendingSegment, session, handled, run>>
vars == <<flags, audio, stack, said, scheduled, running, setting>>

Coordinated == setting.coordinated
Faults == setting.faults

Utterance == 1 .. MaxUtterances
Task == 1 .. MaxTasks

\* Where a frame is.  In Unwinding it goes on at once, elsewhere it waits.
Sessions == {"sessionEnd", "eventEnd"}
Voices == {"speak", "say", "pp", "proactive"}
Endings == {"endTurn", "ppEnd", "ppRelease", "ppClosing", "throwEnd", "ppThrowEnd"}
Unwinding == {"after", "afterVoice", "done", "drain", "fellBack", "throwing", "rejecting"}
Pc == Sessions \cup {"asr", "floor", "ppFloor", "llm", "openerLlm"} \cup Voices \cup Endings \cup Unwinding

\* seg is what a batch transcription would get, text what the transcript has,
\* granted says that coordinatorTurnId is set, barged that the user spoke into
\* this frame's speech and, once that is over, that it was left by the barge-in exit,
\* retry that pushAudio caught what its session's turn throws, and has seg to try.
Frame == [pc : Pc, seg : SUBSET Utterance, text : SUBSET Utterance,
          granted : BOOLEAN, barged : BOOLEAN, retry : BOOLEAN]

FrameAt(pc, seg, text) ==
  [pc |-> pc, seg |-> seg, text |-> text, granted |-> FALSE, barged |-> FALSE, retry |-> FALSE]

Init ==
  /\ processing = FALSE /\ speaking = FALSE /\ cancelTts = FALSE
  /\ pendingSegment = {} /\ session = {} /\ handled = {} /\ run = {}
  /\ stack = [t \in Task |-> <<>>]
  /\ said = 0
  /\ setting \in Settings
  /\ scheduled = (setting.proactive # "none")
  /\ running = TRUE

----------------------------------------------------------------------------
(* Tasks and frames                                                        *)

Top(t) == Head(stack[t])
At(t, pcs) == stack[t] # <<>> /\ Top(t).pc \in pcs
Quiet == running /\ \A t \in Task : ~At(t, Unwinding)

Continue(t, f) == stack' = [stack EXCEPT ![t] = <<f>> \o Tail(@)]
Goto(t, pc) == Continue(t, [Top(t) EXCEPT !.pc = pc])
Call(t, f) == stack' = [stack EXCEPT ![t] = <<f>> \o @]
Return(t) == stack' = [stack EXCEPT ![t] = Tail(@)]

Spawn(f) ==
  \E t \in Task :
    /\ stack[t] = <<>>
    /\ \A u \in Task : u < t => stack[u] # <<>>
    /\ Call(t, f)

Frames == UNION {{t} \X DOMAIN stack[t] : t \in Task}
FrameOf(p) == stack[p[1]][p[2]]

\* The turn runs inside runTurnPersonaPlex's catch block.
InFallback(t) == Len(stack[t]) > 1 /\ stack[t][2].pc = "fellBack"

\* This process was granted the floor and has not ended that turn yet.
HoldsFloor ==
  \E p \in Frames : FrameOf(p).granted /\ FrameOf(p).pc \notin {"fellBack", "ppClosing", "ppThrowEnd"}

\* Faulty variant: `speaking` is not set.
BeginSpeechUnnoticed == processing' = FALSE /\ cancelTts' = FALSE /\ UNCHANGED speaking

BeginSpeech == processing' = FALSE /\ speaking' = TRUE /\ cancelTts' = FALSE

----------------------------------------------------------------------------
(* pushAudio                                                               *)

\* The streaming session after a frame of speech with utterance u.
SessionsAfter(u) ==
  IF speaking THEN {session}
  ELSE (IF session # {} THEN {session \cup {u}}
        ELSE IF run = {} /\ "sessions" \in setting.adapter THEN {{u}}
        ELSE {{}})
       \cup (IF "asr" \in Faults THEN {{}} ELSE {})

\* Faulty variant: the speech is not told to stop.
BargeInUnnoticed ==
  /\ stack' = [t \in Task |->
       IF At(t, Voices) THEN <<[Top(t) EXCEPT !.barged = TRUE]>> \o Tail(stack[t]) ELSE stack[t]]
  /\ UNCHANGED cancelTts

\* Barge-in: every frame that is speaking now is meant to stop.
BargeIn ==
  /\ cancelTts' = TRUE
  /\ stack' = [t \in Task |->
       IF At(t, Voices) THEN <<[Top(t) EXCEPT !.barged = TRUE]>> \o Tail(stack[t]) ELSE stack[t]]

SpeechFrame ==
  IF speaking /\ ~cancelTts THEN BargeIn ELSE UNCHANGED <<cancelTts, stack>>

\* The user says something new; while a turn is processed nobody listens.
UserSpeaks ==
  /\ Quiet
  /\ said < MaxUtterances
  /\ said' = said + 1
  /\ IF processing THEN UNCHANGED <<flags, audio, stack>>
     ELSE /\ run' = run \cup {said'}
          /\ session' \in SessionsAfter(said')
          /\ SpeechFrame
          /\ UNCHANGED <<processing, speaking, pendingSegment, handled>>
  /\ UNCHANGED <<scheduled, running, setting>>

\* More speech of the same run.
UserGoesOn ==
  /\ Quiet
  /\ ~processing /\ run # {} /\ speaking /\ ~cancelTts
  /\ SpeechFrame
  /\ UNCHANGED <<processing, speaking, audio, said, scheduled, running, setting>>

\* end_of_turn_predicted by the ASR.
PredictedEnd ==
  /\ Quiet
  /\ "turnEvents" \in setting.adapter
  /\ session # {} /\ ~processing /\ ~speaking
  /\ handled' = session
  /\ session' = {}
  /\ Spawn(FrameAt("eventEnd", {}, session))
  /\ UNCHANGED <<flags, pendingSegment, run, said, scheduled, running, setting>>

SkipHandled ==
  /\ handled # {}
  /\ handled' = {}
  /\ UNCHANGED <<flags, pendingSegment, session, stack>>

QueueSegment ==
  /\ handled = {}
  /\ speaking
  /\ pendingSegment' = run
  /\ UNCHANGED <<flags, handled, session, stack>>

EndSession ==
  /\ handled = {} /\ ~speaking
  /\ session # {}
  /\ session' = {}
  /\ Spawn([FrameAt("sessionEnd", run, session) EXCEPT !.retry = TRUE])
  /\ UNCHANGED <<flags, pendingSegment, handled>>

\* Faulty variant: a turn starts while the bot speaks.
StartTurnOverSpeech ==
  /\ handled = {} /\ session = {}
  /\ processing' = TRUE
  /\ Spawn(FrameAt("asr", run, {}))
  /\ UNCHANGED <<speaking, cancelTts, pendingSegment, session, handled>>

StartBatchTurn ==
  /\ handled = {} /\ ~speaking /\ session = {}
  /\ processing' = TRUE
  /\ Spawn(FrameAt("asr", run, {}))
  /\ UNCHANGED <<speaking, cancelTts, pendingSegment, session, handled>>

\* VAD: silence after speech.
EndOfTurn ==
  /\ Quiet
  /\ ~processing
  /\ run # {}
  /\ run' = {}
  /\ SkipHandled \/ QueueSegment \/ EndSession \/ StartBatchTurn
  /\ UNCHANGED <<said, scheduled, running, setting>>

----------------------------------------------------------------------------
(* A turn                                                                  *)

\* runTurnCore with a transcript: nothing to answer, or on to the floor or LLM.
EnterCore(t, f) ==
  \/ Continue(t, [f EXCEPT !.pc = "done"])
  \/ /\ f.text # {}
     /\ Continue(t, [f EXCEPT !.pc = IF Coordinated THEN "floor" ELSE "llm"])

\* session.end() in pushAudio or finalizeStreamingSessionAndTurn.
SessionEnded(t) ==
  /\ At(t, Sessions)
  /\ IF processing THEN Return(t) /\ UNCHANGED processing
     ELSE processing' = TRUE /\ EnterCore(t, Top(t))
  /\ UNCHANGED <<speaking, cancelTts, audio, said, scheduled, running, setting>>

\* After a caught rejection, pushAudio starts a batch turn with the segment.
TryBatch(t) ==
  IF processing \/ ~Top(t).retry THEN Return(t) /\ UNCHANGED processing
  ELSE processing' = TRUE /\ Continue(t, FrameAt("asr", Top(t).seg, {}))

\* It rejects or times out.
SessionFailed(t) ==
  /\ "asr" \in Faults
  /\ At(t, Sessions)
  /\ TryBatch(t)
  /\ UNCHANGED <<speaking, cancelTts, audio, said, scheduled, running, setting>>

\* Faulty variant: does not ask the coordinator.
EnterPersonaPlexUncoordinated(t, text) ==
  LET f == [Top(t) EXCEPT !.text = text]
  IN  IF text = {} THEN Continue(t, [f EXCEPT !.pc = "done"]) /\ UNCHANGED flags
      ELSE Continue(t, [f EXCEPT !.pc = "pp"]) /\ BeginSpeech

\* PersonaPlex would need the audio only, but SafetyGate lets no empty transcript
\* pass (safety.ts:52): the turn is over then.
EnterPersonaPlex(t, text) ==
  LET f == [Top(t) EXCEPT !.text = text]
  IN  \/ text = {} /\ Continue(t, [f EXCEPT !.pc = "done"]) /\ UNCHANGED flags
      \/ text # {} /\ Coordinated /\ Continue(t, [f EXCEPT !.pc = "ppFloor"]) /\ UNCHANGED flags
      \/ text # {} /\ ~Coordinated /\ Continue(t, [f EXCEPT !.pc = "pp"]) /\ BeginSpeech

Transcribed(t) ==
  /\ At(t, {"asr"})
  /\ IF setting.backend = "personaplex" THEN \E text \in {Top(t).seg, {}} : EnterPersonaPlex(t, text)
     ELSE EnterCore(t, [Top(t) EXCEPT !.text = Top(t).seg]) /\ UNCHANGED flags
  /\ UNCHANGED <<audio, said, scheduled, running, setting>>

AsrFailed(t) ==
  /\ "asr" \in Faults
  /\ At(t, {"asr"})
  /\ IF setting.backend = "personaplex" THEN EnterPersonaPlex(t, {}) ELSE Goto(t, "done") /\ UNCHANGED flags
  /\ UNCHANGED <<audio, said, scheduled, running, setting>>

\* requestTurn: who has the floor already is refused it.  A poll for the decision
\* that rejects is not caught there (client.ts:111).
FloorAnswered(t) ==
  /\ At(t, {"floor", "ppFloor"})
  /\ \/ Goto(t, "done") /\ UNCHANGED flags
     \/ "poll" \in Faults /\ Goto(t, "throwing") /\ UNCHANGED flags
     \/ /\ ~HoldsFloor
        /\ IF At(t, {"floor"})
           THEN Continue(t, [Top(t) EXCEPT !.pc = "llm", !.granted = TRUE]) /\ UNCHANGED flags
           ELSE Continue(t, [Top(t) EXCEPT !.pc = "pp", !.granted = TRUE]) /\ BeginSpeech
  /\ UNCHANGED <<audio, said, scheduled, running, setting>>

\* The finally block of runTurnCore.
LeaveCore(t, f) ==
  Continue(t, [f EXCEPT !.pc = IF f.granted THEN "endTurn" ELSE "done"])

\* llm.chat resolves with a stream; or fails, or has no stream, and a whole text
\* is said; or it has neither stream nor text: the turn returns, flags set.
LlmAnswered(t) ==
  /\ At(t, {"llm"})
  /\ BeginSpeech
  /\ \/ Goto(t, "speak")
     \/ "llm" \in Faults /\ Goto(t, "say")
     \/ "emptyReply" \in Faults /\ LeaveCore(t, Top(t))
  /\ UNCHANGED <<audio, said, scheduled, running, setting>>

\* Faulty variant: no finally block.
ReplyOverStillSpeaking(t) ==
  /\ At(t, {"speak", "say"})
  /\ Goto(t, "after")
  /\ UNCHANGED <<flags, audio, said, scheduled, running, setting>>

\* The reply is over: spoken, failed, or broken off when cancelTts was seen.
ReplyOver(t) ==
  /\ At(t, {"speak", "say"})
  /\ speaking' = FALSE
  /\ \E barged \in {FALSE, cancelTts /\ At(t, {"speak"})} :
       Continue(t, [Top(t) EXCEPT !.pc = IF @ = "speak" THEN "after" ELSE "afterVoice",
                                  !.barged = barged])
  /\ UNCHANGED <<processing, cancelTts, audio, said, scheduled, running, setting>>

EndTurnDone(t) ==
  /\ At(t, Endings \ {"ppRelease"})
  /\ \E next \in {"afterVoice", "throwing", "done"} :
       /\ next = "afterVoice" <=> At(t, {"ppEnd"})
       /\ next = "throwing" <=> At(t, {"throwEnd", "ppThrowEnd"})
       /\ Continue(t, [Top(t) EXCEPT !.pc = next, !.granted = FALSE])
  /\ UNCHANGED <<flags, audio, said, scheduled, running, setting>>

----------------------------------------------------------------------------
(* PersonaPlex                                                             *)

PersonaPlexOver(t) ==
  /\ At(t, {"pp"})
  /\ speaking' = FALSE
  /\ Continue(t, [Top(t) EXCEPT !.pc = IF Top(t).granted THEN "ppEnd" ELSE "afterVoice", !.barged = FALSE])
  /\ UNCHANGED <<processing, cancelTts, audio, said, scheduled, running, setting>>

\* runTurnCore from the catch block.
FallBack(t) ==
  LET core == FrameAt(IF Coordinated THEN "floor" ELSE "llm", Top(t).seg, Top(t).text)
  IN  stack' = [stack EXCEPT ![t] = <<core, [Head(@) EXCEPT !.pc = "fellBack"]>> \o Tail(@)]

PersonaPlexFails(t) ==
  /\ "personaplex" \in Faults
  /\ setting.fallback
  /\ At(t, {"pp"})
  /\ IF Coordinated THEN Goto(t, "ppRelease") ELSE FallBack(t)
  /\ UNCHANGED <<flags, audio, said, scheduled, running, setting>>

Released(t) ==
  /\ At(t, {"ppRelease"})
  /\ FallBack(t)
  /\ UNCHANGED <<flags, audio, said, scheduled, running, setting>>

----------------------------------------------------------------------------
(* Returns that are over at once                                           *)

\* maybeRunPendingTurn's loop condition, and its body's startTurn.
Runnable == ~processing /\ ~speaking /\ pendingSegment # {}

RunPending(t) ==
  /\ At(t, {"after", "afterVoice", "drain"})
  /\ Runnable
  /\ pendingSegment' = {}
  /\ processing' = TRUE
  /\ Call(t, FrameAt("asr", pendingSegment, {}))
  /\ UNCHANGED <<speaking, cancelTts, session, handled, run, said, scheduled, running, setting>>

\* The inner finally of a barge-in exit clears `speaking` once more.
AfterReply(t) ==
  /\ At(t, {"after", "afterVoice"})
  /\ ~Runnable
  /\ speaking' = (speaking /\ ~Top(t).barged)
  /\ LeaveCore(t, Top(t))
  /\ UNCHANGED <<processing, cancelTts, audio, said, scheduled, running, setting>>

\* Faulty variant: no finally block.
TurnDoneStillProcessing(t) ==
  /\ At(t, {"done"})
  /\ IF InFallback(t) THEN Return(t) ELSE Goto(t, "drain")
  /\ UNCHANGED <<flags, audio, said, scheduled, running, setting>>

\* Back in startTurn or startTurnFromTranscript, or in the catch block.
TurnDone(t) ==
  /\ At(t, {"done"})
  /\ IF InFallback(t) THEN Return(t) /\ UNCHANGED processing
     ELSE Goto(t, "drain") /\ processing' = FALSE
  /\ UNCHANGED <<speaking, cancelTts, audio, said, scheduled, running, setting>>

Drained(t) ==
  /\ At(t, {"drain"})
  /\ ~Runnable
  /\ Return(t)
  /\ UNCHANGED <<flags, audio, said, scheduled, running, setting>>

\* The finally block of runTurnPersonaPlex after a fallback.
FellBack(t) ==
  /\ At(t, {"fellBack"})
  /\ speaking' = FALSE
  /\ Goto(t, IF Top(t).granted THEN "ppClosing" ELSE "done")
  /\ UNCHANGED <<processing, cancelTts, audio, said, scheduled, running, setting>>

\* An exception leaves the turn, through the finally block of startTurn.
Thrown(t) ==
  /\ At(t, {"throwing"})
  /\ Goto(t, "rejecting")
  /\ processing' = (processing /\ InFallback(t))
  /\ UNCHANGED <<speaking, cancelTts, audio, said, scheduled, running, setting>>

CalledAt(t, pcs) == Len(stack[t]) > 1 /\ stack[t][2].pc \in pcs

\* The caller goes on, at pc.
Resume(t, pc) ==
  stack' = [stack EXCEPT ![t] = <<[@[2] EXCEPT !.pc = pc, !.barged = FALSE]>> \o Tail(Tail(@))]

\* What a queued turn throws reaches the turn that took it up: caught around the
\* speech by a barge-in exit, caught around the LLM, where an apology is said, or
\* passed on, through the finally blocks that tell the coordinator.
RejectsCaller(t) ==
  LET caller == stack[t][2]
  IN  \/ /\ CalledAt(t, {"after"}) /\ caller.barged
         /\ Resume(t, "after")
         /\ speaking' = FALSE /\ UNCHANGED <<processing, cancelTts>>
      \/ /\ CalledAt(t, {"after"}) /\ ~caller.barged
         /\ Resume(t, "say")
         /\ BeginSpeech
      \/ /\ CalledAt(t, {"afterVoice"})
         /\ Resume(t, IF caller.granted THEN "throwEnd" ELSE "throwing")
         /\ UNCHANGED flags
      \/ /\ CalledAt(t, {"fellBack"})
         /\ Resume(t, IF caller.granted THEN "ppThrowEnd" ELSE "throwing")
         /\ speaking' = FALSE /\ UNCHANGED <<processing, cancelTts>>
      \/ /\ CalledAt(t, {"drain"})
         /\ Resume(t, "rejecting")
         /\ UNCHANGED flags

\* Nobody called: pushAudio tries again, or the end of a session, greeting or
\* opener is logged.
RejectsTask(t) ==
  /\ Len(stack[t]) = 1
  /\ Top(t).retry \/ Top(t).seg = {}
  /\ TryBatch(t)
  /\ UNCHANGED <<speaking, cancelTts>>

Rejects(t) ==
  /\ At(t, {"rejecting"})
  /\ RejectsCaller(t) \/ RejectsTask(t)
  /\ UNCHANGED <<audio, said, scheduled, running, setting>>

\* A pushAudio that rejects with nobody to catch it (main.ts:177) ends Node.
Unhandled(t) ==
  /\ At(t, {"rejecting"})
  /\ Len(stack[t]) = 1 /\ ~Top(t).retry /\ Top(t).seg # {}
  /\ running' = FALSE
  /\ processing' = FALSE /\ speaking' = FALSE /\ cancelTts' = FALSE
  /\ pendingSegment' = {} /\ session' = {} /\ handled' = {} /\ run' = {}
  /\ stack' = [u \in Task |-> <<>>]
  /\ scheduled' = FALSE
  /\ UNCHANGED <<said, setting>>

Unwind(t) ==
  \/ RunPending(t) \/ AfterReply(t) \/ TurnDone(t) \/ Drained(t) \/ FellBack(t)
  \/ Thrown(t) \/ Rejects(t) \/ Unhandled(t)

----------------------------------------------------------------------------
(* Greeting and opener                                                     *)

\* speakTextViaTts, whatever else is going on.
SpeakText == speaking' = TRUE /\ cancelTts' = FALSE

TimerFires ==
  /\ Quiet
  /\ scheduled
  /\ scheduled' = FALSE
  /\ \/ setting.proactive = "greeting" /\ Spawn(FrameAt("proactive", {}, {})) /\ SpeakText
     \/ setting.proactive = "opener" /\ Spawn(FrameAt("openerLlm", {}, {})) /\ UNCHANGED <<speaking, cancelTts>>
  /\ UNCHANGED <<processing, audio, said, running, setting>>

OpenerWritten(t) ==
  /\ At(t, {"openerLlm"})
  /\ \/ Goto(t, "proactive") /\ SpeakText
     \/ Return(t) /\ UNCHANGED <<speaking, cancelTts>>
  /\ UNCHANGED <<processing, audio, said, scheduled, running, setting>>

TextSpoken(t) ==
  /\ At(t, {"proactive"})
  /\ speaking' = FALSE
  /\ Goto(t, "drain")
  /\ UNCHANGED <<processing, cancelTts, audio, said, scheduled, running, setting>>

\* There is no try around the loop.
TextFails(t) ==
  /\ "tts" \in Faults
  /\ At(t, {"proactive"})
  /\ Return(t)
  /\ UNCHANGED <<flags, audio, said, scheduled, running, setting>>

----------------------------------------------------------------------------

Awaited(t) ==
  \/ SessionEnded(t) \/ SessionFailed(t)
  \/ Transcribed(t) \/ AsrFailed(t)
  \/ FloorAnswered(t)
  \/ LlmAnswered(t)
  \/ ReplyOver(t)
  \/ EndTurnDone(t)
  \/ PersonaPlexOver(t) \/ PersonaPlexFails(t) \/ Released(t)
  \/ OpenerWritten(t) \/ TextSpoken(t) \/ TextFails(t)

TaskStep(t) == Unwind(t) \/ (Quiet /\ Awaited(t))

Next ==
  \/ UserSpeaks \/ UserGoesOn \/ EndOfTurn \/ PredictedEnd
  \/ TimerFires
  \/ \E t \in Task : TaskStep(t)

Spec == Init /\ [][Next]_vars

\* What is awaited comes.  The code sees to that for the ASR and llm.chat, with
\* timeouts; that the LLM's stream, TTS (orchestrator.ts:538, 549, 657, 754) and
\* the calls to the coordinator end is assumed of the services.  And the room
\* keeps sending frames, so that VAD sees the silence after speech.
Fairness == WF_vars(EndOfTurn) /\ \A t \in Task : WF_vars(TaskStep(t))

FairSpec == Spec /\ Fairness

----------------------------------------------------------------------------
(* Properties                                                              *)

Speaks(t) == At(t, Voices)

\* Where nothing gets past the flags: no streaming sessions, no greeting or opener.
BatchTurnsOnly == setting.adapter = {} /\ setting.proactive = "none"

\* A batch turn that is under way is covered by one of the two flags, so that
\* new speech is dropped or queued and never starts a second turn next to it.
\* (With a coordinator the flags fall before end-turn has returned.)
TurnsAreCovered ==
  BatchTurnsOnly /\ ~Coordinated /\ Quiet => \A t \in Task :
    At(t, {"asr", "llm"} \cup Voices) => processing \/ speaking

\* "Only one agent produces a reply per turn; the others skip"
\* (docs/MULTI_AGENT_PHASE1.md:8): with a coordinator, what answers the user is
\* spoken in a turn that was granted, by PersonaPlex, by the pipeline it fell back
\* to, or as the apology after a queued turn threw.  Greeting and opener answer nobody.
RepliesAreGranted ==
  Coordinated => \A t \in Task : At(t, Voices \ {"proactive"}) => Top(t).granted

\* One process speaks with one voice: with batch turns, however many are queued,
\* barged into or handed over, no two replies are spoken at a time.
OneVoice == BatchTurnsOnly => \A t, u \in Task : Speaks(t) /\ Speaks(u) => t = u

\* "Barge-in: if user speech is detected while bot is speaking, cancel TTS
\* immediately" (orchestrator.ts:205): speech the user spoke into stays
\* cancelled until its loop has seen it, whatever other turns do meanwhile.
BargedStaysCancelled ==
  BatchTurnsOnly => \A t \in Task : Speaks(t) /\ Top(t).barged => cancelTts

\* Somebody transcribes utterance u, or did.
Transcribing(u) ==
  \E p \in Frames : FrameOf(p).pc = "asr" /\ u \in FrameOf(p).seg

\* "If the user speaks while the bot is speaking, the segment is queued and
\* processed after the bot finishes (or cancels)"
\* (docs/FOLLOW_UP_ISSUES_AND_FACTORS.md:34).
QueuedIsProcessed ==
  \A u \in Utterance : u \in pendingSegment ~> Transcribing(u)

\* The agent does not stay deaf: whatever fails, a turn stops processing.
ProcessingEnds == processing ~> ~processing

\* Nor does it wait for itself: when replies are not empty and greetings do not
\* fail, speech ends, and a queued segment is taken up, replaced, or gone with
\* the process.
SpeakingEnds ==
  Faults \cap {"emptyReply", "tts"} = {} =>
    /\ speaking ~> ~speaking
    /\ pendingSegment # {} ~> pendingSegment = {}
============================================================================
