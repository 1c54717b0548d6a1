------------------------- MODULE RoomSessionProofs -------------------------
(***************************************************************************)
(* The bot in its room.  First the joined bot: the speaking controller's   *)
(* reference count is right and Podium shows the bot as speaking exactly   *)
(* when its audio passes, for any set of utterances and however main.ts    *)
(* calls the controller.  Then the whole life of the process: it is where  *)
(* Podium, the launcher and voices-kill believe it to be, and the same     *)
(* holds of the controller.                                                *)
(***************************************************************************)
EXTENDS RoomSession, FiniteSetTheorems, TLAPS

----------------------------------------------------------------------------
(* The speaking controller of the joined bot                               *)

\* The inductive invariant: the types, the count, and what the room shows in
\* terms of the count; nothing is allowed once the bot is muted.
CInv ==
  /\ ControllerTypeOK
  /\ CountIsAllowed
  /\ wsOpen => (roomShows <=> activeAllowedCount > 0)
  /\ forceMuted => Allowed = {}

\* The set of allowed utterances is finite and its size zero only if it is empty.
LEMMA AllowedFinite ==
  IsFiniteSet(Allowed) /\ Cardinality(Allowed) \in Nat /\ (Cardinality(Allowed) = 0 <=> Allowed = {})
<1>1. IsFiniteSet(Allowed)
  BY UtteranceAssumption, FS_Subset DEF Allowed
<1> QED
  BY <1>1, FS_CardinalityType, FS_EmptySet

\* The map and the count start empty.
LEMMA ControllerInitCInv == ControllerInit => CInv
<1> SUFFICES ASSUME ControllerInit PROVE CInv
  OBVIOUS
<1>1. Allowed = {}
  BY DEF ControllerInit, Allowed
<1>2. CountIsAllowed
  BY <1>1, AllowedFinite DEF ControllerInit, CountIsAllowed
<1>3. ControllerTypeOK
  BY DEF ControllerInit, ControllerTypeOK
<1>4. ~roomShows /\ ~(activeAllowedCount > 0)
  BY DEF ControllerInit
<1> QED
  BY <1>1, <1>2, <1>3, <1>4 DEF CInv

\* begin keeps the invariant, whatever canSpeakNow says.
LEMMA BeginKeepsCInv ==
  ASSUME CInv, NEW u \in Utterance, NEW mayStart \in BOOLEAN, Begin(u, mayStart)
  PROVE  CInv'
<1> USE DEF CInv, ControllerTypeOK
<1>1. CASE utterances[u] # "none"
  BY <1>1 DEF Begin, CountIsAllowed, Allowed
<1>2. CASE utterances[u] = "none" /\ BeginRefused(u, mayStart)
  <2>1. Allowed' = Allowed
    BY <1>2 DEF BeginRefused, Allowed
  <2> QED
    BY <1>2, <2>1 DEF Begin, BeginRefused, CountIsAllowed
<1>3. CASE utterances[u] = "none" /\ BeginAllowed(u, mayStart)
  <2>1. Allowed' = Allowed \cup {u} /\ u \notin Allowed
    BY <1>3 DEF BeginAllowed, Allowed
  <2>2. Cardinality(Allowed') = Cardinality(Allowed) + 1
    BY <2>1, AllowedFinite, FS_AddElement
  <2> QED
    BY <1>3, <2>1, <2>2 DEF Begin, BeginAllowed, StartSpeaking, CountIsAllowed
<1> QED
  BY <1>1, <1>2, <1>3 DEF Begin

\* end keeps it, also for an utterance that was cancelled or denied.
LEMMA EndKeepsCInv ==
  ASSUME CInv, NEW u \in Utterance, End(u)
  PROVE  CInv'
<1> USE DEF CInv, ControllerTypeOK
<1>1. CASE EndAllowed(u)
  <2>1. u \in Allowed /\ Allowed' = Allowed \ {u}
    BY <1>1 DEF End, EndAllowed, Allowed
  <2>2. Cardinality(Allowed') = Cardinality(Allowed) - 1
    BY <2>1, AllowedFinite, FS_RemoveElement
  <2>3. activeAllowedCount > 0
    BY <2>1, AllowedFinite DEF CountIsAllowed
  <2> QED
    BY <1>1, <2>1, <2>2, <2>3, AllowedFinite DEF End, EndAllowed, StopSpeaking, CountIsAllowed
<1>2. CASE utterances[u] # "allowed"
  <2>1. Allowed' = Allowed
    BY <1>2 DEF End, Allowed
  <2> QED
    BY <1>2, <2>1 DEF End, EndAllowed, CountIsAllowed
<1> QED
  BY <1>1, <1>2 DEF End

\* What forceMute and cancelAll have in common empties the map and the count.
LEMMA ClearKeepsCInv ==
  ASSUME CInv, Clear, UNCHANGED wsOpen, forceMuted' \in BOOLEAN
  PROVE  CInv'
<1> USE DEF CInv, ControllerTypeOK
<1>1. Allowed' = {}
  BY DEF Clear, Allowed
<1> QED
  BY <1>1, FS_EmptySet DEF Clear, StopSpeaking, CountIsAllowed

\* Every call of the controller keeps the invariant.
LEMMA ControllerKeepsCInv ==
  ASSUME CInv, [ControllerNext]_scVars
  PROVE  CInv'
<1>1. CASE \E u \in Utterance, mayStart \in BOOLEAN : Begin(u, mayStart)
  BY <1>1, BeginKeepsCInv
<1>2. CASE \E u \in Utterance : End(u)
  BY <1>2, EndKeepsCInv
<1>3. CASE ForceMute
  <2>1. CASE forceMuted
    BY <1>3, <2>1 DEF ForceMute, CInv, ControllerTypeOK, CountIsAllowed, Allowed
  <2>2. CASE ~forceMuted
    BY <1>3, <2>2, ClearKeepsCInv DEF ForceMute
  <2> QED
    BY <2>1, <2>2 DEF CInv, ControllerTypeOK
<1>4. CASE CancelAll
  BY <1>4, ClearKeepsCInv DEF CancelAll, CInv, ControllerTypeOK
<1>5. CASE WsCloses
  BY <1>5 DEF WsCloses, controllerVars, CInv, ControllerTypeOK, CountIsAllowed, Allowed
<1>6. CASE UNCHANGED scVars
  BY <1>6 DEF scVars, controllerVars, CInv, ControllerTypeOK, CountIsAllowed, Allowed
<1> QED
  BY <1>1, <1>2, <1>3, <1>4, <1>5, <1>6 DEF ControllerNext

\* main.ts only calls the controller, or leaves it alone.
LEMMA PresenceCallsController == [Next]_vars => [ControllerNext]_scVars
<1> SUFFICES ASSUME [Next]_vars PROVE [ControllerNext]_scVars
  OBVIOUS
<1>1. CASE TimeChanges \/ SnapshotAnswered \/ GoLive
  BY <1>1 DEF TimeChanges, SnapshotAnswered, GoLive
<1>2. CASE ConnectionLost
  BY <1>2 DEF ConnectionLost, ControllerNext
<1>3. CASE WSMessage
  BY <1>3 DEF WSMessage, ControllerNext
<1>4. ASSUME NEW u \in Utterance, OnTtsStart(u) PROVE [ControllerNext]_scVars
  <2>1. CanSpeakNow \in BOOLEAN
    BY DEF CanSpeakNow
  <2> QED
    BY <1>4, <2>1 DEF OnTtsStart, ControllerNext
<1>5. ASSUME NEW u \in Utterance, OnTtsEnd(u) PROVE [ControllerNext]_scVars
  BY <1>5 DEF OnTtsEnd, ControllerNext
<1>6. ASSUME NEW u \in Utterance, TtsFails(u) PROVE [ControllerNext]_scVars
  BY <1>6 DEF TtsFails
<1>7. CASE OnBargeIn
  BY <1>7 DEF OnBargeIn, ControllerNext
<1>8. CASE UNCHANGED vars
  BY <1>8 DEF vars
<1> QED
  BY <1>1, <1>2, <1>3, <1>4, <1>5, <1>6, <1>7, <1>8 DEF Next

\* The room sees what is played, once the count is right.
LEMMA CInvShows == CInv => RoomShowsWhatPlays
<1> SUFFICES ASSUME CInv, wsOpen PROVE roomShows <=> \E u \in Utterance : ShouldPlay(u)
  BY DEF RoomShowsWhatPlays
<1>1. roomShows <=> Allowed # {}
  BY AllowedFinite DEF CInv, CountIsAllowed, ControllerTypeOK
<1> QED
  BY <1>1 DEF ShouldPlay, Allowed, CInv

----------------------------------------------------------------------------
(* The callers: what the controller allows belongs to a voice.             *)

\* The second inductive invariant: an utterance that is allowed has begun, and
\* has not ended unless its end was never told; before the controller exists
\* none is allowed.
VInv ==
  /\ tts \in [Utterance -> {"new", "on", "over", "failed"}]
  /\ \A u \in Utterance : utterances[u] = "allowed" => Live /\ tts[u] \in {"on", "failed"}

\* At the start nothing is allowed.
LEMMA InitVInv == Init => VInv
  BY DEF Init, ControllerInit, VInv

\* The callbacks and messages keep it: only onTtsStart allows an utterance, and
\* onTtsEnd takes its entry away.
LEMMA PresenceKeepsVInv ==
  ASSUME CInv, VInv, [Next]_vars
  PROVE  VInv'
<1> USE DEF VInv, CInv, ControllerTypeOK, Live
<1>1. CASE TimeChanges \/ ConnectionLost
  BY <1>1 DEF TimeChanges, ConnectionLost, WsCloses, scVars, controllerVars, bootVars
<1>2. CASE SnapshotAnswered \/ GoLive
  BY <1>2 DEF SnapshotAnswered, GoLive, scVars, controllerVars
<1>3. CASE WSMessage
  BY <1>3 DEF WSMessage, ForceMute, Clear, scVars, controllerVars, bootVars
<1>4. ASSUME NEW u \in Utterance, OnTtsStart(u) PROVE VInv'
  <2>1. \A v \in Utterance \ {u} : tts'[v] = tts[v] /\ utterances'[v] = utterances[v]
    BY <1>4 DEF OnTtsStart, Begin, BeginRefused, BeginAllowed, scVars, controllerVars
  <2>2. tts' \in [Utterance -> {"new", "on", "over", "failed"}] /\ tts'[u] = "on" /\ phase' = phase
    BY <1>4 DEF OnTtsStart, bootVars
  <2>3. utterances'[u] = "allowed" => Live
    BY <1>4 DEF OnTtsStart, scVars, controllerVars
  <2> QED
    BY <2>1, <2>2, <2>3
<1>5. ASSUME NEW u \in Utterance, OnTtsEnd(u) PROVE VInv'
  <2>1. \A v \in Utterance \ {u} : tts'[v] = tts[v] /\ utterances'[v] = utterances[v]
    BY <1>5 DEF OnTtsEnd, End, scVars, controllerVars
  <2>2. tts' \in [Utterance -> {"new", "on", "over", "failed"}] /\ phase' = phase
    BY <1>5 DEF OnTtsEnd, bootVars
  <2>3. utterances'[u] # "allowed"
    BY <1>5 DEF OnTtsEnd, End, scVars, controllerVars
  <2> QED
    BY <2>1, <2>2, <2>3
<1>6. ASSUME NEW u \in Utterance, TtsFails(u) PROVE VInv'
  BY <1>6 DEF TtsFails, scVars, controllerVars, bootVars
<1>7. CASE OnBargeIn
  BY <1>7 DEF OnBargeIn, CancelAll, Clear, scVars, controllerVars, bootVars
<1>8. CASE UNCHANGED vars
  BY <1>8 DEF vars, scVars, controllerVars, bootVars
<1> QED
  BY <1>1, <1>2, <1>3, <1>4, <1>5, <1>6, <1>7, <1>8 DEF Next

\* What the room shows is then a voice, or one whose TTS failed.
LEMMA VInvShows == CInv /\ VInv => ShownSpeechIsReal
<1> SUFFICES ASSUME CInv, VInv, wsOpen, roomShows
             PROVE  \E u \in Utterance : Audible(u) \/ tts[u] = "failed"
  BY DEF ShownSpeechIsReal
<1>1. PICK u \in Utterance : ShouldPlay(u)
  BY CInvShows DEF RoomShowsWhatPlays
<1> QED
  BY <1>1 DEF VInv, ShouldPlay, Audible

\* Both invariants hold of the joined bot.
LEMMA PresenceInvariance == Spec => [](CInv /\ VInv)
<1>1. Init => CInv /\ VInv
  BY ControllerInitCInv, InitVInv DEF Init
<1>2. CInv /\ VInv /\ [Next]_vars => CInv' /\ VInv'
  BY ControllerKeepsCInv, PresenceCallsController, PresenceKeepsVInv
<1> QED
  BY <1>1, <1>2, PTL DEF Spec

\* The count agrees with the map and the room with the audio that passes, for
\* any finite set of utterances, also when the pipeline never ends one.
THEOREM ControllerCorrect == Spec => [](CountIsAllowed /\ RoomShowsWhatPlays)
<1>1. CInv => CountIsAllowed /\ RoomShowsWhatPlays
  BY CInvShows DEF CInv
<1> QED
  BY <1>1, PresenceInvariance, PTL

----------------------------------------------------------------------------
(* The life of the process                                                 *)

\* Before JOIN is sent; after the bot's own user.joined.
BeforeJoin == {"profile", "outpost", "connect", "member"}
AfterOwn == {"creator", "jitsi", "main"}

HasOwn(q) == \E i \in 1 .. Len(q) : q[i] = "own"
NoneAtApi == \A s \in Signal : leaving[s] \in {"none", "jitsi"}

\* The inductive invariant.  That who goes on is in the room needs that the
\* bot's own user.joined, while under way, is true; and that needs that none is
\* under way before JOIN is sent, also after the process has ended.
SInv ==
  /\ leaving \in [Signal -> {"none", "jitsi", "api"}]
  /\ joinEvents \in Seq({"own", "other"})
  /\ stage \in BeforeJoin => joinEvents = <<>> /\ (wsOpen => room = "out")
  /\ (stage \in AfterOwn \/ HasOwn(joinEvents)) /\ NoneAtApi => room = "in"
  /\ exit # "none" => proc = "gone"
  /\ CleanExitHasLeft
  /\ PidFileOutlivesBot

LEMMA InitSInv == SessionInit => SInv
  BY DEF SessionInit, Init, ControllerInit, SInv, HasOwn, AfterOwn, CleanExitHasLeft, PidFileOutlivesBot

LEMMA SInvSafe == SInv => JoinedIsInRoom /\ CleanExitHasLeft /\ PidFileOutlivesBot
  BY DEF SInv, JoinedIsInRoom, AfterOwn, NoneAtApi

\* An exit that leaves the room alone, or takes the bot out of it.
LEMMA ExitKeepsSInv ==
  ASSUME SInv, NEW how, Exit(how),
         room' = "out" \/ (UNCHANGED room /\ how # "clean")
  PROVE  SInv'
<1>1. ~HasOwn(joinEvents')
  BY DEF Exit, HasOwn
<1> QED
  BY <1>1 DEF SInv, Exit, BeforeJoin, AfterOwn, CleanExitHasLeft, PidFileOutlivesBot

\* join() before JOIN is sent.
LEMMA EarlyJoinKeepsSInv ==
  ASSUME SInv, ProfileAnswered \/ OutpostAnswered \/ Connected \/ MemberAdded
  PROVE  SInv'
<1>1. stage \in BeforeJoin /\ joinEvents = <<>> /\ joinEvents' = <<>> /\ leaving' = leaving
  BY DEF SInv, BeforeJoin, ProfileAnswered, OutpostAnswered, Connected, MemberAdded, Awaits, Proceed,
         procVars
<1>2. ~HasOwn(joinEvents') /\ stage' \notin AfterOwn
  BY <1>1 DEF HasOwn, AfterOwn, ProfileAnswered, OutpostAnswered, Connected, MemberAdded, Proceed
<1>3. stage' \in BeforeJoin => UNCHANGED room /\ wsOpen' = wsOpen
  BY DEF BeforeJoin, ProfileAnswered, OutpostAnswered, Connected, MemberAdded, Proceed, vars, scVars
<1>4. UNCHANGED <<exit, proc, pidFile>> /\ proc = "up"
  BY DEF ProfileAnswered, OutpostAnswered, Connected, MemberAdded, Awaits, Proceed, procVars, toolVars
<1> QED
  BY <1>1, <1>2, <1>3, <1>4 DEF SInv, CleanExitHasLeft, PidFileOutlivesBot

\* The handler of joinOutpost goes on with the bot's own message only.
LEMMA JoinEventKeepsSInv ==
  ASSUME SInv, JoinEvent
  PROVE  SInv'
<1>1. /\ joinEvents # <<>> /\ joinEvents' = Tail(joinEvents) /\ joinEvents \in Seq({"own", "other"})
      /\ UNCHANGED <<vars, room, procVars, toolVars>>
  BY DEF JoinEvent, SInv
<1>2. joinEvents' \in Seq({"own", "other"})
  BY <1>1
<1>3. HasOwn(joinEvents') => HasOwn(joinEvents)
  <2> SUFFICES ASSUME NEW i \in 1 .. Len(joinEvents'), joinEvents'[i] = "own" PROVE HasOwn(joinEvents)
    BY DEF HasOwn
  <2>1. i + 1 \in 1 .. Len(joinEvents) /\ joinEvents[i + 1] = "own"
    BY <1>1
  <2> QED
    BY <2>1 DEF HasOwn
<1>4. stage \notin BeforeJoin
  BY <1>1 DEF SInv
<1>5. stage' \in AfterOwn => stage \in AfterOwn \/ HasOwn(joinEvents)
  <2>1. CASE stage = "join" /\ Head(joinEvents) = "own"
    <3>1. 1 \in 1 .. Len(joinEvents) /\ joinEvents[1] = "own"
      BY <1>1, <2>1
    <3> QED
      BY <3>1 DEF HasOwn
  <2>2. CASE ~(stage = "join" /\ Head(joinEvents) = "own")
    BY <2>2 DEF JoinEvent, HandleJoinEvent
  <2> QED
    BY <2>1, <2>2
<1>6. stage' \notin BeforeJoin
  BY <1>4 DEF JoinEvent, HandleJoinEvent, Resolve, AfterJoin, BeforeJoin
<1> QED
  BY <1>1, <1>2, <1>3, <1>5, <1>6
     DEF SInv, NoneAtApi, procVars, toolVars, CleanExitHasLeft, PidFileOutlivesBot

\* The rest of join() and what the server does meanwhile.
LEMMA LateJoinKeepsSInv ==
  ASSUME SInv,
         CreatorAnswered \/ JitsiStarted \/ ServerJoins \/ OtherJoins \/ SessionConnectionLost
  PROVE  SInv'
<1> USE DEF SInv, BeforeJoin, AfterOwn, NoneAtApi, CleanExitHasLeft, PidFileOutlivesBot
<1>1. CASE CreatorAnswered \/ JitsiStarted
  BY <1>1 DEF CreatorAnswered, JitsiStarted, Awaits, Proceed, procVars, toolVars, HasOwn
<1>2. CASE ServerJoins
  <2>1. stage \notin BeforeJoin /\ room # "out"
    BY <1>2 DEF ServerJoins
  <2>2. joinEvents' \in Seq({"own", "other"})
    BY <1>2 DEF ServerJoins
  <2> QED
    BY <1>2, <2>1, <2>2 DEF ServerJoins, procVars, toolVars
<1>3. CASE OtherJoins
  <2>1. joinEvents' \in Seq({"own", "other"}) /\ stage = "join"
    BY <1>3 DEF OtherJoins, Awaits
  <2>2. HasOwn(joinEvents') => HasOwn(joinEvents)
    <3> SUFFICES ASSUME NEW i \in 1 .. Len(joinEvents'), joinEvents'[i] = "own"
                 PROVE  HasOwn(joinEvents)
      BY DEF HasOwn
    <3>1. i \in 1 .. Len(joinEvents) /\ joinEvents[i] = "own"
      BY <1>3 DEF OtherJoins
    <3> QED
      BY <3>1 DEF HasOwn
  <2> QED
    BY <1>3, <2>1, <2>2 DEF OtherJoins, procVars, toolVars
<1>4. CASE SessionConnectionLost
  <2>1. ~HasOwn(joinEvents') /\ joinEvents' = <<>> /\ wsOpen' = FALSE
    BY <1>4 DEF SessionConnectionLost, ConnectionLost, WsCloses, HasOwn
  <2> QED
    BY <1>4, <2>1 DEF SessionConnectionLost, procVars, toolVars
<1> QED
  BY <1>1, <1>2, <1>3, <1>4

\* A SIGINT, whoever sends it.
LEMMA InterruptKeepsSInv ==
  ASSUME SInv, NEW s \in Signal, Interrupt(s), ~pidFile' => ~pidFile
  PROVE  SInv'
<1>1. CASE Exit("signal") /\ UNCHANGED room
  BY <1>1, ExitKeepsSInv
<1>2. CASE InterruptHandled(s) /\ UNCHANGED room /\ proc = "up"
  <2>1. leaving' \in [Signal -> {"none", "jitsi", "api"}] /\ (NoneAtApi' => NoneAtApi)
    BY <1>2 DEF InterruptHandled, SInv, NoneAtApi, Interrupt
  <2> QED
    BY <1>2, <2>1
       DEF InterruptHandled, SInv, joinVars, vars, scVars, CleanExitHasLeft, PidFileOutlivesBot
<1>3. CASE UNCHANGED <<vars, joinVars, procVars, room>>
  BY <1>3 DEF SInv, vars, scVars, joinVars, procVars, NoneAtApi, CleanExitHasLeft, PidFileOutlivesBot
<1> QED
  BY <1>1, <1>2, <1>3 DEF Interrupt

\* leave().
LEMMA LeaveKeepsSInv ==
  ASSUME SInv, NEW s \in Signal, LeaveJitsi(s) \/ LeaveAnswered(s) \/ LeaveRefused(s)
  PROVE  SInv'
<1>1. CASE LeaveJitsi(s)
  <2>1. leaving' \in [Signal -> {"none", "jitsi", "api"}] /\ ~NoneAtApi'
    BY <1>1 DEF LeaveJitsi, SInv, NoneAtApi
  <2>2. exit = "none" /\ proc = "up" /\ pidFile
    BY <1>1 DEF LeaveJitsi, SInv, PidFileOutlivesBot
  <2> QED
    BY <1>1, <2>1, <2>2
       DEF LeaveJitsi, SInv, joinVars, toolVars, vars, scVars, CleanExitHasLeft, PidFileOutlivesBot
<1>2. CASE LeaveAnswered(s)
  BY <1>2, ExitKeepsSInv DEF LeaveAnswered, toolVars
<1>3. CASE LeaveRefused(s)
  BY <1>3, ExitKeepsSInv DEF LeaveRefused, toolVars
<1> QED
  BY <1>1, <1>2, <1>3

\* The launcher and voices-kill unlink the PID file of a process that is gone.
LEMMA ToolsKeepSInv ==
  ASSUME SInv, CtrlC \/ LauncherExits \/ ChildExit \/ KillerFinds \/ KillerStep \/ Dies
  PROVE  SInv'
<1> USE DEF toolVars
<1>1. CASE CtrlC \/ LauncherExits
  BY <1>1, InterruptKeepsSInv DEF CtrlC, LauncherExits, Signal
<1>2. CASE KillerInterrupts
  BY <1>2, InterruptKeepsSInv DEF KillerInterrupts, Kill, Signal, SInv, PidFileOutlivesBot
<1>3. CASE ChildExit \/ KillerFinds \/ KillerChecks \/ KillerLooks
  <2>1. UNCHANGED <<vars, joinVars, room, procVars>> /\ (~pidFile' => ~pidFile \/ proc = "gone")
    BY <1>3 DEF ChildExit, KillerFinds, KillerChecks, KillerLooks, Kill, UnlinkAfterKill
  <2> QED
    BY <2>1 DEF SInv, vars, scVars, joinVars, procVars, NoneAtApi, CleanExitHasLeft, PidFileOutlivesBot
<1>4. CASE KillerKills
  <2>1. /\ UNCHANGED <<vars, joinVars, room, leaving, exit>>
        /\ proc' = proc \/ proc = "up"
        /\ ~pidFile' => ~pidFile
    BY <1>4 DEF KillerKills, Kill
  <2>2. (exit' # "none" => proc' = "gone") /\ (~pidFile' => proc' = "gone")
    BY <2>1 DEF SInv, PidFileOutlivesBot
  <2> QED
    BY <2>1, <2>2 DEF SInv, vars, scVars, joinVars, NoneAtApi, CleanExitHasLeft, PidFileOutlivesBot
<1>5. CASE Dies
  BY <1>5, ExitKeepsSInv DEF Dies
<1> QED
  BY <1>1, <1>2, <1>3, <1>4, <1>5 DEF KillerStep

\* The joined bot's own business does not touch the session but for the loss of
\* its connection.
LEMMA PresenceKeepsSInv ==
  ASSUME SInv, PresenceStep
  PROVE  SInv'
  BY DEF PresenceStep, SInv, BeforeJoin, joinVars, procVars, toolVars, NoneAtApi, CleanExitHasLeft,
         PidFileOutlivesBot

LEMMA StepKeepsSInv == SInv /\ [SessionNext]_sessionVars => SInv'
<1> SUFFICES ASSUME SInv, [SessionNext]_sessionVars PROVE SInv'
  OBVIOUS
<1>1. CASE JoinStep
  BY <1>1, EarlyJoinKeepsSInv, JoinEventKeepsSInv, LateJoinKeepsSInv DEF JoinStep
<1>2. CASE JoinFails \/ JoinTimesOut
  BY <1>2, ExitKeepsSInv DEF JoinFails, JoinTimesOut, toolVars
<1>3. CASE ServerJoins \/ OtherJoins \/ SessionConnectionLost
  BY <1>3, LateJoinKeepsSInv
<1>4. CASE \E s \in Signal : LeaveJitsi(s) \/ LeaveAnswered(s) \/ LeaveRefused(s)
  BY <1>4, LeaveKeepsSInv
<1>5. CASE CtrlC \/ LauncherExits \/ ChildExit \/ KillerFinds \/ KillerStep \/ Dies
  BY <1>5, ToolsKeepSInv
<1>6. CASE PresenceStep
  BY <1>6, PresenceKeepsSInv
<1>7. CASE UNCHANGED sessionVars
  BY <1>7 DEF sessionVars, SInv, vars, scVars, joinVars, procVars, toolVars, NoneAtApi,
              CleanExitHasLeft, PidFileOutlivesBot
<1> QED
  BY <1>1, <1>2, <1>3, <1>4, <1>5, <1>6, <1>7 DEF SessionNext

\* A bot that goes on after join() is in the room until its own leave(),
\* whoever else joins or leaves meanwhile (ws.ts).
THEOREM JoinSafety == SessionSpec => []JoinedIsInRoom
  BY InitSInv, StepKeepsSInv, SInvSafe, PTL DEF SessionSpec

\* A process that ends with success has left the outpost, however many signals
\* came while leave() was under way (main.ts, client.ts).
THEOREM ExitSafety == SessionSpec => []CleanExitHasLeft
  BY InitSInv, StepKeepsSInv, SInvSafe, PTL DEF SessionSpec

\* The PID file outlives the process, whichever of the launcher, voices-kill and
\* the bot itself ends it (voices-kill.js, run-multi-agent.js).
THEOREM PidFileSafety == SessionSpec => []PidFileOutlivesBot
  BY InitSInv, StepKeepsSInv, SInvSafe, PTL DEF SessionSpec

----------------------------------------------------------------------------

\* To the presence of the bot a step of the session is one of its own steps,
\* the end of the process, or nothing.
LEMMA SessionUsesPresence == [SessionNext]_sessionVars => (\E how : Exit(how)) \/ [Next]_vars
<1> SUFFICES ASSUME [SessionNext]_sessionVars PROVE (\E how : Exit(how)) \/ [Next]_vars
  OBVIOUS
<1>1. CASE JoinStep \/ JoinFails \/ JoinTimesOut
  BY <1>1 DEF JoinStep, ProfileAnswered, OutpostAnswered, Connected, MemberAdded, JoinEvent,
              CreatorAnswered, JitsiStarted, Proceed, JoinFails, JoinTimesOut
<1>2. CASE ServerJoins \/ OtherJoins \/ SessionConnectionLost
  BY <1>2 DEF ServerJoins, OtherJoins, SessionConnectionLost, Next
<1>3. CASE \E s \in Signal : LeaveJitsi(s) \/ LeaveAnswered(s) \/ LeaveRefused(s)
  BY <1>3 DEF LeaveJitsi, LeaveAnswered, LeaveRefused
<1>4. CASE CtrlC \/ LauncherExits \/ ChildExit \/ KillerFinds \/ KillerStep \/ Dies
  BY <1>4 DEF CtrlC, LauncherExits, ChildExit, KillerFinds, KillerStep, Dies, KillerInterrupts,
              KillerChecks, KillerKills, KillerLooks, Interrupt, InterruptHandled
<1>5. CASE PresenceStep
  BY <1>5 DEF PresenceStep
<1>6. CASE UNCHANGED sessionVars
  BY <1>6 DEF sessionVars
<1> QED
  BY <1>1, <1>2, <1>3, <1>4, <1>5, <1>6 DEF SessionNext

\* The end of the process empties the controller and forgets the utterances;
\* every other step keeps the invariants as the joined bot does.
LEMMA SessionKeepsPresence == CInv /\ VInv /\ [SessionNext]_sessionVars => CInv' /\ VInv'
<1> SUFFICES ASSUME CInv, VInv, [SessionNext]_sessionVars PROVE CInv' /\ VInv'
  OBVIOUS
<1>1. CASE \E how : Exit(how)
  <2>1. Allowed' = {} /\ activeAllowedCount' = 0 /\ wsOpen' = FALSE
    BY <1>1 DEF Exit, Allowed
  <2>2. CInv'
    BY <1>1, <2>1, FS_EmptySet DEF Exit, CInv, ControllerTypeOK, CountIsAllowed
  <2>3. VInv'
    BY <1>1 DEF Exit, VInv
  <2> QED
    BY <2>2, <2>3
<1>2. CASE [Next]_vars
  BY <1>2, ControllerKeepsCInv, PresenceCallsController, PresenceKeepsVInv
<1> QED
  BY <1>1, <1>2, SessionUsesPresence

\* Both invariants hold from the launch of the bot to its end.
LEMMA SessionPresence == SessionSpec => [](CInv /\ VInv)
<1>1. SessionInit => CInv /\ VInv
  BY ControllerInitCInv, InitVInv DEF SessionInit, Init
<1> QED
  BY <1>1, SessionKeepsPresence, PTL DEF SessionSpec

\* While the WebSocket is open, Podium shows the bot as speaking exactly when the
\* controller lets some utterance pass.  That says nothing of the audio before
\* there is a controller (main.ts:120, 138), which passes unasked: of it, Podium
\* is never shown anything, from the launch of the bot until its join is over.
THEOREM SessionShowsWhatPlays ==
  SessionSpec => [](RoomShowsWhatPlays /\ (wsOpen /\ roomShows => Live))
<1>1. CInv /\ VInv => (wsOpen /\ roomShows => Live)
  <2> SUFFICES ASSUME CInv, VInv, wsOpen, roomShows PROVE Live
    OBVIOUS
  <2>1. PICK u \in Utterance : ShouldPlay(u)
    BY CInvShows DEF RoomShowsWhatPlays
  <2> QED
    BY <2>1 DEF VInv, ShouldPlay
<1> QED
  BY <1>1, SessionPresence, CInvShows, PTL

\* While Podium shows the bot as speaking some reply or greeting is going on,
\* or its TTS has failed: barge-ins, overlaps and a muting in between leave no
\* utterance behind in the controller (main.ts).
THEOREM SessionShowsRealSpeech == SessionSpec => []ShownSpeechIsReal
  BY SessionPresence, VInvShows, PTL
============================================================================
