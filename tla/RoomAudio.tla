----------------------------- MODULE RoomAudio -----------------------------
(***************************************************************************)
(* The room's audio on its way to the bot: the page's selection of tracks  *)
(* (TrackSelection) and the contract by which the bot judges it            *)
(* (ReceiveContract).  The bridge's WebSocket keeps messages in order and  *)
(* a probe is handled before the next poll.                                *)
(***************************************************************************)
EXTENDS TrackSelection, ReceiveContract

\* Ages up to the grace are told apart.
ASSUME GraceAssumption == \A g \in Graces : g <= MaxAge

roomVars == <<rxVars, contractVars>>

RoomInit == PageInit /\ ContractInit

\* A binding made by addRemoteTrackToMixer is reported as remote_track_added.
Reports == IF mixed' \ mixed # {} THEN RemoteTrackAdded ELSE UNCHANGED contractVars

PollAndProbe ==
  \E delay \in 0 .. setting.late, loud \in SUBSET Audible :
    /\ Poll(delay, loud)
    /\ IF unprobed' = 0 THEN \E room \in TruthProbes : HandleTruthProbe(room, age')
       ELSE UNCHANGED contractVars

RoomNext ==
  \/ RoomStep /\ UNCHANGED contractVars
  \/ TimerStep /\ Reports
  \/ PollAndProbe

RoomSpec == RoomInit /\ [][RoomNext]_roomVars

RoomFairness ==
  /\ WF_roomVars(PollAndProbe)
  /\ WF_roomVars(AttachExisting /\ Reports)
  /\ \A t \in Track : WF_roomVars(AddTimer(t) /\ Reports)

FairRoomSpec == RoomSpec /\ RoomFairness

----------------------------------------------------------------------------
(* Properties *)

\* Whatever is added, renegotiated, rebound or fails half-way: each source in
\* the mixer is that of its participant's binding, so that nothing that
\* was taken away plays on.
MixerMatchesBindings ==
  \A s \in mixed : s = SourceOf(s.participant, bindings[s.participant])

\* If from some time on one participant's track alone receives audio, it ends
\* up in the mixer through its receiver and stays there, whatever was bound,
\* selected or failed before.
Alone(t) ==
  phase = "joined" /\ listed = {t} /\ flowing = {t} /\ received = {t}
Heard(t) == \E s \in mixed : s.bound = t /\ s.via = "receiver" /\ s.participant = owner[t]
FlowingTrackIsHeard == \A t \in Track : <>[]Alone(t) => <>[]Heard(t)

\* Where RTP arrives but the mixer stays silent, a wrong track or faulty wiring,
\* the receive contract fails in the end and stays failed
\* (jitsi-browser-bot.ts:612).
SilenceIsDetected ==
  (setting.muted /\ <>[](phase = "joined" /\ Inbound)) => <>[](health = "fail")

\* It does so, whatever the page rebinds in the meantime and however late its
\* polls are, if the grace is over at the first poll after a change: only the
\* second one may find the cooldown passed and begin the grace anew.
SilenceIsReported == grace + setting.late <= PollEvery => SilenceIsDetected
=============================================================================
