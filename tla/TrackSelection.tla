--------------------------- MODULE TrackSelection ---------------------------
(***************************************************************************)
(* Which received track the bot's page listens to: the receive side of     *)
(* bot-page/bot.js.                                                        *)
(*                                                                         *)
(* Remote tracks come and go while WebRTC negotiates.  The page binds a    *)
(* participant's track to its mixer when Jitsi announces it (300 ms later),*)
(* once after joining (1200 ms later), and from a poll of the connection's *)
(* statistics every two seconds, which selects the track it believes to    *)
(* receive audio on: with hysteresis, and with a cooldown between changes. *)
(* A binding made through Jitsi's wrapper may stay silent; one made        *)
(* through the peer connection's receiver does not.                        *)
(*                                                                         *)
(* Track ids are numbers: the order of the transceivers, of the statistics *)
(* and of the ids.  Time is counted in seconds since the last change and   *)
(* saturates at MaxAge.                                                    *)
(***************************************************************************)
EXTENDS Naturals, FiniteSetsExt

CONSTANTS
  Participant,
  Track,
  Settings,      \* whose the tracks are and what the environment does
  SendRecv,      \* tracks of transceivers the microphone is sent on, too
  SelectWins,    \* RX_SELECT_K
  RebindWins,    \* RX_REBIND_M
  Cooldown,      \* RX_REBIND_COOLDOWN_MS
  PollEvery,     \* period of the poll
  ProbeEvery,    \* least time between two truth probes
  MaxAge         \* ages from here on are not told apart

NoTrack == 0

ASSUME TrackAssumption ==
  /\ Track \subseteq Nat \ {NoTrack} /\ IsFiniteSet(Track)
  /\ Settings \subseteq
       [owner : UNION {[tracks -> Participant] : tracks \in SUBSET Track},
        failures : Nat,     \* bound: Web Audio calls that fail
        late : 0 .. PollEvery - 1,   \* bound: how long getStats() takes
        pauses : BOOLEAN,   \* RTP stops and goes on
        muted : BOOLEAN]    \* all RTP carries silence
  /\ SendRecv \subseteq Track
ASSUME SelectionAssumption ==
  /\ SelectWins \in Nat \ {0} /\ RebindWins \in Nat \ {0}
  /\ Cooldown \in Nat /\ MaxAge \in Nat /\ Cooldown < MaxAge
  /\ PollEvery \in Nat \ {0}
  /\ ProbeEvery \in Nat \ {0}

VARIABLES
  phase,       \* how far join() is
  setting,     \* in Settings
  listed,      \* tracks that getParticipants() shows
  ended,       \* tracks that have been removed
  receivers,   \* tracks of the peer connection's receivers
  received,    \* those with an inbound-rtp entry in the statistics
  flowing,     \* those whose bytes increase
  timers,      \* tracks with a pending 300 ms timer
  attachDue,   \* the 1200 ms timer is pending
  bindings,    \* remoteBindings
  mixed,       \* sources that are connected to the mixer
  selected,    \* rxTrackSelection.selectedTrackId
  candidate,   \* rxTrackSelection.candidateTrackId
  wins,        \* rxTrackSelection.candidateWins
  age,         \* time since rxTrackSelection.lastRebindAtMs
  late,        \* how long the last getStats() took
  unprobed,    \* time since lastTruthProbeAt
  failures     \* Web Audio calls that have failed

environment == <<setting, listed, ended, receivers, received, flowing>>
binding == <<bindings, mixed, failures>>
selection == <<selected, candidate, wins, age, late, unprobed>>
rxVars == <<phase, environment, timers, attachDue, binding, selection>>

MaxWins == Max({SelectWins, RebindWins})

\* track: the id asked for; bound: the id of the track that is played.
Binding == [track : Track, bound : Track, via : {"receiver", "wrapper"}]
Unbound == [track |-> NoTrack, bound |-> NoTrack, via |-> "wrapper"]

owner == setting.owner

SourceOf(p, b) == [participant |-> p, bound |-> b.bound, via |-> b.via]

\* resetTrackSelectionAndBindingsForNewRoom: a page joins once.
PageInit ==
  /\ phase = "connecting"
  /\ setting \in Settings
  /\ listed = {} /\ ended = {}
  /\ receivers = {} /\ received = {} /\ flowing = {}
  /\ timers = {}
  /\ attachDue = FALSE
  /\ bindings = [p \in Participant |-> Unbound]
  /\ mixed = {}
  /\ failures = 0
  /\ selected = NoTrack /\ candidate = NoTrack /\ wins = 0
  /\ age = MaxAge
  /\ late = 0 /\ unprobed = ProbeEvery

----------------------------------------------------------------------------
(* Joining: the library is loaded and the connection made, the conference  *)
(* joined and the microphone attached; each of it may fail.                *)

Connected ==
  /\ phase = "connecting"
  /\ phase' \in {"inRoom", "failed"}
  /\ UNCHANGED <<environment, timers, attachDue, binding, selection>>

ConferenceJoined ==
  /\ phase = "inRoom"
  /\ \/ phase' = "joined" /\ attachDue' = TRUE
     \/ phase' = "failed" /\ UNCHANGED attachDue
  /\ UNCHANGED <<environment, timers, binding, selection>>

----------------------------------------------------------------------------
(* The room and the peer connection *)

\* TRACK_ADDED: the binding is made 300 ms later.
TrackAdded(t) ==
  /\ phase \in {"inRoom", "joined"}
  /\ t \in DOMAIN owner \ (listed \cup ended)
  /\ \A u \in listed : owner[u] # owner[t]
  /\ listed' = listed \cup {t}
  /\ timers' = timers \cup {t}
  /\ UNCHANGED <<phase, setting, ended, receivers, received, flowing, attachDue, binding, selection>>

\* The native track ends; nobody tells the page's bindings.
TrackRemoved(t) ==
  /\ t \in listed
  /\ listed' = listed \ {t}
  /\ ended' = ended \cup {t}
  /\ flowing' = flowing \ {t}
  /\ UNCHANGED <<phase, setting, receivers, received, timers, attachDue, binding, selection>>

\* The receiver can be found from now on (phased negotiation).
ReceiverFound(t) ==
  /\ t \in listed \ receivers
  /\ receivers' = receivers \cup {t}
  /\ UNCHANGED <<phase, setting, listed, ended, received, flowing, timers, attachDue, binding, selection>>

\* The receiver of a removed track lingers for a while, with its statistics.
ReceiverGone(t) ==
  /\ t \in ended \cap receivers
  /\ receivers' = receivers \ {t}
  /\ received' = received \ {t}
  /\ UNCHANGED <<phase, setting, listed, ended, flowing, timers, attachDue, binding, selection>>

RtpStarts(t) ==
  /\ t \in (listed \cap receivers) \ flowing
  /\ received' = received \cup {t}
  /\ flowing' = flowing \cup {t}
  /\ UNCHANGED <<phase, setting, listed, ended, receivers, timers, attachDue, binding, selection>>

RtpStops(t) ==
  /\ setting.pauses
  /\ t \in flowing
  /\ flowing' = flowing \ {t}
  /\ UNCHANGED <<phase, setting, listed, ended, receivers, received, timers, attachDue, binding, selection>>

----------------------------------------------------------------------------
(* Binding tracks to the mixer *)

\* Faulty variant: the old source is left connected.
WithoutSourcesKept(m, ps) == m

\* disconnect() of what some participants had.
WithoutSources(m, ps) == {s \in m : s.participant \notin ps}

Bound(t) == [track |-> t, bound |-> t, via |-> IF t \in receivers THEN "receiver" ELSE "wrapper"]

\* addRemoteTrackToMixer for tracks of different participants: a track that has
\* ended or is bound already is left; else what its participant had is taken
\* away before the new source is made, which may fail.
AddTracks(tracks) ==
  LET new == {t \in tracks \ ended : bindings[owner[t]].track # t}
      changed == {owner[t] : t \in new}
      NewOf(p) == CHOOSE t \in new : owner[t] = p
  IN  \E bad \in SUBSET new :
        /\ failures' = failures + Cardinality(bad)
        /\ failures' <= setting.failures
        /\ bindings' = [p \in Participant |->
                          IF p \notin changed THEN bindings[p]
                          ELSE IF NewOf(p) \in bad THEN Unbound ELSE Bound(NewOf(p))]
        /\ mixed' = WithoutSources(mixed, changed) \cup {SourceOf(owner[t], Bound(t)) : t \in new \ bad}

\* The 300 ms timer of TRACK_ADDED.
AddTimer(t) ==
  /\ t \in timers
  /\ timers' = timers \ {t}
  /\ AddTracks({t})
  /\ UNCHANGED <<phase, environment, attachDue, selection>>

\* attachExistingRemoteTracks
AttachExisting ==
  /\ attachDue
  /\ attachDue' = FALSE
  /\ AddTracks(listed)
  /\ UNCHANGED <<phase, environment, timers, selection>>

----------------------------------------------------------------------------
(* The poll: what the statistics say *)

RecvOnly(t) == t \in listed \ SendRecv

\* The track of the first inbound-rtp entry; without one, that of the first
\* transceiver that only receives, or of the first one.
Reported ==
  LET receiving == {t \in receivers : RecvOnly(t)}
  IN  CASE received # {}  -> Min(received)
        [] received = {} /\ receiving # {} -> Min(receiving)
        [] received = {} /\ receiving = {} /\ receivers # {} -> Min(receivers)
        [] OTHER -> NoTrack

\* Bytes are summed over all entries.
Inbound == flowing # {}

\* Sources that carry audio; those through a wrapper need not, and a
\* participant may be silent.
Audible == {s \in mixed : s.bound \in flowing /\ ~setting.muted}

\* Pre-mixer energy, by the id a binding was asked for.
Loud(t, loud) == \E p \in Participant : bindings[p].track = t /\ SourceOf(p, bindings[p]) \in loud

\* a goes before b in the ranking of candidates.
Before(a, b, loud) ==
  LET Prefer(P(_)) == P(a) /\ ~P(b)
      Tie(P(_)) == P(a) <=> P(b)
      IsReported(t) == Inbound /\ t = Reported
      IsLoud(t) == Loud(t, loud)
      IsSelected(t) == t = selected
  IN  \/ Prefer(IsReported)
      \/ Tie(IsReported) /\ Prefer(RecvOnly)
      \/ Tie(IsReported) /\ Tie(RecvOnly) /\ Prefer(IsLoud)
      \/ Tie(IsReported) /\ Tie(RecvOnly) /\ Tie(IsLoud) /\ Prefer(IsSelected)
      \/ Tie(IsReported) /\ Tie(RecvOnly) /\ Tie(IsLoud) /\ Tie(IsSelected) /\ a < b

\* The reported track is one of the receivers, so these are all candidates.
Top(loud) ==
  IF receivers = {} THEN NoTrack
  ELSE CHOOSE t \in receivers : \A u \in receivers \ {t} : Before(t, u, loud)

----------------------------------------------------------------------------
(* The poll: hysteresis and rebinding *)

WinsOf(top) ==
  IF top # NoTrack /\ top = candidate THEN Min({wins + 1, MaxWins})
  ELSE IF top # NoTrack THEN 1 ELSE 0

Commits(top, won) ==
  /\ top # NoTrack /\ top # selected
  /\ won >= IF selected = NoTrack THEN SelectWins ELSE RebindWins

Aged(gap) == Min({age + gap, MaxAge})

\* Faulty variant: no cooldown.
CanRebindAtOnce(time) == TRUE

CanRebind(time) == time > Cooldown

\* rebindMixerToReceiverTrack plays the receiver with the track's id, or else
\* the one of the first inbound-rtp entry's mid.
ReceiverFor(sel) ==
  IF sel \in receivers THEN sel ELSE IF received # {} THEN Min(received) ELSE NoTrack

\* A source that cannot be made leaves the old binding behind, disconnected.
Rebind(p, sel) ==
  LET b == [track |-> sel, bound |-> ReceiverFor(sel), via |-> "receiver"]
      rest == WithoutSources(mixed, {p})
  IN  \/ /\ bindings' = [bindings EXCEPT ![p] = b]
         /\ mixed' = rest \cup {SourceOf(p, b)}
         /\ UNCHANGED failures
      \/ /\ failures < setting.failures /\ failures' = failures + 1
         /\ mixed' = rest
         /\ UNCHANGED bindings

\* A wrapper, or near-silence although RTP arrives on this very track.
ShouldRebind(p, sel, loud) ==
  /\ bindings[p].via = "wrapper" \/ (Inbound /\ sel = Reported /\ ~Loud(sel, loud))
  /\ ReceiverFor(sel) # NoTrack

BoundFor(sel) == {p \in Participant : bindings[p].track = sel}

\* Faulty variant: the selected track is rebound, but never attached.
ApplyToBoundOnly(sel, time, loud) ==
  LET p == CHOOSE q \in Participant : BoundFor(sel) = {} \/ q \in BoundFor(sel)
  IN  IF BoundFor(sel) # {} /\ CanRebind(time) /\ ShouldRebind(p, sel, loud)
      THEN Rebind(p, sel) /\ age' = IF failures' > failures THEN time ELSE 0
      ELSE UNCHANGED binding /\ age' = time

\* What a poll does for the selected track: attach it if it is not bound and
\* some participant has it (rebindToInboundTrackIdentifier, which counts as a
\* change also when it fails), and bind it to the receiver if need be.
Apply(sel, time, loud) ==
  LET attach == BoundFor(sel) = {} /\ sel \in listed /\ CanRebind(time)
      rebind == {p \in BoundFor(sel) : ShouldRebind(p, sel, loud) /\ CanRebind(time)}
  IN  \/ attach /\ AddTracks({sel}) /\ age' = 0
      \/ \E p \in rebind : Rebind(p, sel) /\ age' = IF failures' > failures THEN time ELSE 0
      \/ ~attach /\ rebind = {} /\ UNCHANGED binding /\ age' = time

\* One round: statistics, ranking, hysteresis, rebinding, and the truth probe if
\* one is due.  The interval keeps its pace; the time that counts is that of the
\* answer of getStats(), which may be late.
Poll(delay, loud) ==
  LET gap == (PollEvery + delay) - late
      waited == unprobed + gap
      top == Top(loud)
      won == WinsOf(top)
      commits == Commits(top, won)
      sel == IF commits THEN top ELSE selected
      time == IF commits THEN 0 ELSE Aged(gap)
  IN  /\ phase = "joined"
      /\ loud \subseteq Audible
      /\ candidate' = top
      /\ wins' = won
      /\ selected' = sel
      /\ late' = delay
      /\ unprobed' = IF waited >= ProbeEvery THEN 0 ELSE waited
      /\ IF sel = NoTrack THEN age' = time /\ UNCHANGED binding ELSE Apply(sel, time, loud)
      /\ UNCHANGED <<phase, environment, timers, attachDue>>

\* The truth probe at the end of a poll tells the bot what it found of the room:
\* RTP and what the mixer put out last, sampled at another time than the
\* energies.
TruthProbes == IF ~Inbound THEN {"noInbound"} ELSE {"silent"} \cup {"heard" : s \in Audible}

RoomStep ==
  \/ Connected \/ ConferenceJoined
  \/ \E t \in Track :
       TrackAdded(t) \/ TrackRemoved(t) \/ ReceiverFound(t) \/ ReceiverGone(t)
         \/ RtpStarts(t) \/ RtpStops(t)

TimerStep == AttachExisting \/ \E t \in Track : AddTimer(t)
=============================================================================
