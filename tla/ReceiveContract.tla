-------------------------- MODULE ReceiveContract --------------------------
(***************************************************************************)
(* The bot's view of the room's audio: the receive contract of             *)
(* handleTruthProbe in room/jitsi-browser-bot.ts and its gate, fed by the  *)
(* truth probes of the page.                                               *)
(***************************************************************************)
EXTENDS Naturals

CONSTANTS
  GateWins,     \* RECV_GATE_CONSECUTIVE_N
  Graces,       \* values of RECV_GRACE_AFTER_BIND_MS
  QuietLimit    \* probes without RTP before a warning

ASSUME ContractAssumption ==
  /\ GateWins \in Nat \ {0}
  /\ Graces \subseteq Nat
  /\ QuietLimit \in Nat \ {0}

VARIABLES
  grace,        \* recvGraceAfterBindMs
  trackSeen,    \* remoteTrackSeen
  streak,       \* receiveContractPassStreak, up to GateWins
  gate,         \* recvGatePassedAt is set
  quiet,        \* consecutiveNoInboundProbes
  health        \* the health_contract_receive event logged last

contractVars == <<grace, trackSeen, streak, gate, quiet, health>>

ContractInit ==
  /\ grace \in Graces
  /\ trackSeen = FALSE
  /\ streak = 0
  /\ gate = FALSE
  /\ quiet = 0
  /\ health = "none"

\* remote_track_added
RemoteTrackAdded == trackSeen' = TRUE /\ UNCHANGED <<grace, streak, gate, quiet, health>>

\* Faulty variant: the grace never ends.
WithinGraceForever(msSinceBind) == grace > 0

WithinGrace(msSinceBind) == grace > 0 /\ msSinceBind < grace

\* RTP and a mixer that is not silent.
ContractPasses ==
  LET won == IF streak < GateWins THEN streak + 1 ELSE streak
  IN  /\ streak' = won
      /\ gate' = (gate \/ won = GateWins)
      /\ quiet' = 0
      /\ health' = "pass"

\* RTP and a silent mixer: no failure soon after a change of track.
MixerSilent(msSinceBind) ==
  /\ quiet' = 0
  /\ UNCHANGED gate
  /\ IF WithinGrace(msSinceBind) THEN UNCHANGED <<streak, health>>
     ELSE streak' = 0 /\ health' = "fail"

\* No RTP: a warning after QuietLimit probes, if a track has been seen.
NoInbound ==
  /\ quiet' = IF ~trackSeen THEN quiet ELSE IF quiet + 1 < QuietLimit THEN quiet + 1 ELSE 0
  /\ health' = IF trackSeen /\ quiet' = 0 THEN "noInbound" ELSE health
  /\ UNCHANGED <<streak, gate>>

HandleTruthProbe(room, msSinceBind) ==
  /\ CASE room = "heard" -> ContractPasses
       [] room = "silent" -> MixerSilent(msSinceBind)
       [] room = "noInbound" -> NoInbound
  /\ UNCHANGED <<grace, trackSeen>>
=============================================================================
