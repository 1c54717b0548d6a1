------------------------------ MODULE Presence ------------------------------
(***************************************************************************)
(* How the bot presents itself in the room: the wiring of src/main.ts that *)
(* connects the pipeline's TTS callbacks, the SpeakingController and       *)
(* LiveState (src/room/live-state.ts) with the Podium server, from the     *)
(* moment the room is joined.                                              *)
(*                                                                         *)
(* Of the live data only the bot's own speaking time matters, and of that  *)
(* whether there is any.  The server is external: its time for the bot     *)
(* runs out and is refilled, it tells so over the WebSocket in order, and  *)
(* answers the request for a snapshot.                                     *)
(***************************************************************************)
EXTENDS SpeakingController, Sequences

CONSTANTS
  MaxChanges,   \* bound: changes of the server's time
  Faults        \* "tts": speech fails; "snapshot": the request fails

ASSUME MaxChangesAssumption == MaxChanges \in Nat
ASSUME FaultsAssumption == Faults \subseteq {"tts", "snapshot"}

VARIABLES
  isCreator,    \* the bot created the outpost: unlimited time
  phase,        \* of main(): "joined", "snapshot" requested, "live"
  remaining,    \* LiveState's remaining time of the bot
  snapshot,     \* the server's answer to the request
  serverTime,   \* the server's remaining time of the bot
  inbox,        \* WebSocket messages on their way to the bot
  changes,      \* changes of serverTime, for the bound
  tts           \* the pipeline's utterances: "new", "on", "over" or "failed"

serverVars == <<serverTime, inbox, changes>>
bootVars == <<isCreator, phase, snapshot>>
vars == <<scVars, bootVars, remaining, serverVars, tts>>

Time == {"left", "up"}

Init ==
  /\ ControllerInit
  /\ isCreator \in BOOLEAN
  /\ phase = "joined"
  /\ remaining = "unknown"
  /\ snapshot \in Time /\ serverTime = snapshot
  /\ inbox = <<>>
  /\ changes = 0
  /\ tts = [u \in Utterance |-> "new"]

\* The controller and the WS subscription exist.
Live == phase = "live"

----------------------------------------------------------------------------
(* The server                                                              *)

\* user.time_is_up or remaining_time.updated.
TimeChanges ==
  /\ changes < MaxChanges
  /\ changes' = changes + 1
  /\ serverTime' = IF serverTime = "up" THEN "left" ELSE "up"
  /\ inbox' = IF wsOpen THEN Append(inbox, serverTime') ELSE inbox
  /\ UNCHANGED <<scVars, bootVars, remaining, tts>>

ConnectionLost ==
  /\ WsCloses
  /\ inbox' = <<>>
  /\ UNCHANGED <<bootVars, remaining, serverTime, changes, tts>>

----------------------------------------------------------------------------
(* main.ts                                                                 *)

SnapshotAnswered ==
  /\ phase = "joined"
  /\ phase' = "snapshot"
  /\ snapshot' = serverTime
  /\ UNCHANGED <<scVars, isCreator, remaining, serverVars, tts>>

ApplySnapshot == remaining' = snapshot

\* applySnapshot, then onWSMessage and new SpeakingController at once.
GoLive ==
  /\ phase = "snapshot"
  /\ phase' = "live"
  /\ \/ ApplySnapshot
     \/ "snapshot" \in Faults /\ UNCHANGED remaining
  /\ UNCHANGED <<scVars, isCreator, snapshot, serverVars, tts>>

\* Both messages about the bot's time set it.
HandleWSMessage == remaining' = Head(inbox)

\* A message nobody has subscribed to is gone.  Of those that say that no time
\* is left, user.time_is_up mutes and remaining_time.updated does not.
WSMessage ==
  /\ inbox # <<>>
  /\ inbox' = Tail(inbox)
  /\ IF ~Live THEN UNCHANGED <<scVars, remaining>>
     ELSE /\ HandleWSMessage
          /\ (Head(inbox) = "up" /\ ForceMute) \/ UNCHANGED scVars
  /\ UNCHANGED <<bootVars, serverTime, changes, tts>>

CanSpeakNow == isCreator \/ remaining # "up"

\* speakingController?.begin: nothing before the controller exists.
OnTtsStart(u) ==
  /\ tts[u] = "new"
  /\ tts' = [tts EXCEPT ![u] = "on"]
  /\ IF Live THEN Begin(u, CanSpeakNow) ELSE UNCHANGED scVars
  /\ UNCHANGED <<bootVars, remaining, serverVars>>

OnTtsEnd(u) ==
  /\ tts[u] = "on"
  /\ tts' = [tts EXCEPT ![u] = "over"]
  /\ IF Live THEN End(u) ELSE UNCHANGED scVars
  /\ UNCHANGED <<bootVars, remaining, serverVars>>

\* speakTextViaTts throws before it calls onTtsEnd.
TtsFails(u) ==
  /\ "tts" \in Faults
  /\ tts[u] = "on"
  /\ tts' = [tts EXCEPT ![u] = "failed"]
  /\ UNCHANGED <<scVars, bootVars, remaining, serverVars>>

OnBargeIn ==
  /\ \E u \in Utterance : tts[u] = "on"
  /\ IF Live THEN CancelAll ELSE UNCHANGED scVars
  /\ UNCHANGED <<bootVars, remaining, serverVars, tts>>

Next ==
  \/ TimeChanges \/ ConnectionLost
  \/ SnapshotAnswered \/ GoLive \/ WSMessage
  \/ \E u \in Utterance : OnTtsStart(u) \/ OnTtsEnd(u) \/ TtsFails(u)
  \/ OnBargeIn

Spec == Init /\ [][Next]_vars

----------------------------------------------------------------------------
(* Properties                                                              *)

\* What onTtsAudio lets through to the room.
Audible(u) == tts[u] = "on" /\ (Live => ShouldPlay(u))

\* Podium shows the bot as speaking only while a reply or greeting is really
\* going on, the controller forgets none that is over (main.ts:103-160); except
\* that it never learns of the end of one whose TTS failed.
ShownSpeechIsReal ==
  wsOpen /\ roomShows => \E u \in Utterance : Audible(u) \/ tts[u] = "failed"
============================================================================
