------------------------- MODULE SpeakingController -------------------------
(***************************************************************************)
(* SpeakingController (src/room/speaking-controller.ts): tells Podium when *)
(* the bot starts and stops speaking and gates its audio.  Utterances may  *)
(* overlap (greeting and reply), so it counts those that were allowed.     *)
(*                                                                         *)
(* The Podium WebSocket of src/room/ws.ts delivers while it is open, and   *)
(* there is no code that opens it again.                                   *)
(***************************************************************************)
EXTENDS Integers, FiniteSets

CONSTANT Utterance

ASSUME UtteranceAssumption == IsFiniteSet(Utterance)

VARIABLES
  activeAllowedCount,
  forceMuted,
  utterances,   \* the map: "allowed", "denied", or "none" for no entry
  wsOpen,       \* readyState is OPEN
  roomShows     \* the last message Podium had of the bot was start_speaking

controllerVars == <<activeAllowedCount, forceMuted, utterances>>
scVars == <<controllerVars, wsOpen, roomShows>>

ControllerInit ==
  /\ activeAllowedCount = 0
  /\ forceMuted = FALSE
  /\ utterances = [u \in Utterance |-> "none"]
  /\ wsOpen = TRUE
  /\ roomShows = FALSE

\* startSpeaking and stopSpeaking, sent only when wsHealthy().
StartSpeaking == roomShows' = (roomShows \/ wsOpen)
StopSpeaking == roomShows' = (roomShows /\ ~wsOpen)

BeginRefused(u, mayStart) ==
  /\ forceMuted \/ ~mayStart
  /\ utterances' = [utterances EXCEPT ![u] = "denied"]
  /\ UNCHANGED <<activeAllowedCount, roomShows>>

BeginAllowed(u, mayStart) ==
  /\ ~forceMuted /\ mayStart
  /\ utterances' = [utterances EXCEPT ![u] = "allowed"]
  /\ activeAllowedCount' = activeAllowedCount + 1
  /\ IF activeAllowedCount' = 1 THEN StartSpeaking ELSE UNCHANGED roomShows

\* mayStart is what canSpeakNow says.
Begin(u, mayStart) ==
  /\ IF utterances[u] # "none" THEN UNCHANGED <<activeAllowedCount, utterances, roomShows>>
     ELSE BeginRefused(u, mayStart) \/ BeginAllowed(u, mayStart)
  /\ UNCHANGED <<forceMuted, wsOpen>>

\* Faulty variant: stop_speaking as soon as one utterance ends.
EndStops(u) ==
  /\ utterances[u] = "allowed"
  /\ activeAllowedCount' = IF activeAllowedCount = 0 THEN 0 ELSE activeAllowedCount - 1
  /\ StopSpeaking

EndAllowed(u) ==
  /\ utterances[u] = "allowed"
  /\ activeAllowedCount' = IF activeAllowedCount = 0 THEN 0 ELSE activeAllowedCount - 1
  /\ IF activeAllowedCount' = 0 THEN StopSpeaking ELSE UNCHANGED roomShows

\* An utterance without an entry is ignored.
End(u) ==
  /\ utterances' = [utterances EXCEPT ![u] = "none"]
  /\ \/ EndAllowed(u)
     \/ utterances[u] # "allowed" /\ UNCHANGED <<activeAllowedCount, roomShows>>
  /\ UNCHANGED <<forceMuted, wsOpen>>

ShouldPlay(u) == utterances[u] = "allowed" /\ ~forceMuted

\* Faulty variant: Podium is forgotten.
ClearSilently ==
  /\ activeAllowedCount' = 0
  /\ utterances' = [u \in Utterance |-> "none"]
  /\ UNCHANGED roomShows

\* Common to forceMute and cancelAll.
Clear ==
  /\ activeAllowedCount' = 0
  /\ utterances' = [u \in Utterance |-> "none"]
  /\ IF activeAllowedCount > 0 THEN StopSpeaking ELSE UNCHANGED roomShows

ForceMute ==
  /\ IF forceMuted THEN UNCHANGED <<activeAllowedCount, utterances, roomShows>> ELSE Clear
  /\ forceMuted' = TRUE
  /\ UNCHANGED wsOpen

CancelAll == Clear /\ UNCHANGED <<forceMuted, wsOpen>>

WsCloses ==
  /\ wsOpen
  /\ wsOpen' = FALSE
  /\ UNCHANGED <<controllerVars, roomShows>>

----------------------------------------------------------------------------
(* The controller under any callers.                                       *)

ControllerNext ==
  \/ \E u \in Utterance, mayStart \in BOOLEAN : Begin(u, mayStart)
  \/ \E u \in Utterance : End(u)
  \/ ForceMute
  \/ CancelAll
  \/ WsCloses

ControllerSpec == ControllerInit /\ [][ControllerNext]_scVars

----------------------------------------------------------------------------
(* Properties                                                              *)

ControllerTypeOK ==
  /\ activeAllowedCount \in Nat
  /\ forceMuted \in BOOLEAN
  /\ utterances \in [Utterance -> {"none", "allowed", "denied"}]
  /\ wsOpen \in BOOLEAN
  /\ roomShows \in BOOLEAN

Allowed == {u \in Utterance : utterances[u] = "allowed"}

\* The reference count that begin, end, forceMute and cancelAll keep agrees
\* with the map they keep, so it is never stuck above or below.
CountIsAllowed == activeAllowedCount = Cardinality(Allowed)

\* "It is also overlap-safe [...] only emits stop_speaking when all active
\* utterances have ended" (speaking-controller.ts:23): while its WebSocket is
\* open Podium shows the bot as speaking exactly when some utterance's audio
\* is let through, whatever overlaps, is cancelled or is muted.
RoomShowsWhatPlays ==
  wsOpen => (roomShows <=> \E u \in Utterance : ShouldPlay(u))
============================================================================
