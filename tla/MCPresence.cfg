SPECIFICATION SessionSpec
CONSTANTS
  u1 = u1
  u2 = u2
  Utterance <- Utterances
  MaxChanges = 1
  Faults = {"snapshot", "tts"}
  MaxEvents = 2
  SessionFaults = {"api", "start"}
INVARIANTS
  RoomShowsWhatPlays
  ShownSpeechIsReal
  JoinedIsInRoom
  CleanExitHasLeft
  PidFileOutlivesBot
PROPERTIES
  JoinSettles
  KillSucceeds
CHECK_DEADLOCK FALSE
