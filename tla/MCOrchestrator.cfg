SPECIFICATION FairSpec
CONSTANTS
  MaxUtterances = 3
  MaxTasks = 5
  Settings <- Deployments
INVARIANTS
  TurnsAreCovered
  RepliesAreGranted
  OneVoice
  BargedStaysCancelled
PROPERTIES
  ProcessingEnds
  SpeakingEnds
CHECK_DEADLOCK FALSE
