SPECIFICATION FairSpec
CONSTANTS
  MaxUtterances = 2
  MaxTasks = 3
  Settings <- EmptyReplies
PROPERTIES
  QueuedIsProcessed
CHECK_DEADLOCK FALSE
