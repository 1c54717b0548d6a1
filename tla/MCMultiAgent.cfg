SPECIFICATION FairMultiAgentSpec
CONSTANTS
  hello = hello
  bye = bye
  Agent = {1, 2}
  AgentOrder <- ListedOrder
  Request <- Utterances
  Mentions <- NobodyAddressed
  Conn = {1, 2}
  Bids <- NoBids
  UseAuction = FALSE
  MaxRecentTurns = 2
  MaxBuckets = 9
  FaultCases <- FaultCombinations
  MaxHears <- HeardOnce
INVARIANTS
  SpeakerHasTheFloor
PROPERTIES
  FloorComesBack
  AcceptedRequestIsDecided
  UtteranceIsAnswered
CHECK_DEADLOCK FALSE
