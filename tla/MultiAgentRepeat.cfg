SPECIFICATION MultiAgentSpec
CONSTANTS
  hello = hello
  bye = bye
  Agent = {1, 2}
  AgentOrder <- ListedOrder
  Request <- Utterances
  Mentions <- NobodyAddressed
  Conn = {1, 2}
  Bids <- NoBids
  UseAuction = FALSE
  MaxRecentTurns = 2
  MaxBuckets = 9
  FaultCases <- NoFaults
  MaxHears <- HelloTwice
INVARIANTS
  NoOverlap
CHECK_DEADLOCK FALSE
