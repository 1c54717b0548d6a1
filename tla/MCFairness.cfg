SPECIFICATION FairnessSpec
CONSTANTS
  hello = hello
  c1 = c1
  Agent = {1, 2, 3}
  AgentOrder <- ListedOrder
  Request <- Utterances
  Mentions <- NobodyAddressed
  Conn <- Connections
  Bids <- ArrivingBids
  UseAuction = FALSE
  MaxRecentTurns = 1
  MaxBuckets = 4
INVARIANTS
  NobodyIsPassedOverTwice
  LoopFindsTheUnbeaten
