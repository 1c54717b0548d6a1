SPECIFICATION FairSpec
CONSTANTS
  t1 = t1
  t2 = t2
  TurnId <- Turns
  MaxFrames = 2
  Faults = {"setup", "decode", "send"}
INVARIANTS
  SingleFlight
  OutcomesAgree
  FramesInOrder
PROPERTIES
  TurnEnds
CHECK_DEADLOCK FALSE
