SPECIFICATION Spec
CONSTANTS
  FrameUnits = 2
  MaxTxBuffer = 4
  DropThreshold = 4
  CallbackUnits = 3
  Ports = 2
  ChunkSizes = {1, 3, 5}
  MaxPushed = 9
  MaxConn = 2
INVARIANTS
  SpeechStaysInOrder
  PageLagIsBounded
  NewestIsKept
PROPERTIES
  LeaveEnds
CHECK_DEADLOCK FALSE
