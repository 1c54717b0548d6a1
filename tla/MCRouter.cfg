SPECIFICATION Spec
CONSTANTS
  room1 = room1
  room2 = room2
  s1 = s1
  s2 = s2
  s3 = s3
  NumInstances = 2
  Key <- Keys
  Session <- Sessions
  MaxInflight = 2
  StickyTtl = 2
  MaxTime = 3
SYMMETRY Symmetry
INVARIANTS
  InflightCountsSessions
  KeyMovesOnlyAfterExpiry
CHECK_DEADLOCK FALSE
