SPECIFICATION FairRoomSpec
CONSTANTS
  p1 = p1
  p2 = p2
  Participant = {p1, p2}
  Track = {1, 2}
  Settings <- Rooms
  SendRecv = {1}
  SelectWins = 2
  RebindWins = 3
  Cooldown = 4
  PollEvery = 2
  ProbeEvery = 2
  MaxAge = 5
  GateWins = 1
  Graces = {1}
  QuietLimit = 1
INVARIANTS
  MixerMatchesBindings
PROPERTIES
  FlowingTrackIsHeard
  SilenceIsReported
CHECK_DEADLOCK FALSE
