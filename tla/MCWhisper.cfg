SPECIFICATION FairWhisperSpec
CONSTANTS
  c1 = c1
  c2 = c2
  c3 = c3
  Call = {c1, c2, c3}
  MaxDeaths = 2
INVARIANTS
  TranscriptIsOwn
  FileOutlivesItsRequest
PROPERTIES
  TranscribeReturns
CHECK_DEADLOCK FALSE
