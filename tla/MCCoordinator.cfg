SPECIFICATION Spec
CONSTANTS
  hello = hello
  naming = naming
  c1 = c1
  c2 = c2
  Agent = {1, 2}
  AgentOrder <- DiscoveredOnly
  Request <- Utterances
  Mentions <- AddressedIn
  Conn <- Connections
  Bids <- SomeBids
  UseAuction = TRUE
  MaxRecentTurns = 2
  MaxBuckets = 3
SYMMETRY Symmetry
INVARIANTS
  TypeOK
  LiveGrantIsAnnounced
  OneWinnerPerGrant
  DialogueInGrantOrder
PROPERTIES
  ImplementsFloorLease
