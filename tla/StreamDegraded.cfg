\* Reservation reads and writes fail at will; the startup floor runs.
CONSTANTS
  c1 = c1
  c2 = c2
  everyone = everyone
  Conversations <- MCConversations
  Targetings <- MCTargetings
  Block = 2
  RingLimit = 2
  MaxSeq = 4
  WriteFaults = TRUE
  ReadFaults = TRUE
  FloorFaults = FALSE
SPECIFICATION StreamSpec
INVARIANTS
  ReplayComplete
PROPERTIES
  StampsAboveAnchors
