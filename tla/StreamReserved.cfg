\* Sound reservation file, the startup floor may be skipped.
CONSTANTS
  c1 = c1
  c2 = c2
  everyone = everyone
  Conversations <- MCConversations
  Targetings <- MCTargetings
  Block = 2
  RingLimit = 2
  MaxSeq = 7
  WriteFaults = FALSE
  ReadFaults = FALSE
  FloorFaults = TRUE
SYMMETRY Symmetry
SPECIFICATION StreamSpec
INVARIANTS
  StreamTypeOK
  NoReissue
  BoundedRestartGap
  CounterAboveAnchors
