\* One client, scoped or not, no plugin: targeted events, broadcast or forwarded,
\* reconnects, crashes.
CONSTANTS
  mac = mac
  plugin = plugin
  plugin2 = plugin2
  cA = cA
  cB = cB
  absent = absent
  hostBash = hostBash
  Absent = absent
  Clients = {mac}
  Plugins = {}
  Conversations = {cA, cB}
  Targetings <- ToSome
  Scopes <- MaybeScoped
  Identity <- MCIdentity
  HeaderCapabilities <- MCHeaderCapabilities
  MaxSubscribers = 3
  HighWaterMark = 2
  Forwarding = TRUE
  Block = 2
  RingLimit = 2
  MaxSeq = 4
  WriteFaults = FALSE
  ReadFaults = FALSE
  FloorFaults = FALSE
SPECIFICATION HubSpec
INVARIANTS
  FramesAboveCursor
  NoEventLost
  DeliveredOnlyToAudience
