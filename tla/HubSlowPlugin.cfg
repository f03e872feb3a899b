\* Plugin callbacks may park a publish for any time; the hub has room for two of
\* the three subscribers.
CONSTANTS
  mac = mac
  plugin = plugin
  plugin2 = plugin2
  cA = cA
  cB = cB
  absent = absent
  hostBash = hostBash
  Absent = absent
  Clients = {mac}
  Plugins = {plugin, plugin2}
  Conversations = {cA}
  Targetings <- ToEveryone
  Scopes <- Unscoped
  Identity <- MCIdentity
  HeaderCapabilities <- MCHeaderCapabilities
  MaxSubscribers = 2
  HighWaterMark = 2
  Forwarding = FALSE
  Block = 2
  RingLimit = 2
  MaxSeq = 3
  WriteFaults = FALSE
  ReadFaults = FALSE
  FloorFaults = FALSE
SPECIFICATION HubFairSpec
INVARIANTS
  FramesInOrder
PROPERTIES
  PublishesFinish
