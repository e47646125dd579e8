SPECIFICATION Spec
VIEW Observed
CONSTANTS
  alice1 = alice1
  alice2 = alice2
  bob = bob
  mapped = mapped
  NoKey = NoKey
  Unset = Unset
  User <- MCUser
  Peer <- MCPeer
  Headers <- MCHeaders
  Client <- AliceBobMapped
  Configs <- ManyKeys
  TicksPerSec = 2
  EvictionInterval = 2
  MaxTime = 2
INVARIANTS
  TypeOK
  WindowBound
  StoreBounded
  NarrowLimitShieldsWide
PROPERTIES
  RejectsOnlyExcess
  BurstHonoured
  ImplementsBuckets
