SPECIFICATION Spec
CONSTANTS
  alice1 = alice1
  alice2 = alice2
  bob = bob
  mapped = mapped
  NoKey = NoKey
  Unset = Unset
  User <- MCUser
  Peer <- MCPeer
  Headers <- MCHeaders
  Client <- TwoAlicesAndBob
  Configs <- UserThenGlobal
  TicksPerSec = 2
  EvictionInterval = 2
  MaxTime = 4
PROPERTIES
  RetryAfterSuffices
