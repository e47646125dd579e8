SPECIFICATION Spec
CONSTANTS
  a = a
  b = b
  x = x
  y = y
  p = p
  q = q
  None = None
  Caller <- TwoCallers
  Instance <- PoolAndClone
  Connection <- TwoConnections
  Libraries <- AllLibraries
  PROBE_INTERVAL = 1
  MaxTime = 5
VIEW Observed
SYMMETRY PoolSymmetry
INVARIANTS
  TypeOK
  NoConnectionLost
  MetersAgree
  GatheredApart
PROPERTIES
  GaugesFresh
