SPECIFICATION FairSpec
CONSTANTS
  c1 = c1
  c2 = c2
  c3 = c3
  Call <- TwoCalls
  error_rate <- Half
  closed_len = 3
  half_open_len = 2
  open_wait = 2
  max_attempts = 2
  request_timeout = TRUE
  MaxCancels = 2
INVARIANTS
  TypeOK
  OpenIsQuiet
  GaugeTellsInFlight
PROPERTIES
  TripsOnFailedCalls
  CallsEnd
  Recovers
