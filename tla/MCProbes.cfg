SPECIFICATION Spec
CONSTANTS
  c1 = c1
  c2 = c2
  None = None
  Client <- TwoClients
  interval = 2
  timeout = 7
  MaxTime = 16
SYMMETRY ClientSymmetry
INVARIANTS
  MaintenanceHonoured
PROPERTIES
  StuckIsReported
  NoFalseAlarm
\* A router that was dropped serves nothing more.
CHECK_DEADLOCK FALSE
