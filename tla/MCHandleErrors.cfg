SPECIFICATION Spec
CONSTANTS
  t1 = t1
  t2 = t2
  Task <- TwoTasks
  MaxServers = 2
  MaxConns = 1
  Signals <- OneTerm
  Metrics <- JustFalse
  Grace <- JustBounded
PROPERTIES
  WaitReportsServerErrors
\* Servers that were shut down and a handle that was dropped do nothing more.
CHECK_DEADLOCK FALSE
