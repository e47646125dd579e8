SPECIFICATION FairSpec
CONSTANTS
  t1 = t1
  t2 = t2
  Task <- TwoTasks
  MaxServers = 2
  MaxConns = 1
  Signals <- TermAndHup
  Metrics <- JustTrue
  Grace <- JustBounded
INVARIANTS
  TypeOK
  NoServerLost
PROPERTIES
  StopMeansStopped
  PanicNeverHidden
  ImplementsLife
  SignalEndsWait
\* Servers that were shut down and a handle that was dropped do nothing more.
CHECK_DEADLOCK FALSE
