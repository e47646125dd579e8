SPECIFICATION FairSpec
CONSTANTS
  Lines = 1
  Queue = 2
  MaxBatch = 2
  MaxRecords = 4
  Configs <- AllConfigs
INVARIANTS
  TypeOK
PROPERTIES
  RemoteBlocksNobody
  ShutdownFlushes
  ImplementsStream
\* A pipeline that was shut down, or has nothing to do, does nothing more.
CHECK_DEADLOCK FALSE
