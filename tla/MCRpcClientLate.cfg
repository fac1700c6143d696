CONSTANTS
  r1 = r1
  r2 = r2
  Requests <- TwoRequests
  LongRunning <- NoRequests
  SendCap = 1
  MaxConn = 1
  MaxRetries = 1
  AutoReconnect = FALSE
  ConnectOnNew = FALSE
SPECIFICATION FairSpec
CHECK_DEADLOCK FALSE
INVARIANTS
  ShutdownLeavesNothingPending
PROPERTIES
  ImplementsFutures
  ShutdownReleasesCallers
  LostConnectionReleasesCallers
