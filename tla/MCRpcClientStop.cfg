CONSTANTS
  r1 = r1
  r2 = r2
  Requests <- NoRequests
  LongRunning <- NoRequests
  SendCap = 1
  MaxConn = 2
  MaxRetries = 1
  AutoReconnect = TRUE
  ConnectOnNew = TRUE
SPECIFICATION FairSpec
CHECK_DEADLOCK FALSE
PROPERTIES
  ShutdownStopsGoroutines
