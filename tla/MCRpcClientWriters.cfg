CONSTANTS
  r1 = r1
  r2 = r2
  Requests <- TwoRequests
  LongRunning <- NoRequests
  SendCap = 2
  MaxConn = 2
  MaxRetries = 1
  AutoReconnect = TRUE
  ConnectOnNew = TRUE
SPECIFICATION FairSpec
CHECK_DEADLOCK FALSE
PROPERTIES
  OneWriterAtATime
