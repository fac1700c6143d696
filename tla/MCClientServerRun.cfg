CONSTANTS
  r1 = r1
  r2 = r2
  r3 = r3
  r4 = r4
  r5 = r5
  r6 = r6
  r7 = r7
  r8 = r8
  r9 = r9
  Requests <- NineRequests
  LongRunning <- NoRequests
  SendCap = 1
  MaxConn = 1
  MaxRetries = 1
  AutoReconnect = FALSE
  ConnectOnNew = TRUE
  SemCap = 1
  ServerCap = 1
  NetCap = 1
SPECIFICATION MCSpec
CHECK_DEADLOCK FALSE
INVARIANTS
  OneCustodian
  NoRingOfWaiting
PROPERTIES
  EveryCallReturns
