CONSTANTS
  r1 = r1
  r2 = r2
  Requests <- OneRequest
  LongRunning <- NoRequests
  SendCap = 1
  MaxConn = 2
  MaxRetries = 1
  AutoReconnect = TRUE
  ConnectOnNew = TRUE
SPECIFICATION Spec
CHECK_DEADLOCK FALSE
INVARIANTS
  TypeOK
  AtMostOneResponse
  NoOrphanedCaller
  DisconnectChanClosedOnce
  UnlockedAssignIsGuarded
  NoLeakedConnection
  StoppedMeansClosed
PROPERTIES
  ImplementsFutures
