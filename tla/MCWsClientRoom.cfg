CONSTANTS
  q1 = q1
  q2 = q2
  q3 = q3
  q4 = q4
  Requests <- FourRequests
  SemCap = 2
  SendCap = 2
SPECIFICATION InOrderFairSpec
CHECK_DEADLOCK FALSE
INVARIANTS
  WsTypeOK
  AtMostOneLeftWaiting
  NoReplyLost
  TokensAccounted
PROPERTIES
  ConnectionWindsDown
