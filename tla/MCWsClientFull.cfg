CONSTANTS
  q1 = q1
  q2 = q2
  q3 = q3
  q4 = q4
  Requests <- FourRequests
  SemCap = 1
  SendCap = 1
SPECIFICATION WsSpec
CHECK_DEADLOCK FALSE
SYMMETRY RequestSymmetry
INVARIANTS
  NothingLeftWaiting
