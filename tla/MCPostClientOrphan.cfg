CONSTANTS
  p1 = p1
  p2 = p2
  Requests <- TwoPosts
  SendPostCap = 1
SPECIFICATION PostSpec
CHECK_DEADLOCK FALSE
INVARIANTS
  NoOrphanedPost
