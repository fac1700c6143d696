CONSTANTS
  a1 = a1
  a2 = a2
  w1 = w1
  l1 = l1
  l2 = l2
  Posts <- TwoPosts
  Upgrades <- OneUpgrade
  Listeners <- TwoListeners
  MaxClients = 1
SPECIFICATION SrvFairSpec
CHECK_DEADLOCK FALSE
INVARIANTS
  SrvTypeOK
  ClientsAccounted
PROPERTIES
  ShutdownCompletes
