SPECIFICATION Spec
CONSTANTS
  Topologies <- All
  GoodIds <- Ids
  Window = 7
  Timeout = 2
  LatestBind = 4
  MaxAttempts = 2
CHECK_DEADLOCK FALSE
INVARIANT EveryEdgeMeetsAServer
