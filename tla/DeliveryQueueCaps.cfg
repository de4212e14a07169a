CONSTANTS
  d1 = d1  d2 = d2  p1 = p1  p2 = p2
  Delivery = {d1, d2}
  Plugin = {p1}
  Owner <- OneOwner
  Route <- OneRoute
  Priority <- AllNormal
  MaxAttempts = 1
  Ladder <- ShortLadder
  ReclaimAfter = 0
  Retention = 0
  Ttl = 2
  Horizon = 1
  RouteMax = 0
  GlobalMax = 1
  ChannelCap = 1
  BatchLimit = 2
  OfflineDelay = 1
  BudgetDelay = 1
  MaxLag = 0
  StoreFaults = FALSE
SPECIFICATION Spec
INVARIANTS PumpInv
 
