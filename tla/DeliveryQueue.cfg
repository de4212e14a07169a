CONSTANTS
  d1 = d1  d2 = d2  p1 = p1  p2 = p2
  Delivery = {d1}
  Plugin = {p1, p2}
  Owner <- OneOwner
  Route <- OneRoute
  Priority <- AllNormal
  MaxAttempts = 2
  Ladder <- ShortLadder
  ReclaimAfter = 1
  Retention = 1
  Ttl = 4
  Horizon = 3
  RouteMax = 0
  GlobalMax = 1
  ChannelCap = 1
  BatchLimit = 1
  OfflineDelay = 1
  BudgetDelay = 2
  MaxLag = 1
  StoreFaults = FALSE
SPECIFICATION FairSpec
INVARIANTS DeliveredWasTaken SendsCounted
PROPERTIES  ImplementsLifecycle Settles
