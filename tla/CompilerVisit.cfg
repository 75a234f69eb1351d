SPECIFICATION VisitSpec
CONSTANTS
  ItemCount = 5
  Workers = {w1, w2}
  Window = 3
  WorkMayFail = {0, 3}
  VisitMayFail = {2}
  Units <- MCUnits
  Weight <- MCWeight
  Capacity = 4
  NoLimit = NoLimit
INVARIANTS
  UsedIsLivePermits
  WithinCapacity
  SleeperHasWaker
  VisitsExact
  PermitsReturned
PROPERTIES
  VisitReturns
CHECK_DEADLOCK FALSE
