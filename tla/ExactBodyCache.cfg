SPECIFICATION CacheSpec
CONSTANTS
  k1 = k1
  k2 = k2
  Keys = {k1, k2}
  Callers = {c1, c2}
  Cells = {x1, x2, x3}
  Bytes <- MCBytes
  Budget = 2
  MaxClears = 1
  None = None
INVARIANTS
  SingleFlight
  NoRetentionAcrossClear
  BudgetKept
PROPERTIES
  CallReturns
CHECK_DEADLOCK FALSE
