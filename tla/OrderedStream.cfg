SPECIFICATION StreamSpec
CONSTANTS
  FileCount = 7
  Workers = {w1, w2}
  LookAhead = 2
  MayPanic = {3}
  Units <- MCUnits
  Weight <- MCWeight
  Capacity = 4
  NoLimit = NoLimit
INVARIANTS
  CanonicalPublication
  WindowBoundsUnits
PROPERTIES
  StreamCompletes
CHECK_DEADLOCK FALSE
