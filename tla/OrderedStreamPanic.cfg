SPECIFICATION StreamSpec
CONSTANTS
  FileCount = 7
  Workers = {w1, w2}
  LookAhead = 2
  MayPanic = {0}
  Units <- MCUnits
  Weight <- MCWeight
  Capacity = 4
  NoLimit = NoLimit
PROPERTIES
  PanicReachesCaller
CHECK_DEADLOCK FALSE
