SPECIFICATION SchedSpec
CONSTANTS
  Sizes = {0, 1, 4, 40}
  MaxUnits = 4
  Sources <- MCSources
  CpuWorkers = {0, 1, 3}
  Limits = {1, 9, 24, 40, NoBytes}
  Residents = {0, 6, 40, NoBytes}
  Transients = {0, 3, 8}
  NoBytes = NoBytes
  U64Max = 40
  UnitBase = 2
  Amplification = 2
  HeadroomDivisor = 4
  CompilerHeadroom = 2
  SyntaxHeadroom = 3
  SyntaxReserve = 4
  IngestionHeadroom = 2
  Copies = 2
INVARIANTS
  BatchesExact
  WidthFitsAnySet
