SPECIFICATION SessionSpec
CONSTANTS
  a = a
  b = b
  big = big
  s = s
  Entries = {a, b, big, s}
  Streamed = {s}
  KeyOf <- MCKeyOf
  SizeOf <- MCSizeOf
  QueueCap = 2
  ByteLimit = 3
  DiscardOnDrop = TRUE
  MaxSessions = 2
INVARIANTS
  LiveWriterKeepsFile
  FinishOkIsComplete
  FailureKeepsOldGeneration
  TargetNeverTorn
  NoTemporaryLeft
PROPERTIES
  CallsReturn
  BudgetIsPermitGate
CHECK_DEADLOCK FALSE
