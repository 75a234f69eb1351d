SPECIFICATION Spec
CONSTANTS
  FileCount = 2
  MaxVersion = 1
  DeclCount <- ShrinkingDeclCount
  Threads = {q1, q2}
  Consume = TRUE
  MaxFunc = 1
  None = None
SYMMETRY ThreadSymmetry
INVARIANTS DeclIndexCurrent GlobalIndexCurrent OneCfgPerFunc
