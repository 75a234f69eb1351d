SPECIFICATION SerialSpec
CONSTANTS
  FileCount = 2
  MaxVersion = 1
  DeclCount <- ShrinkingDeclCount
  Threads = {q1}
  Consume = TRUE
  MaxFunc = 3
  None = None
INVARIANTS CfgIsOfFunction
