SPECIFICATION FairSpec
CONSTANTS
  MinBudget = 8
  SafetyMargin = 1
  ShortAnswer = 1
  r = r
  x = x
  e = e
  g = g
  Calls = {r, x, e, g}
  Kind <- KindOf
  Name <- NameOf
  Args <- ArgsOf
  Batches <- SmallBatches
  MaxIters = 2
  NoProgressCap = 2
  RepromptAt = 1
  RetryOnMalformed = 1
  InjectAt = 2
  ReadLoopAt = 3
  ExecLoopAt = 2
  EditLoopAt = 2
  ReadsPerTurn = 1
  ReadWarn = 1
  ReadBudget = 2
  Parallel = TRUE
  Vault = TRUE
  MinTail = 3
  Window = 14
  MaxTokens = 2
  ToolTokens = 1
  CompactAt = 80
  Modes = {"auto", "force"}
  Concurrent = {}
  MaxAsks = 2
  MaxOutside = 1
CHECK_DEADLOCK FALSE
INVARIANT ExchangesWhole
PROPERTY AskEnds
