SPECIFICATION FairSpec
CONSTANTS
  a = a
  b = b
  s = s
  Texts = {a, b, s}
  Lists <- Worklists
  Subtasks <- OneSubtask
  Configs <- Options
  MaxRetries = 1
  MaxIterations = 2
  MaxTasks = 4
  MaxDepth = 1
  MaxRuns = 2
CHECK_DEADLOCK FALSE
INVARIANTS NothingLeftBehind TicksHaveWork
PROPERTIES TicksAreEarned RunEnds
