SPECIFICATION Spec
CONSTANTS
  Writers = {"w1", "w2"}
  Limit = 1
  MaxCheckpoints = 1
  Versions = 2
  Checkpoints = 2
  MayCrash = TRUE
  Processes = {"p", "q"}
  Projects = {"j"}
  Calls = {"c"}
  Sources = {"f"}
  MaxEntries = 1
  PerProject = 1
  Databases = 2
  MaxId = 3
  Edits = 1
  Latest = 3
  UpgradeRuns = 4
CHECK_DEADLOCK FALSE
INVARIANTS CheckpointsStay RollbackIsWhole TreeRestored PassIsChecked
PROPERTIES ReplacedIsKept ReviewsStay
