SPECIFICATION FairSpec
CONSTANTS
  Runs = {1, 2, 3}
  Pid <- MCPid
  MaxStarts = 3
  MaxCrashes = 1
  LongRuns = TRUE
  TornWrites = FALSE
  A = A
  B = B
  h1 = h1
  h2 = h2
  CLIs = {"cli"}
  Bots = {"bot"}
  Antons = {"bot"}
  Models = {A, B}
  HostsFor <- MCHostsFor
  Backend <- MCBackend
  NoBackend = "none"
  MaxSelects = 2
  MaxEnds = 1
  LongProbes = TRUE
  Chats = {"c1", "c2"}
  ChatRuns = {"r1", "r2"}
  Objects = 2
  Fronts = {"telegram", "discord", "repl"}
  HostIds = {"h1", "h2"}
  BackendIds = {"b"}
  ModelIds = {"m"}
  Editors = {"p", "q"}
  MaxCommands = 5
  Pieces = 3
  MaxBuffer = 2
  MaxChunk = 1
  Escapes = TRUE
CHECK_DEADLOCK FALSE
INVARIANTS Exclusive OneExecutor RecordTrue StopReaches OutputShown
PROPERTIES OwnChanges CommandsEnd
