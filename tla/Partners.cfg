SPECIFICATION MCSpec
CONSTANTS
  Requests = {"r1", "r2"}
  WithDiff = {"r1"}
  Providers = 2
  MayFailSend = TRUE
  MaxVersion = 3
  MaxBackoff = 2
  Refusals = {"limited", "gone", "other"}
  Http = {}
  Lsp = {"lsp"}
  Configured <- TwoServers
  Offers <- TheirTools
  Cost <- TheirCosts
  Allowed <- TheirNames
  Budget = 3
  Calls = {"c1", "c2"}
  Transports = 3
  Toggles = 1
  Commands = {"approve", "shell"}
  Approvers = {"approve"}
  Submits = 2
  MaxCompactions = 2
  MaxGrace = 1
  MaxProgress = 2
  Asker = "ask"
  Approving = {"a1", "a2"}
  MaxCalls = 3
  MaxSteps = 1
  Watchers = {"w1", "w2"}
  Base = 5
  Limits = {2, 9}
  MaxLines = 3
  MaxChanges = 2
  MaxSignals = 2
  Paths <- TwoPlugins
  Hooked <- TheirHooks
  Events = {"session_start", "tool_result", "tool_stream"}
  Wanted <- TheirWants
  Uncaught = {"tool_stream"}
  MaxEmits = 2
  MaxHandlers = 2
CHECK_DEADLOCK FALSE
INVARIANTS AnswerStands AnswersOwn DelegatesInTurn WatchModeHolds PluginsContained
PROPERTIES Approvals WaitsEnd
