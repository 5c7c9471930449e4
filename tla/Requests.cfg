SPECIFICATION RequestSpec
CONSTANTS
  MinBudget = 4
  SafetyMargin = 2
  ShortAnswer = 1
  Window = 16
  MaxTokens = 3
  ToolTokens = 1
  CompactAt = 60
  Inputs <- Conversations
  MinTails = {1, 3}
  MaxLen = 5
  e1 = e1
  e2 = e2
  MessageRoles <- Conversation
  Streams <- TestStreams
  Errors = {e1}
  Attempts = 3
  BusyLimit = 2
  MaxLevel = 1
  Fallbacks = {TRUE, FALSE}
  MaxCalls = 2
  MaxSwitches = 1
CHECK_DEADLOCK FALSE
INVARIANTS PairsKept AnswerKept LoopsAgree BodyFitsMode AnswerIsWhatWasSent
PROPERTIES RequestsEnd
