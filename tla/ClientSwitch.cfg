SPECIFICATION ClientSpec
CONSTANTS
  e1 = e1
  e2 = e2
  MessageRoles <- Conversation
  Streams <- TestStreams
  Errors = {e1, e2}
  Attempts = 3
  BusyLimit = 2
  MaxLevel = 1
  Fallbacks = {TRUE, FALSE}
  MaxCalls = 2
  MaxSwitches = 2
CHECK_DEADLOCK FALSE
INVARIANT SwitchesOnce

