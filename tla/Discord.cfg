SPECIFICATION DiscordSpec
CONSTANTS
  Messages = {1, 2}
  Objects = 2
  MaxQueue = 1
  Tiers = 1
  MaxEscalations = 1
  MaxCompactions = 1
  MayFail = TRUE
  MaxCommands = 1
CHECK_DEADLOCK FALSE
INVARIANT OwnTurn
PROPERTY MessagesEnd
