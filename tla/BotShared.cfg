SPECIFICATION Spec
CONSTANTS
  m1 = m1
  m2 = m2
  m3 = m3
  Msgs = {m1, m2, m3}
  Tier <- KeywordInM2
  NModels = 1
  MaxEscalations = 1
  MaxQueue = 1
  MaxCompactions = 1
  Grace = 0
  MaxRounds = 1
  Commands = {"new"}
  MaxReplacements = 1
  MayFail = {}
  Sids = {1, 2}
  Tids = {1, 2, 3}
  Agents = {1, 2, 3}
CHECK_DEADLOCK FALSE
INVARIANT AgentNotShared
