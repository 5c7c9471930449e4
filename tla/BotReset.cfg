SPECIFICATION Spec
CONSTANTS
  m1 = m1
  m2 = m2
  m3 = m3
  Msgs = {m1, m2}
  Tier <- KeywordInM2
  NModels = 1
  MaxEscalations = 1
  MaxQueue = 1
  MaxCompactions = 0
  Grace = 1
  MaxRounds = 1
  Commands = {"new", "dir", "deescalate"}
  MaxReplacements = 1
  MayFail = {"createSession", "streaming.init"}
  Sids = {1, 2}
  Tids = {1, 2, 3}
  Agents = {1, 2, 3}
CHECK_DEADLOCK FALSE
INVARIANT NoDuplicateWork
