CONSTANTS
  a = a
  b = b
  c = c
  NoRun = NoRun
  NoNode = NoNode
  Nodes <- JoinNodes
  Edges <- JoinEdges
  Order <- MCOrder
  Executable = {a, b}
  Skippable = {}
  Approvable = {}
  RetryLimit <- MCRetryLimit
  MaxLimit = 2
  MaxAttempt = 1
  AiRuns = {r1, r2}
  MaxCrashes = 1
SPECIFICATION EngineSpec
PROPERTIES
  RecoveryInterruptsAll
CHECK_DEADLOCK FALSE
