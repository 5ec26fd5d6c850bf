CONSTANTS
  a = a
  b = b
  c = c
  NoRun = NoRun
  NoNode = NoNode
  Nodes <- ChainNodes
  Edges <- ChainEdges
  Order <- MCOrder
  Executable = {b}
  Skippable = {b}
  Approvable = {a}
  RetryLimit <- MCRetryLimit
  MaxLimit = 2
  MaxAttempt = 2
  AiRuns = {r1}
  MaxCrashes = 2
SPECIFICATION EngineSpec
PROPERTIES
  RecoveryRespectsUser
CHECK_DEADLOCK FALSE
