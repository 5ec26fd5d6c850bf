CONSTANTS
  a = a
  b = b
  c = c
  NoRun = NoRun
  NoNode = NoNode
  Nodes <- OneNode
  Edges <- NoEdges
  Order <- MCOrder
  Executable = {a}
  Skippable = {a}
  Approvable = {a}
  RetryLimit <- MCRetryLimit
  MaxLimit = 2
  MaxAttempt = 1
  AiRuns = {r1, r2}
  MaxCrashes = 2
SPECIFICATION EngineSpec
INVARIANTS
  RunningHasExecution
  LiveRunIsAwaited
CHECK_DEADLOCK FALSE
