CONSTANTS
  a = a
  b = b
  c = c
  d = d
  NoRun = NoRun
  NoNode = NoNode
  Nodes <- MCNodes
  Edges <- MCEdges
  Order <- MCOrder
  Executable <- MCExecutable
  Skippable <- MCSkippable
  RetryLimit <- MCRetryLimit
  MaxLimit = 2
  MaxAttempt = 2
  AiRuns = {}
SPECIFICATION Spec
INVARIANTS
  WaitingNodeCanComplete
CHECK_DEADLOCK FALSE
