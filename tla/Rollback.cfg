CONSTANTS
  a = a
  b = b
  NoRun = NoRun
  NoNode = NoNode
  Nodes <- ChainNodes
  Edges <- ChainEdges
  Order <- MCOrder
  Executable = {a}
  Skippable = {}
  Approvable = {b}
  RetryLimit <- MCRetryLimit
  MaxLimit = 1
  MaxAttempt = 2
  AiRuns = {r1}
  MaxCrashes = 1
  Coordinators = {k1, k2}
SPECIFICATION FairRollbackSpec
INVARIANTS
  RollbackTypeOK
  SupersededRunIsStopped
PROPERTIES
  RollbackContractSpec
  RollbackIsCoordinated
  StartupEnds
CHECK_DEADLOCK FALSE
