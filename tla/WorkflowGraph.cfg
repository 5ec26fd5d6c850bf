CONSTANTS
  Nodes = {1, 2, 3}
  Order <- MCOrder
  Executable = {1, 2, 3}
  MaxLimit = 3
  NoTarget = NoTarget
  SomeStatus = {"pending", "ready", "running", "waiting_user", "paused",
                "completed", "failed", "interrupted"}
SPECIFICATION PlanSpec
INVARIANTS
  StableReadyIsTheSlice
  AdmitFillsTheSlots
  ProjectionShowsWork
  PlanIsTheRollback
CHECK_DEADLOCK FALSE
