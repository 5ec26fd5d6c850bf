CONSTANTS
  Ids = {s1}
  RunIds = {1, 2}
  Crons <- MCCrons
  MaxTime = 3
  MaxDelay = 1
  MaxEdits = 2
  MaxBoots = 1
SPECIFICATION FairSpec
INVARIANTS
  TypeOK
  SlotRunsOnce
  OneActiveRun
  RunningIsExecuted
  QuietIsArmed
PROPERTIES
  SlotIsNotDropped
  DueSlotIsDecided
CHECK_DEADLOCK FALSE
