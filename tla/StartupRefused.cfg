CONSTANTS
  Notes = {n1}
  Archivable = {n1}
  Collectors = {c1}
  MaxRevision <- MCRevisions
  MaxJobs = 3
  MaxFaults = 0
  MaxStarts = 2
SPECIFICATION Spec
INVARIANT StartupNeverRefuses
CHECK_DEADLOCK FALSE
