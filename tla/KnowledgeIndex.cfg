CONSTANTS
  Notes = {n1}
  Archivable = {n1}
  Collectors = {c1}
  MaxRevision <- MCRevisions
  MaxJobs = 3
  MaxFaults = 1
  MaxStarts = 2
SPECIFICATION FairSpec
INVARIANTS
  TypeOK
  OneCurrent
  CurrentIsComplete
  JobOutcome
  BacklogIsKept
  FreshWhenQuiet
PROPERTIES
  ContractSpec
  PendingIsServed
CHECK_DEADLOCK FALSE
