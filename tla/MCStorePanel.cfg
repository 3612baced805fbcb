SPECIFICATION FairSpec
CONSTANTS
  Apps = {"game", "tool"}
  Catalogs <- MCCatalogs
  Disks <- MCDisks
  Budget = 3
INVARIANTS
  JobsOK
PROPERTIES
  JobsEnd
  ReplacementOwed
  PendingServed
CHECK_DEADLOCK FALSE
