SPECIFICATION FairSpec
CONSTANTS
  MaxRelease = 3
  NChunks = 2
  HookSurvives = FALSE
INVARIANTS
  TypeOK
  BootableAtRest
  RestoredMeansPrevious
  ProtectedAtRest
PROPERTIES
  RecordsOnlyLiveSets
  UpdateEnds
  ImplementsContract
CHECK_DEADLOCK FALSE
