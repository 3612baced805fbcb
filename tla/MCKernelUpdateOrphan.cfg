SPECIFICATION Spec
CONSTANTS
  MaxRelease = 2
  NChunks = 2
  HookSurvives = TRUE
INVARIANT RestoredMeansPrevious
CHECK_DEADLOCK FALSE
