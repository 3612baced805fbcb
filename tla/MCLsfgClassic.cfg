SPECIFICATION Spec
CONSTANTS
  Names <- MCNames
  Apps = {"retro"}
  Budget = 1
INVARIANTS
  DefaultStays
  ScriptFollowsProfile
