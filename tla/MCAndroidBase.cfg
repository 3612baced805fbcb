SPECIFICATION FairSpec
CONSTANTS
  Replacers = {"r1", "r2"}
  Hooks = {"hook"}
  Images = {"factory", "newer", "newest"}
  First = "factory"
  Input <- MCInput
  NoOne = "no one"
  NoImage = "no image"
INVARIANTS
  TypeOK
  ConfigMatchesBase
  LatestMatchesBase
PROPERTIES
  FailedMeansOriginal
  HookBuildsConfiguredBase
  EverybodyEnds
CHECK_DEADLOCK FALSE
