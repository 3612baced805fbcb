SPECIFICATION Spec
CONSTANTS
  Users = {"panel", "terminal"}
  Looks = {"red", "blue"}
  Levels = {"dim", "full"}
  Backends = {"gcmhid", "serial", "channels", "multicolor"}
  Budget = 3
PROPERTIES
  WatcherCatchesUp
CHECK_DEADLOCK FALSE
