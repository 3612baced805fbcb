SPECIFICATION FairSpec
CONSTANTS
  Asked = {40}
  Desktop = {90, 100}
  SelfGrace = 1
  ReplugGrace = 2
  Interval = 4
  ResetAnytime = TRUE
  WritesFail = TRUE
  BatteryLate = TRUE
  Budget = 3
INVARIANTS
  TypeOK
  AppliedIsStored
PROPERTIES
  ThresholdKept
  BypassHealed
  Converges
CHECK_DEADLOCK FALSE
