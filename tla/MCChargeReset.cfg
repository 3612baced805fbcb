SPECIFICATION Spec
CONSTANTS
  Asked = {40, 60}
  Desktop = {90, 100}
  SelfGrace = 1
  ReplugGrace = 2
  Interval = 4
  ResetAnytime = FALSE
  WritesFail = FALSE
  BatteryLate = FALSE
  Budget = 1
PROPERTIES
  ResetNotAdopted
CHECK_DEADLOCK FALSE
