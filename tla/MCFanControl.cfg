SPECIFICATION FairSpec
CONSTANTS
  MinPwm = 2
  MaxPwm = 10
  RampUp = 3
  RampDown = 1
  Quantum = 3
  FanSafePwm = 5
  LowPwm = 1
  SleepPwm = 5
  SafeAbove = 3
  MaxTemp = 4
  BootPwms <- MCBootPwms
  MaxLag = 1
  Curves <- MCCurves
INVARIANTS
  TypeOK
  RegimeLimits
  UnattendedIsSafe
  TargetFollowsCurve
PROPERTIES
  RampBounded
  BlindFanIsSafe
CHECK_DEADLOCK FALSE
