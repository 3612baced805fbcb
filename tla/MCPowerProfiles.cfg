SPECIFICATION Spec
CONSTANTS
  CpuFreqs <- MCCpuFreqs
  GpuFreqs <- MCGpuFreqs
  CpuTarget <- MCCpuTarget
  GpuMinTarget <- MCGpuMinTarget
  GpuMaxTarget <- MCGpuMaxTarget
  Clocks <- MCClocks
  Governors <- MCGovernors
  Configured <- MCConfigured
  Clients <- MCClients
  SaveFails = TRUE
  MaxCookie = 0
  MaxQueue = 0
INVARIANTS
  TypeOK
  CpuFollowsProfile
  GpuFollowsLevel
  SettingsSurviveRestart
CHECK_DEADLOCK FALSE
