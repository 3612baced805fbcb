SPECIFICATION FairSpec
CONSTANTS
  CpuFreqs <- HoldsCpuFreqs
  GpuFreqs <- HoldsGpuFreqs
  CpuTarget <- HoldsCpuTarget
  GpuMinTarget <- HoldsGpuMinTarget
  GpuMaxTarget <- HoldsGpuMaxTarget
  Clocks <- HoldsClocks
  Governors <- HoldsGovernors
  Configured <- HoldsConfigured
  Clients <- HoldsClients
  SaveFails = FALSE
  MaxCookie = 2
  MaxQueue = 2
INVARIANTS
  AnnouncedIsEffective
  HoldsHaveOwners
PROPERTY DeadHoldsDropped
CHECK_DEADLOCK FALSE
