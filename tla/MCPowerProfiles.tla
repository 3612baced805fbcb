-------------------------- MODULE MCPowerProfiles --------------------------
(* Instances of PowerProfiles for TLC.  The first, for the limits: three   *)
(* CPU and two GPU frequencies with the targets of the profiles on and     *)
(* between them, a manual clock that has to be rounded, no client.  The    *)
(* second, for the holds: two clients, and nothing to choose on the GPU.   *)
EXTENDS PowerProfiles

MCCpuFreqs     == {1, 2, 3}
MCGpuFreqs     == {2, 5}
MCCpuTarget    == [eco |-> 1, balanced |-> 2, performance |-> 4]
MCGpuMinTarget == [eco |-> 0, balanced |-> 0, performance |-> 4]
MCGpuMaxTarget == [eco |-> 1, balanced |-> 5, performance |-> 5]
MCClocks       == {3}
MCGovernors    == {"schedutil", "powersave"}
MCConfigured   == [eco |-> "powersave", balanced |-> "schedutil",
                   performance |-> "schedutil"]
MCClients      == {}

HoldsCpuFreqs     == {1, 2}
HoldsGpuFreqs     == {1}
HoldsCpuTarget    == [eco |-> 1, balanced |-> 1, performance |-> 2]
HoldsGpuMinTarget == [p \in Profiles |-> 0]
HoldsGpuMaxTarget == [p \in Profiles |-> 1]
HoldsClocks       == {}
HoldsGovernors    == {"schedutil"}
HoldsConfigured   == [p \in Profiles |-> "schedutil"]
HoldsClients      == {"game", "tool"}
=============================================================================
