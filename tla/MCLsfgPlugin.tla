---------------------------- MODULE MCLsfgPlugin ----------------------------
(* LsfgPlugin for TLC: two apps on one branch of the runtime and a game.   *)
EXTENDS LsfgPlugin

MCBranchOf == [a \in Apps |-> "24.08"]
=============================================================================
