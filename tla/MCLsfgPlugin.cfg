SPECIFICATION Spec
CONSTANTS
  Games = {"game"}
  Apps = {"retro", "browser"}
  Branches = {"24.08"}
  BranchOf <- MCBranchOf
  Budget = 2
INVARIANTS
  WrapperFollowsState
PROPERTIES
  TeardownOrder
