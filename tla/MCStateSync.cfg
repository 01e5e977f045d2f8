SPECIFICATION Spec
CONSTANTS
  Producers = {"p1", "p2"}
  Owns <- MCOwns
  Sub = {"x"}
  Leaves = {"1"}
  Alias <- MCAlias
  MaxCalls = 3
INVARIANT QuietClientsAgree
PROPERTY DiffReachesItsTarget
CHECK_DEADLOCK FALSE
