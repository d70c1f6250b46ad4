SPECIFICATION Spec
CONSTANTS
  NSlots = 2
  MaxKeys = 4
  Emergency = {2}
  MaxCalls = 3
  MaxReclaims = 1
  Socket = TRUE
  MayDisable = TRUE
  Period = 1
INVARIANTS KeysInv OneTransition NothingForgotten
