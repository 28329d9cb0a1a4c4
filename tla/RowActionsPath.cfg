SPECIFICATION Spec
CONSTANTS
  Resources <- MCCertManager
  Names = {a, b}
  Typed <- MCTyped
  None = None
  NaN = NaN
  MaxCalls = 1
  MaxDisturbances = 0
SYMMETRY MCSymmetry
INVARIANT
  ActionReachesObject
CHECK_DEADLOCK FALSE
