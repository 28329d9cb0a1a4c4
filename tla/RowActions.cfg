SPECIFICATION Spec
CONSTANTS
  Resources <- MCResources
  Names = {a, b}
  Typed <- MCTyped
  None = None
  NaN = NaN
  MaxCalls = 2
  MaxDisturbances = 1
SYMMETRY MCSymmetry
INVARIANTS
  SuccessIsApplied
  OneCallPerDialog
PROPERTIES
  EditKeepsOthers
CHECK_DEADLOCK FALSE
