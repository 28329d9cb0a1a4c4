SPECIFICATION FairSpec
CONSTANTS
  n1 = n1
  n2 = n2
  x = x
  y = y
  a = a
  b = b
  Namespaces = {n1, n2}
  Names = {x, y}
  Labels = {a, b}
  Cells = {"5m"}
  All = All
  Queries <- MCQueries
  Kinds <- MCKinds
  Order <- MCOrder
  MaxObjects = 2
  MaxChanges = 1
  MaxFaults = 2
INVARIANTS
  FrameIsSound
  FrameIsComplete
  NoDuplicateRows
  FailsWithReason
PROPERTIES
  QueryEnds
CHECK_DEADLOCK FALSE
