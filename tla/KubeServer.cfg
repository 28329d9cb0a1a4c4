SPECIFICATION FairSpec
CONSTANTS
  N = 3
  MaxConns = 1
  MaxErrors = 1
  None = None
PROPERTIES
  PortOwnerSpec
  StopIsFinal
  InstanceEnds
  NewestServes
CHECK_DEADLOCK FALSE
