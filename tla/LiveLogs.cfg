SPECIFICATION FairSpec
CONSTANTS
  v = v
  w = w
  p = p
  q = q
  Viewers = {v, w}
  Pods = {p, q}
  Texts = {"a", "odd"}
  Filter <- MCFilter
  MaxLines = 2
  MaxFaults = 2
  MaxSubscriptions = 2
INVARIANTS
  SentIsLog
  StopsSoon
  NobodyIsStuck
PROPERTIES
  RunEnds
  LinesAreScanned
CHECK_DEADLOCK FALSE
