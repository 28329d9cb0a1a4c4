SPECIFICATION Spec
CONSTANTS
  pod1 = pod1
  pod2 = pod2
  Pods = {pod1, pod2}
  Application = Application
  Logs <- MCLogs
  Texts = {"hit", "long"}
  Queries <- MCQueries
  MaxClock = 4
  MaxFaults = 2
INVARIANTS
  RowsAreLines
  NothingMissed
  StreamsClosed
CHECK_DEADLOCK FALSE
