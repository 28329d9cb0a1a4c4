SPECIFICATION Spec
CONSTANTS
  p1 = p1
  p2 = p2
  p3 = p3
  Procs = {p1, p2, p3}
  Jobs <- MCJobs
  None = None
  Cut = Cut
  TTL = 1
  MaxTime = 1
  MaxFaults = 1
INVARIANTS
  AloneGetsOwn
  KubeconfigKept
CHECK_DEADLOCK FALSE
