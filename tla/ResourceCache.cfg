SPECIFICATION FairSpec
CONSTANTS
  Requests = {q1, q2}
  Ids = {pod, crd}
  Core = {pod}
  None = None
  TTL = 0
  Discovery = 0
  MaxTime = 1
  MaxChanges = 1
  MaxFaults = 1
INVARIANTS
  NobodyIsStuck
  AnswersAreFresh
  AnswersReflectCluster
PROPERTIES
  LookupSpec
  EveryQueryAnswered
  EmptyCacheHeals
