SPECIFICATION Spec
CONSTANTS
  Replicas = {r1}
  r1 = r1
  r2 = r2
  Beginning <- MCBeginning
  Events <- MCEvents
  MaxEvents = 0
  Routes <- MCRoutes
  Objects <- MCObjects
  Figures <- MCFigures
  Some <- MCSome
  Dashed <- MCDashed
INVARIANT AllocationCoversRequests
