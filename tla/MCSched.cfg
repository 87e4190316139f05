SPECIFICATION Spec
SYMMETRY TickSymmetry
CONSTANTS
  t1 = t1
  t2 = t2
  Ticks = {t1, t2}
  Dags <- MCDags2
  EnqueueCap = 1
  MaxTime = 3
  MaxWorkflows = 3
  FaultSets <- MCFaults
INVARIANTS
  StartedOnce
  RunningIsDriven
  NoBoundarySkipped
PROPERTIES
  RunsMoveForward
CONSTRAINT SmallWithFaults
