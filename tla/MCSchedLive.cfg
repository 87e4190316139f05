SPECIFICATION FairSpec
CONSTANTS
  t1 = t1
  t2 = t2
  Ticks = {t1}
  Dags <- MCDags2
  EnqueueCap = 2
  MaxTime = 3
  MaxWorkflows = 3
  FaultSets <- WorkflowFaults
PROPERTIES
  EveryBoundaryRuns
