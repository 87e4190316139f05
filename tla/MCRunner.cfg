SPECIFICATION FairSpec
CONSTANTS
  a = a
  b = b
  Tasks = {a, b}
  DependsOn <- MCTwo
  Executions = {1, 2}
  MaxSandboxes = 4
  FaultSets <- MCFaults
INVARIANTS
  RunnerInv
  VerdictMatchesTasks

  
CHECK_DEADLOCK FALSE
