SPECIFICATION FairSpec
CONSTANTS
  da = da
  f1 = f1
  f2 = f2
  Assistant = Assistant
  Null = Null
  Specialists = {da}
  Forms = {f1}
  Values = {0, 1}
  MaxSteps = 2
  MaxRuns = 2
  MaxEdits = 1
  FaultSets <- MCFaultSets
  SavedRows <- MCRows
INVARIANTS
  ChatInv
  RowFollowsTab
PROPERTIES
  EditsSurvive
  HandoffServed
CHECK_DEADLOCK FALSE
