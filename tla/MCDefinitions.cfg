SPECIFICATION Spec
CONSTANTS
  t1 = t1
  t2 = t2
  s1 = s1
  s2 = s2
  c1 = c1
  c2 = c2
  int = int
  Bad = Bad
  Absent = Absent
  Null = Null
  Tables = {t1, t2}
  Specs = {s1, s2}
  Columns = {c1, c2}
  Signature <- MCSignature
  Proposals <- MCProposals
  Drafts <- MCDrafts
  MaxPRs = 2
  MaxDeliveries = 3
  MaxCrashes = 1
  FaultSets <- MCFaultSets
INVARIANTS
  DefinitionsInv
  
  SdkFollowsMain

  
CONSTRAINT CalmOverlap
CHECK_DEADLOCK FALSE
