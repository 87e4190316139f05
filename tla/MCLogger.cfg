SPECIFICATION Spec
CONSTANTS
  e1 = e1
  e2 = e2
  p0 = p0
  p1 = p1
  w1 = w1
  w2 = w2
  Events <- MCEvents
  Tables <- MCTables
  WriterTable <- MCClicks
  Partitions = {p0, p1}
  Pods = {w1, w2}
  Hash <- MCHash
  Garbage = Garbage
  MaxSends = 3
  FlushRows = 2
  MaxSnapshots = 2
  MaxPublished = 3
  FaultSets <- MCFaults
INVARIANTS
  LoggerInv
  LandsOnce
CONSTRAINT OneHalf
SYMMETRY MCPods
CHECK_DEADLOCK FALSE
