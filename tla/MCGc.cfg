SPECIFICATION Spec
CONSTANTS
  j1 = j1
  j2 = j2
  a = a
  b = b
  g1 = g1
  NoLoad = NoLoad
  Jobs = {j1, j2}
  Columns = {a, b}
  ColumnsOf <- MCColumnsOf
  PrimaryOf <- MCPrimaryOf
  Gcs = {g1}
  MinAges = {3}
  WriteTime = 1
  GcTime = 1
  MaxTime = 6
  Faults = {"storage", "driver", "manifest"}
INVARIANTS
  GcInv
  OrphansAreCollected
CHECK_DEADLOCK FALSE
