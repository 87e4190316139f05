SPECIFICATION FairSpec
CONSTANTS
  j1 = j1
  j2 = j2
  j3 = j3
  a = a
  b = b
  NoLoad = NoLoad
  Jobs = {j1, j2, j3}
  Columns = {a, b}
  ColumnsOf <- MCColumnsOf3
  Partitions <- MCPartitions
  PartitionOf <- MCPartitionOf3
  Attempts <- MCAttempts3
  MaxRequests = 6
  Faults = {}
INVARIANTS
  ReadsFollowLog
PROPERTIES
  JobsGetCommitted
CHECK_DEADLOCK FALSE
