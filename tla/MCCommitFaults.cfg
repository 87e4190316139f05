SPECIFICATION Spec
CONSTANTS
  j1 = j1
  j2 = j2
  j3 = j3
  a = a
  b = b
  NoLoad = NoLoad
  Jobs = {j1, j2}
  Columns = {a, b}
  ColumnsOf <- MCColumnsOf2
  Partitions <- MCPartitions
  PartitionOf <- MCPartitionOf2
  Attempts <- MCAttempts2
  MaxRequests = 3
  Faults = {"s3", "db", "timeout", "server", "driver", "wrapped"}
INVARIANTS
  TypeOK
  AtMostOneCommitPerLoad
  CarriesForward
  ToldCommitted
PROPERTIES
  ImplementsTableLog
CHECK_DEADLOCK FALSE
