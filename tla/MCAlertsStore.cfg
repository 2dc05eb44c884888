SPECIFICATION Spec
CONSTANTS
  a1 = a1
  a2 = a2
  Junk = Junk
  None = None
  Partitions <- MCPartitions
  Records <- MCRecords
  Alerts <- MCAlerts
  MaxLog <- MCMaxLog
  Earliest = FALSE
  MaxFaults = 2
INVARIANTS
  RowsPerDelivery
  CommittedIsStored
PROPERTIES
  LedgerSpec
\* The topic is bounded: the consumer stops when it is drained.
CHECK_DEADLOCK FALSE
