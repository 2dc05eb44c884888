SPECIFICATION SinkSpec
CONSTANTS
  a1 = a1
  Junk = Junk
  None = None
  Partitions <- MCPartitions
  Records <- MCRecords
  Alerts <- MCAlerts
  MaxLog <- MCMaxLog
  Earliest = FALSE
  MaxFaults = 1
INVARIANTS
  CommittedIsKept
\* The topic is bounded: the consumer stops when it is drained.
CHECK_DEADLOCK FALSE
