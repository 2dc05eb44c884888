SPECIFICATION FairSpec
CONSTANTS
  e1 = e1
  e2 = e2
  Junk = Junk
  Invalid = Invalid
  None = None
  Partitions <- MCPartitions
  Records <- MCRecords
  Events <- MCEvents
  MaxLog <- MCMaxLog
  Earliest = FALSE
  MaxFaults = 1
  MaxAlerts = 2
  CacheSize = 1
INVARIANTS
  DedupWindow
  CommittedLeavesTrace
PROPERTIES
  LedgerSpec
  Drains
\* The topic is bounded: the consumer stops when it is drained.
CHECK_DEADLOCK FALSE
