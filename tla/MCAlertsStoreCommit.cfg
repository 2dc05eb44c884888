\* One partition with two alerts, no rebalance and no crash.
SPECIFICATION Spec
CONSTANTS
  a1 = a1
  a2 = a2
  Junk = Junk
  None = None
  Partitions <- MCOnePartition
  Records <- MCOnlyAlerts
  Alerts <- MCAlerts
  MaxLog <- MCTwoRecords
  Earliest = TRUE
  MaxFaults = 0
INVARIANT
  CommitsFollowSuccess
CHECK_DEADLOCK FALSE
