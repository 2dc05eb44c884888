SPECIFICATION Spec
CONSTANTS
  p1 = p1
  a1 = a1
  a2 = a2
  lone = lone
  k1 = k1
  k2 = k2
  None = None
  Junk = Junk
  Minor = Minor
  Earliest = FALSE
  MaxFaults = 1
  Window = 2
  MinAlerts = 2
  Cooldown = 2
  Partitions <- MCPartitions
  Records <- MCRecords
  MaxLog <- MCMaxLog
  Alerts <- MCAlerts
  ClusterKeys <- MCKeys
  KeyOf <- MCKeyOf
  Stamps <- MCStamps
INVARIANTS
  TypeOK
  AnswersMatch
  CommittedIsAdvised
  BurstsMakeClusters
  ClustersAreSound
  CountedOnce
PROPERTIES
  LedgerSpec
CHECK_DEADLOCK FALSE
