SPECIFICATION FairSpec
CONSTANTS
  None = None
  Torn = Torn
  Local = Local
  MaxFiles = 2
  DayLength = 100
  SlotLength = 10
  SlotLimit = 3
  RecordLimit = 3
  PerKind = 4
  FeedLimit = 6
  WatchLimit = 3
  ClusterWindow = 10
  ClusterMin = 3
  Alerts <- MCAlerts
  Heads <- MCHeads
  Bundles <- MCBundles
  Contexts <- MCContexts
  Answers <- MCAnswers
  Scenarios <- MCScenarios
  MaxFaults = 2
  MaxWire = 2
  IdleLimit = 2
INVARIANTS
  OneConnection
  NewestIsShown
  GuardedRecords
  MigrationKeeps
PROPERTIES
  ConsoleCatchesUp
CHECK_DEADLOCK FALSE
