SPECIFICATION FairSources
CONSTANTS
  None = None
  Inodes = {1, 2, 3}
  MaxLines = 2
  MaxRotations = 2
  MaxMoves = 3
  CompletedLimit = 1
  MaxFaults = 1
  Columns <- MCColumns
  About <- MCAbout
  MaxSampleRows = 3
  MaxMetricFields = 2
  Tables <- MCTables
  Arguments <- MCArguments
  CheckpointEvery = 2
  MaxPasses = 2
  MaxKills = 3
INVARIANTS
  NothingForgotten
  ThreeCopiesAtMost
  ReplayIsExact
  EndsForAReason
  FaultsAreFlagged
PROPERTIES
  RotatedDrains
CHECK_DEADLOCK FALSE
