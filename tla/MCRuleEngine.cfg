SPECIFICATION RuleSpec
CONSTANTS
  d = d
  s = s
  x = x
  A = A
  B = B
  Unmarked = Unmarked
  Healthy = Healthy
  NoFault = NoFault
  NoState = NoState
  NoTime = NoTime
  RuleEvents <- MCEvents
  Devices <- MCDevices
  Sources <- MCSources
  Entities <- MCEntities
  Scenarios <- MCScenarios
  Window <- MCWindow
  Threshold <- MCThreshold
  Cooldown = 3
  MaxEvents = 4
INVARIANTS RuleTypeOK CooldownHolds BurstsAreReported InOrderWindowsAreExact OneAlertPerEpisode
CHECK_DEADLOCK FALSE
