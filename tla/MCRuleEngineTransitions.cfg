SPECIFICATION RuleSpec
CONSTANTS
  d = d
  s = s
  x = x
  A = A
  B = B
  Unmarked = Unmarked
  Healthy = Healthy
  NoFault = NoFault
  NoState = NoState
  NoTime = NoTime
  RuleEvents <- MCNamedEvents
  Devices <- MCDevices
  Sources <- MCSources
  Entities <- MCEntities
  Scenarios <- MCNamedScenarios
  Window <- MCWindow
  Threshold <- MCThreshold
  Cooldown = 3
  MaxEvents = 4
INVARIANT TransitionsAreReported
CHECK_DEADLOCK FALSE
