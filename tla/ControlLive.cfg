CONSTANTS
  None = None
  Conns = {c1, c2}
  MaxEvents = 3
  MaxBuffer = 2
  MaxFaults = 1
  NLevels = 3
  Canary = FALSE
  MaxDrills = 1
  MaxCommands = 0
  MaxFailures = 1
  MaxUnknown = 1
  MaxCrashes = 1
  MaxLags = 1
SPECIFICATION ControlSpec
CHECK_DEADLOCK FALSE
PROPERTIES OnlyResumeLeaves Recovers
