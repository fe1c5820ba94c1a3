CONSTANTS
  Canary = FALSE
  MaxDrills = 1
  MaxCommands = 1
  MaxFailures = 0
  MaxUnknown = 0
  MaxCrashes = 0
  MaxLags = 1
SPECIFICATION TraderSpec
CHECK_DEADLOCK FALSE
INVARIANTS StaysStopped
