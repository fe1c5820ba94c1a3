CONSTANTS
  None = None
  Conns = {c1, c2}
  MaxEvents = 3
  MaxBuffer = 2
  MaxFaults = 1
  NLevels = 3
  Canary = TRUE
  MaxDrills = 0
  MaxCommands = 2
  MaxFailures = 1
  MaxUnknown = 1
  MaxCrashes = 1
  MaxLags = 1
SPECIFICATION ProtocolsSpec
CHECK_DEADLOCK FALSE
SYMMETRY Interchangeable
INVARIANTS TypesOK NoStray BookIsTrue OneRequest BookHasScales StaysStopped FlattenOnRecord
