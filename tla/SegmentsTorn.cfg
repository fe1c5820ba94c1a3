CONSTANTS
  None = None
  MaxRecords = 3
  MaxPeriods = 0
  MaxFiles = 3
  MaxQueue = 2
  MaxFailures = 1
  MaxCrashes = 0
  Damage = {"torn"}
SPECIFICATION Spec
CHECK_DEADLOCK FALSE
INVARIANTS Durable
