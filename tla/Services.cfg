CONSTANTS
  None = None
  MaxTrades = 2
  MaxFaults = 2
  Quantities <- BothWays
  FileFaults = 2
  LastCommit = 3
  UpdateFaults = 2
  MaxManual = 1
SPECIFICATION ServicesSpec
CHECK_DEADLOCK FALSE
INVARIANTS RecordsAreKept UpdatesAreSafe
PROPERTIES ViewFollows AccountHeals Ships LatestRuns
