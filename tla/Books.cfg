CONSTANTS
  None = None
  c1 = c1
  c2 = c2
  Conns = {c1, c2}
  MaxUpdates = 3
  MaxEvents = 3
  MaxBuffer = 2
  MaxFaults = 1
  NLevels = 3
SPECIFICATION Spec
CHECK_DEADLOCK FALSE
INVARIANTS TypeOK StreamBooks SnapshotComes
PROPERTIES Resyncs
