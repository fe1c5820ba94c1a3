CONSTANTS
  None = None
  Plans <- SmallPlans
  MaxFaults = 1
  Kinds = {"failures"}
  MaxCloses = 1
  CloseOnExit = {TRUE, FALSE}
SPECIFICATION Spec
CHECK_DEADLOCK FALSE
INVARIANTS EntryHasTrade
