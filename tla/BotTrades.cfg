CONSTANTS
  None = None
  Plans <- SmallPlans
  MaxFaults = 1
  Kinds = {"failures", "crashes", "stops"}
  MaxCloses = 1
  CloseOnExit = {TRUE, FALSE}
SPECIFICATION FairSpec
CHECK_DEADLOCK FALSE
INVARIANTS TypeOK TradesEndFlat StopStays
PROPERTIES NothingForgotten
