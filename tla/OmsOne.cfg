CONSTANTS
  None = None
  o1 = o1
  o2 = o2
  s1 = s1
  s2 = s2
  k1 = k1
  Orders = {o1, o2}
  Sym <- OneSymbol
  Key <- SameKey
  Algo = {o2}
  MaxQty = 2
  MaxStream = 1
  MaxCrashes = 1
  BudgetBlocks = FALSE
  SlowAnswers = FALSE
SPECIFICATION OneSpec
CHECK_DEADLOCK FALSE
INVARIANTS TypeOK WriteAhead OneOrderPerKey TableIsTrue
PROPERTIES Refines
