CONSTANTS
  None = None
  o1 = o1
  o2 = o2
  s1 = s1
  s2 = s2
  k1 = k1
  Orders = {o1, o2}
  Sym <- OneSymbol
  Key <- NoKeys
  Algo = {}
  MaxQty = 1
  MaxStream = 0
  MaxCrashes = 1
  BudgetBlocks = FALSE
  SlowAnswers = FALSE
SPECIFICATION TeamSpec
CHECK_DEADLOCK FALSE
PROPERTIES NoOrderWhileUnknown Resolves
