CONSTANTS
  Trials = {"p"}
  Kinds = {"trend"}
  MaxEdits = 1
  MaxData = 1
  MaxRuns = 3
SPECIFICATION ResearchSpec
CHECK_DEADLOCK FALSE
INVARIANTS TriesCounted
