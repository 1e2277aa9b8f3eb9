CONSTANTS
  Width = 7
  ITER_BASE = 40
  ITER_STEP = 1
  Large = 31
  None = None
  Problems <- LowestProblems
SPECIFICATION Spec
INVARIANTS
  NeverAWrongAnswer
CHECK_DEADLOCK FALSE
