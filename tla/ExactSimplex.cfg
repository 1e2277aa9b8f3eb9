CONSTANTS
  Width = 7
  ITER_BASE = 40
  ITER_STEP = 1
  Large = 31
  None = None
  Problems <- MCProblems
SPECIFICATION Spec
INVARIANTS
  VerdictIsExact
  TableauIsCanonical
  NeverCycles
CHECK_DEADLOCK FALSE
