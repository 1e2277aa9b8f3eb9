SPECIFICATION Spec
CONSTANTS
  LP_INF = 1000
  ColdAfterBounds = TRUE
  MaxCalls = 4
  MaxRows = 2
  Window <- MCWindow
  Problems <- MCProblems
  Objectives <- MCObjectives
  Boxes <- MCBoxes
  NewRows <- MCNewRows
CHECK_DEADLOCK FALSE
INVARIANTS WarmIsExact
