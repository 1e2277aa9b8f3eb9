SPECIFICATION Spec
CONSTANTS
  LP_INF = 1000
  ColdAfterBounds = FALSE
  MaxCalls = 6
  MaxRows = 2
  Window <- MCWindow
  Problems <- MCProblems
  Objectives <- MCObjectives
  Boxes <- MCBoxes
  NewRows <- MCNewRows
INVARIANTS WarmIsExact StandsOnBounds EvidenceRefutes
CHECK_DEADLOCK FALSE
