CONSTANTS
  Half = 16
  Problems <- MCProblems
SPECIFICATION Spec
INVARIANTS
  ConvergedIsReal
PROPERTIES
  UpdatesDescend
CHECK_DEADLOCK FALSE
