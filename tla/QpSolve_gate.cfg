CONSTANTS
  QPs <- TailQPs
  Starts <- MCStarts
  Multipliers <- MCMultipliers
  DenseLimit = 4
  Boxes = 2
  IterCap = 7
  Far = 20
  Huge = 30
  Span = 2
  Scalars <- MCScalars
SPECIFICATION Spec
INVARIANTS
  GateIsExact
CHECK_DEADLOCK FALSE
