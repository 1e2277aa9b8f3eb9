CONSTANTS
  QPs <- MCQPs
  Starts <- MCStarts
  Multipliers <- MCMultipliers
  DenseLimit = 4
  Boxes = 2
  IterCap = 7
  Far = 20
  Huge = 30
  Span = 2
  Scalars <- MCScalars
SPECIFICATION FairSpec
INVARIANTS
  LineIsReal
  WorkingSetHolds
PROPERTIES
  StepsDescend
  EventuallyPrints
CHECK_DEADLOCK FALSE
