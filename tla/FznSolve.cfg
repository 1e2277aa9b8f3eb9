CONSTANTS
  Vars <- MCVars
  CSPs <- MCCSPs
  CP_MAXVALS = 2
  CP_MAXNODES = 5
  MIP_NODES = 3
  GapNum = 1
  GapDen = 4
  NoPoint = NoPoint
SPECIFICATION FznSpec
INVARIANTS
  NothingPruned
  AnswersAreExact
  PrintedVerdictIsReal
PROPERTIES
  ImplementsPromise
  EventuallyAnswers
CHECK_DEADLOCK FALSE
