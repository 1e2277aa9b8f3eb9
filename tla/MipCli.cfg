CONSTANTS
  Vars <- MCVars
  MIPs <- AllMIPs
  GapNum = 1
  GapDen = 4
  NoPoint = NoPoint
SPECIFICATION FairCliSpec
INVARIANTS
  NothingLost
  OptimalWithinGap
  InfeasibleIsProof
  TruncatedIsHonest
  BestBoundDominates
  EnumerationExact
  PrintedFollowsTheModel
PROPERTIES
  ImplementsPromise
  EventuallyReports
CHECK_DEADLOCK FALSE
