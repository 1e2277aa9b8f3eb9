SPECIFICATION MCSpec
CONSTANTS
  U = 120
  Inf = 120000
  PassCap = 3
  NnzGrowth = 2
  SnapCap = 7
  Grid <- MCGrid
  DualGrid <- MCDuals
  Models <- MCModels
INVARIANTS NothingLost ReplayRestores EvidenceTransfers PrintedIsReal
