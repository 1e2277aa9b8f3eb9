CONSTANTS
  Frames = {f1, f2}
  Arenas = {a1, a2}
  Cap = 4
  MaxNest = 2
  Sizes <- MCSizes
  QPs = {q1, q2}
  g_arena = a1
  HostNest = 3
  MaxBlocks = 2
  None = None
SYMMETRY MCSymmetry
SPECIFICATION MCSpec
INVARIANTS
  ChainIsCallStack
  BlocksDisjoint
  NothingLeaksBetweenCalls
CHECK_DEADLOCK FALSE
