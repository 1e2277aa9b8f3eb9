\* A free variable is bounded beyond the clamp after its big-M rows were written.
CONSTANTS
  One = 2
  EXACT = 1000
  SELECTORS = 32
  PASSES = 8
  WIDTH = 8
  BIG = 6
  WIDE = 9
  GapNum = 1
  GapDen = 4
  Problems <- BeyondTheClamp
SPECIFICATION Spec
INVARIANT UnsatIsCertain
CHECK_DEADLOCK FALSE
