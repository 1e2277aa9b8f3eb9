\* Every constraint family of the MIP bridge on small models.
CONSTANTS
  One = 2
  EXACT = 1000
  SELECTORS = 32
  PASSES = 8
  WIDTH = 8
  BIG = 6
  WIDE = 9
  GapNum = 1
  GapDen = 4
  Problems <- Everything
SPECIFICATION Spec
INVARIANTS
  TranslationIsExact
  ReportIsReal
CHECK_DEADLOCK FALSE
