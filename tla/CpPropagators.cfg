CONSTANTS
  vx = vx
  vy = vy
  vz = vz
  Vars <- MCVars
  Problems <- Benign
  CP_MAXVALS = 4
  DIVISORS = 16
  MaxWord = 255
SPECIFICATION FairSpec
INVARIANTS KeepsSolutions FixpointDecides FactsExact
PROPERTIES PropagationEnds
CHECK_DEADLOCK FALSE
