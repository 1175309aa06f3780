SPECIFICATION CacheSpec
CONSTANTS
  r1 = r1
  r2 = r2
  Runs = {r1, r2}
  FormatOf <- MCTwoFormats
  Mode <- MCMode
  Pieces = 2
  MaxFaults = 1
CHECK_DEADLOCK FALSE
INVARIANTS
  CacheChangesNothing
