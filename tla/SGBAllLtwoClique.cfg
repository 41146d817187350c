SPECIFICATION SpecL2

CONSTANTS
  numCols = 2
  EPS = 5
  Overlaps = {1}
  Tuple <- Diagonal
  MAXCARD = 4
  MaxTuples = 5

INVARIANT
  MembersWithinLTWO

CHECK_DEADLOCK FALSE
