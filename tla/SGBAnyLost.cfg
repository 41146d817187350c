SPECIFICATION Spec
CONSTANTS
  Capacity = 5
  numCols = 2
  EPS = 1
  metric = 1
  Tuple <- Line
  MAXCARD = 12
  MaxReScan = 0
INVARIANT AllAggregated
CHECK_DEADLOCK FALSE
