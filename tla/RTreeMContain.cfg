SPECIFICATION Spec

CONSTANTS
  numCols = 2
  MAXCARD = 4
  Boxes <- Data
  Queries <- Searches
  MaxId = 6
  MaxDelete = 0

INVARIANT ContainSearchComplete

CHECK_DEADLOCK FALSE
