SPECIFICATION Spec

CONSTANTS
  numCols = 2
  MAXCARD = 4
  Boxes <- Data
  Queries <- Searches
  MaxId = 12
  MaxDelete = 2

INVARIANTS
  TreeBalanced
  CoversExact
  LeavesHoldEntries
  RandomSearchFindsOne
  SearchComplete

CHECK_DEADLOCK FALSE
