SPECIFICATION Spec

CONSTANTS
  Queries <- Separation
  CenterLists <- TwoCenters
  Value = {0, 1, 2, 3, 4, 5, 6, 7}
  Other = {1}
  MaxTuples = 4

INVARIANT
  ChainsReachCenter

CHECK_DEADLOCK FALSE
