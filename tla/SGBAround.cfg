SPECIFICATION Spec

CONSTANTS
  Queries <- AllQueries
  CenterLists <- Lists
  Value = {0, 1, 2, 3, 4, 5, 6}
  Other = {1, 2}
  MaxTuples = 4

INVARIANTS
  TypeOK
  GroupedWithNearest
  ChainReachesCenter
  NearTuplesReturned
  SegmentsAreMaximal

CHECK_DEADLOCK FALSE
