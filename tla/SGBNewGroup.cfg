SPECIFICATION Spec

CONSTANTS
  numCols = 2
  EPS = 2
  Tuple <- Plane
  MaxTuples = 5

INVARIANTS
  GroupsAreCliques
  RTreeMirrorsBoxes
  InUseIffMembers
  CountedOnce
  IsolatedTuplesGrouped
  AggregatedIffLong

PROPERTIES
  OnlyNearTuplesCut
