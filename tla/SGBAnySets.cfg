SPECIFICATION FairSpec

CONSTANTS
  Capacity = 4
  numCols = 2
  EPS = 3
  metric <- NotGiven
  Tuple <- Corner
  MAXCARD = 12
  MaxReScan = 1

INVARIANTS
  TypeOK
  SetsAreComponents
  NewSetIsRoot
  GroupsDisjointAndSound

PROPERTY
  QueryFinishes

CHECK_DEADLOCK FALSE
