SPECIFICATION SpecL2

CONSTANTS
  numCols = 2
  EPS = 5
  Overlaps = {1, 3}
  Tuple <- Bay
  MAXCARD = 4
  MaxTuples = 6

INVARIANTS
  HullOfMembers
  HullIsClique

PROPERTY
  LostOnlyOffHull

CHECK_DEADLOCK FALSE
