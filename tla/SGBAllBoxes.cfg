SPECIFICATION Spec

CONSTANTS
  numCols = 2
  EPS = 2
  Overlaps <- AllOverlaps
  Tuple <- Cross
  MAXCARD = 4
  MaxTuples = 5

INVARIANTS
  TypeOK
  GroupsAreCliques
  BoxIsExact
  AtMostOneGroup
  RTreeMirrorsBoxes
  EveryTupleGrouped

PROPERTIES
  DroppedTupleOverlaps
