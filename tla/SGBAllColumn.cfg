SPECIFICATION Spec
CONSTANTS
  numCols = 1
  EPS = 1
  Overlaps = {1}
  Tuple <- Column
  MAXCARD = 4
  MaxTuples = 6
PROPERTY
  LostOnlyHidden
