SPECIFICATION DSFairSpec
CONSTANT Capacity = 4
INVARIANTS
  DSTypeOK
  ListsStayInClass
  PointersRepresentClasses
  ParentOutranks
  NumSetsCountsRoots
PROPERTIES
  ImplementsPartition
  FindTerminates
