SPECIFICATION MCSpec
CONSTANTS
  Kinds <- AllKinds
  Values = {1, 2}
  Cells <- FourCells
  Capacity = 3
  Null = Null
  MaxN = 4
  Numbers <- OneToFour
  Rows = 5
  Columns = 5
  Mazes <- SmallMazes
  InitSize = 2
  Increment = 2
\* The two programs end.
CHECK_DEADLOCK FALSE
INVARIANTS WellLinked WalkSorts SearchDecides
PROPERTIES ImplementsSequence
