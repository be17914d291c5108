CONSTANTS
  v1 = v1
  v2 = v2
  Absent = Absent
  Key <- FourKeys
  Val <- TwoValues
  LeafSize = 3
  NodeSize = 3
  InitialBlocks = 2
  isConstValueSize = FALSE
  MaxItem = 4
SPECIFICATION CallSpec
PROPERTIES ImplementsMap PutReturns
