CONSTANTS
  v1 = v1
  Absent = Absent
  Key <- FourKeys
  Val <- OneValue
  LeafSize = 3
  NodeSize = 3
  InitialBlocks = 2
  isConstValueSize = TRUE
  MaxItem = 5
SPECIFICATION IterSpec
INVARIANTS IterTypeOK CursorOnItem
PROPERTIES CursorKeepsKey ImplementsCursor
