CONSTANTS
  v1 = v1
  Absent = Absent
  Key <- FiveKeys
  Val <- OneValue
  LeafSize = 2
  NodeSize = 3
  InitialBlocks = 2
  isConstValueSize = FALSE
  MaxItem = 5
SPECIFICATION Spec
INVARIANTS TypeOK NodesHaveRoom Balanced SiblingsLinked FramesFormPath EveryKeyReachable ScanIsOrdered CountCoversLiveItems Ordered
