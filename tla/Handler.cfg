SPECIFICATION Spec
CONSTANTS
  Key = {1, 2, 3}
  Value = {1, 2}
  MaxIndex = 2
  DuplicateUpdates = FALSE
INVARIANTS TypeOK NoDanglingEntry EveryRowIndexed ScanReturnsEachRowOnce ExactReadIsRight
