SPECIFICATION Spec
CONSTANTS
  MaxBlock = 4
  MaxChange = 1
INVARIANTS TypeOK DirtyCoversChanges FileIsWhole
PROPERTY SaveLosesNothing
