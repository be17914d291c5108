SPECIFICATION Spec
CONSTANTS
  Key = {1, 2}
  Value = {1, 2}
  MaxIndex = 2
  DuplicateUpdates = FALSE
INVARIANT FirstIsOfIndex
