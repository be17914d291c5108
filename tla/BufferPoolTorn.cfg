SPECIFICATION Spec
CONSTANTS
  MaxBlock = 4
  MaxChange = 1
INVARIANT ReferencesCounted
