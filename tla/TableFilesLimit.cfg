CONSTANTS
  h1 = h1
  h2 = h2
  Handler <- OneHandler
  InitialBlocks = 2
  Word = 16
  MaxBlocks = 6
  MaxTables = 1
SPECIFICATION Spec
INVARIANT BlocksAreTheirOwn
CHECK_DEADLOCK FALSE
