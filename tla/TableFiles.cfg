CONSTANTS
  h1 = h1
  h2 = h2
  Handler <- TwoHandlers
  InitialBlocks = 2
  Word = 64
  MaxBlocks = 7
  MaxTables = 2
SPECIFICATION Spec
INVARIANTS TypeOK RowsCounted CountedBlocksStored BlocksAreTheirOwn
SYMMETRY Handlers
CHECK_DEADLOCK FALSE
