CONSTANTS
  short = short
  long = long
  Key <- Keys
  Val <- Values
  size <- Sizes
  BlockSize = 21
  HeaderSize = 4
  Number <- Numbers
  MaxNodes = 1
  MaxBlock = 3
SPECIFICATION ClientSpec
INVARIANTS TypeOK ValuesIntact ClientTypeOK StatementIsRight RangeIsRight
PROPERTY StatementEnds
