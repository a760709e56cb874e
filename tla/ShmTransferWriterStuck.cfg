CONSTANTS
  Block = {a, b}
  MaxBlocks = 3
  Empty = Empty
  Short = Short
  Faults = {}
SPECIFICATION FairSpec
PROPERTY WriterFinishes
CHECK_DEADLOCK FALSE
