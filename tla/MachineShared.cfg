\* A source is written back through a register the instruction changed.
SPECIFICATION Spec
CONSTANTS
  Blocks = 16
  ByteMod = 16
  AddrSpace = 65536
  KeepsOverflowTest = TRUE
  Guests <- SharedGuests
  FirstFp = {0}
PROPERTIES PointedDataKept
CHECK_DEADLOCK FALSE
