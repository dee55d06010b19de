\* A user's overflow is carried into the supervisor bit.
SPECIFICATION Spec
CONSTANTS
  Blocks = 16
  ByteMod = 16
  AddrSpace = 65536
  KeepsOverflowTest = TRUE
  Guests <- OddGuests
  FirstFp = {0}
PROPERTIES UserKeepsToItsStack
CHECK_DEADLOCK FALSE
