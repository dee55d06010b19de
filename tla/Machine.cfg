\* Four programs: modes, stacks, MOV between any two arguments, the rest.
SPECIFICATION Spec
CONSTANTS
  Blocks = 16
  ByteMod = 16
  AddrSpace = 65536
  KeepsOverflowTest = TRUE
  Guests <- AllGuests
  FirstFp = {0}
INVARIANTS TypeOK
PROPERTIES FlagsOfAStep UserIsConfined KeepsPromise LastDump StackRoundTrip
PROPERTIES MovedIsRead PointedDataKeptApart StepsOnce FusedJumpAgrees
CHECK_DEADLOCK FALSE
