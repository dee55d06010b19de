\* A reboot leaves the machine in user mode.
SPECIFICATION Spec
CONSTANTS
  Blocks = 16
  ByteMod = 16
  AddrSpace = 65536
  KeepsOverflowTest = TRUE
  Guests <- RebootGuests
  FirstFp = {0}
INVARIANTS StartsInSupervisor
CHECK_DEADLOCK FALSE
