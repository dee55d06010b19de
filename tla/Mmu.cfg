\* Every address, those whose end wraps included.
SPECIFICATION Spec
CONSTANTS
  Blocks = 2
  ByteMod = 2
  AddrSpace = 20
  Addrs <- AllAddrs
  Limits <- FewLimits
  Data <- OneDatum
  AccessTime = 1
INVARIANTS TypeOK WindowInMemory ReadBack Containment
PROPERTIES OnlyNamedCellsChange ImplementsFlat
