\* Four temporaries, one register and moves along a chain.
SPECIFICATION FairSpec
CONSTANTS
  MaxRegs = 1
  Temps = {2, 3, 4, 5}
  Node = {1, 2, 3, 4, 5}
  Graphs <- ChainGraphs
INVARIANTS AliasesAreFlat
PROPERTIES OnlyPotentialSpillsSpill Terminates ImplementsColouring
CHECK_DEADLOCK FALSE
