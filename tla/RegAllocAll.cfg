\* Every interference graph of three temporaries and two registers.
SPECIFICATION FairSpec
CONSTANTS
  MaxRegs = 2
  Temps = {3, 4, 5}
  Node = {1, 2, 3, 4, 5}
  Graphs <- AllGraphs
INVARIANTS TypeOK MovesDoNotInterfere ProperColouring ThrowsForSelfMoves
CHECK_DEADLOCK FALSE
