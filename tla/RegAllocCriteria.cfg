\* The criteria of coalescing are not applied.
SPECIFICATION FairSpec
CONSTANTS
  MaxRegs = 1
  Temps = {2, 3, 4, 5}
  Node = {1, 2, 3, 4, 5}
  Graphs <- ChainGraphs
PROPERTIES CoalescesByCriterion
CHECK_DEADLOCK FALSE
