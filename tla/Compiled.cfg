CONSTANTS
  NUM_REGS = 4
  STD_CALLEE_SAVE = 3
  Value = {0, 1}
  Garbage = Garbage
  Registers <- MCRegisters
  CalleeSaved <- MCCalleeSaved
  Temps <- MCTemps
  Functions <- Most
SPECIFICATION Spec
INVARIANTS TypeOK LiveIsOnPaths GraphFits UsesAndDefinesCover Agree ValuesArrive ConventionKept
CHECK_DEADLOCK FALSE
