CONSTANTS
  NUM_REGS = 4
  STD_CALLEE_SAVE = 3
  Value = {0, 1}
  Garbage = Garbage
  Registers <- MCRegisters
  CalleeSaved <- MCCalleeSaved
  Temps <- MCTemps
  Functions <- OnlyLoads
SPECIFICATION Spec
INVARIANTS Agree
CHECK_DEADLOCK FALSE
