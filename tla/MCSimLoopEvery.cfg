\* Is the result of every retired instruction compared?
SPECIFICATION Spec
CONSTANTS
  Regs = {r1, r2}
  MaxRetire = 2
  RstTicks = 5
INVARIANTS
  EveryResultCompared
