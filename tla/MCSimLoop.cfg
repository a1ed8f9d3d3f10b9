\* Two registers, up to two instructions in a posedge.
SPECIFICATION FairSpec
CONSTANTS
  Regs = {r1, r2}
  MaxRetire = 2
  RstTicks = 5
INVARIANTS
  LockStep
  StopsWithinOnePosedge
PROPERTIES
  ReferenceFrozen
  CleanReset
  DivergenceStops
  InterruptStops
