\* Every program of three accesses, every timing of them in four posedges.
SPECIFICATION CoSimSpec
CONSTANTS
  Half = 256
  Bytes = 256
  Programs <- MCPrograms
  MaxRetire = 2
  MaxPosedges = 4
INVARIANTS
  LoadsAgree
  CopiesConverge
  TimerSkew
\* A run ends after MaxPosedges, or when an assertion ends the process.
CHECK_DEADLOCK FALSE
