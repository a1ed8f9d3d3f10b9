\* The last word of every registered interval.
SPECIFICATION Spec
CONSTANTS
  AddrSpace = 128
  MaxDevices = 3
  Ranges <- MCProgramRanges
  AccessBytes = {4}
  NoRange = NoRange
INVARIANTS
  IntervalServed
