\* Both set-ups, every file, every program of two stores, every interleaving.
SPECIFICATION CopiesSpec
CONSTANTS
  AddrSpace = 64
  BusBytes = 4
  ByteValues = {0, 1, 2, 3}
  Devices <- MCDevices
  Files <- MCFiles
  Programs <- MCPrograms
INVARIANTS
  CopiesFollowProgram
  NoOverrun
\* A run ends when the program does.
CHECK_DEADLOCK FALSE
