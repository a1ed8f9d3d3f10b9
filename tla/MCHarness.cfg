\* The loop and the slave it drives, one register, one instruction a posedge.
SPECIFICATION FairSpec
CONSTANTS
  Regs = {r1}
  MaxRetire = 1
  RstTicks = 3
  AddrSpace = 64
  PageSize = 16
  BusBytes = 4
  Ids = {0}
  ByteValues = {0, 1}
  Devices <- MCDevices
  LoadedMemories <- MCLoaded
  Requests <- MCRequests
  WriteRequests <- MCWriteRequests
  WBeats <- MCWBeats
  Delays = {1}
  FaultModes = {FALSE}
PROPERTIES
  ImplementsSlave
  AbortFreezes
  ReadAnswered
