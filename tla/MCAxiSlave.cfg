\* Reads and writes of the same words under every interleaving.
SPECIFICATION Spec
CONSTANTS
  AddrSpace = 64
  PageSize = 16
  BusBytes = 4
  Ids = {0, 1}
  ByteValues = {0, 1, 2}
  Devices <- MCDevices
  LoadedMemories <- MCLoaded
  Requests <- MCRequests
  WriteRequests <- MCWriteRequests
  WBeats <- MCWBeats
  Delays = {0}
  StallModes = {FALSE}
  StallLimit = 0
  FaultModes = {FALSE}
PROPERTIES
  ImplementsBus
