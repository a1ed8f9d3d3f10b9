\* All bursts, masters that follow the protocol and masters that do not.
SPECIFICATION FairSpec
CONSTANTS
  AddrSpace = 64
  PageSize = 16
  BusBytes = 4
  Ids = {0, 1}
  ByteValues = {0, 1, 2}
  Devices <- MCDevices
  LoadedMemories <- MCLoaded
  WriteRequests <- MCWriteRequests
  WBeats <- MCWBeats
  Delays = {1}
  FaultModes = {TRUE, FALSE}
INVARIANTS
  TypeOK
  WriteSidesAgree
  BufferFollowsBurst
  SlotsInBounds
  LastBeatWins
  ResponseHonest
PROPERTIES
  MemoryChangesOnlyOnCommit
  ResponseHeld
  ResponseComes
