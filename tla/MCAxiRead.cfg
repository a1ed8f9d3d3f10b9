\* All bursts, masters that stall and masters that do not.
SPECIFICATION FairSpec
CONSTANTS
  AddrSpace = 64
  PageSize = 16
  BusBytes = 4
  Ids = {0, 1}
  ByteValues = {0, 1, 2, 3, 4, 5, 6, 7, 8, 9, 10, 11, 12, 13, 14, 15}
  Devices <- MCDevices
  LoadedMemories <- MCLoaded
  Requests <- MCRequests
  Delays = {0, 2}
  StallModes = {TRUE, FALSE}
  StallLimit = 6
INVARIANTS
  TypeOK
  SidesAgree
  AddressesFollowBurst
  DataMatchesBeat
  NoBeatLost
  NoShortBurst
PROPERTIES
  TransactionStable
  ReadCompletes
