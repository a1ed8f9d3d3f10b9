\* Queues of two characters, numbered modulo 3.
SPECIFICATION FairSpec
CONSTANTS
  Chars = 3
  MaxQueued = 2
INVARIANTS
  NothingLost
  NoticesTruthful
PROPERTIES
  CallsReturn
