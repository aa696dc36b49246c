SPECIFICATION FairSpec
CHECK_DEADLOCK FALSE
CONSTANTS
  N = 3
  EmptyBody = {3}
  EmptyReceipts = {2, 3}
  first = first
  second = second
  Peers = {first, second}
  Honest = second
  Master = first
  Room <- MCRoom
  CacheSize = 2
  InitialItems = 1
  MaxResults = 1
  DropLimit = 1
  Budget <- MCFewFaults
  None = None
PROPERTIES
  SyncEnds
