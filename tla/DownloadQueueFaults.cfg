SPECIFICATION DownloadSpec
CHECK_DEADLOCK FALSE
CONSTANTS
  N = 3
  EmptyBody = {3}
  EmptyReceipts = {2, 3}
  first = first
  second = second
  Peers = {first, second}
  Honest = second
  Master = first
  Room <- MCRoom
  CacheSize = 2
  InitialItems = 1
  MaxResults = 1
  DropLimit = 1
  Budget <- MCBudget
  None = None
  MinFullBlocks = 2
  HeaderDelay = 1
  DelayThreshold = 1
  ConfirmSlack = 1
  HeaderFetch = 3
  SafetyNet = 4
  FirstHead = 3
  LastHead = 6
  MaxSyncs = 2
  MaxCancels = 1
  NoPivot = NoPivot
  LocalHeights <- MCHeights
  RemoteHeights <- MCHeights
  Below = 300
  MaxForkAncestry = 100
INVARIANTS
  TypeOK
  PartsTracked
  HandedOutWhole
  NoMissedResult
  EndsWhole
  PivotSound
  AncestorExact
