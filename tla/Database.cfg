SPECIFICATION DatabaseSpec
CHECK_DEADLOCK FALSE
CONSTANTS
  r1 = r1
  r2 = r2
  n1 = n1
  n2 = n2
  st = st
  Nodes = {r1, r2, n1, n2, st}
  StateRoots = {r1, r2}
  Kids <- MCKids
  Storage <- MCStorage
  Zero = Zero
  MaxInserts = 5
  MaxUsers = 2
  MaxKills = 1
  Tables = {"hashes", "bodies"}
  HashTable = "hashes"
  MaxFileSize = 2
  MaxNumber = 3
  MaxVersion = 2
  FullImmutabilityThreshold = 1
  FreezerBatchLimit = 1
  MaxFaults = 2
  code1 = code1
  code2 = code2
  NoCode = NoCode
  States <- MCStates
  MaxCycles = 2
  MaxReverts = 1
  MaxSyncKills = 1
INVARIANTS
  StatesKept
  CacheSound
  AncientsSound
  SyncSound
