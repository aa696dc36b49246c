SPECIFICATION Spec
CONSTANTS
  con = con
  eoa = eoa
  ripe = ripe
  k1 = k1
  Addrs = {eoa, ripe}
  Ripemd = ripe
  Slots = {}
  Words = {0, 1}
  Byzantium = TRUE
  EIP158 = TRUE
  None = None
  Genesis <- MCGenesis
  MaxBal = 1
  MaxNonce = 1
  MaxEntries = 3
  MaxRevisions = 1
  MaxTxs = 2
  MaxBlocks = 1
INVARIANTS
  BooksSound
PROPERTIES
  TouchSurvivesRevert
CHECK_DEADLOCK FALSE
