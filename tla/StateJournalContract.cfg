SPECIFICATION Spec
CONSTANTS
  con = con
  eoa = eoa
  ripe = ripe
  k1 = k1
  Addrs = {con}
  Ripemd = ripe
  Slots = {k1}
  Words = {0, 1}
  Byzantium = FALSE
  EIP158 = TRUE
  None = None
  Genesis <- MCGenesis
  MaxBal = 1
  MaxNonce = 1
  MaxEntries = 3
  MaxRevisions = 1
  MaxTxs = 2
  MaxBlocks = 2
INVARIANTS
  WritesArrive
PROPERTIES
  KeepsPromise
CHECK_DEADLOCK FALSE
