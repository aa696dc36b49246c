SPECIFICATION Spec
CONSTANTS
  g = g
  a1 = a1
  a2 = a2
  b1 = b1
  b2 = b2
  b3 = b3
  c2 = c2
  t = t
  u = u
  None = None
  Blocks = {g, a1, a2, b1, b2, b3}
  Genesis = g
  Parent <- MCParent
  Num <- MCNum
  Chain <- MCChain
  TD <- MCTD
  Root <- MCOwnRoot
  Txs <- MCTxs
  Bad = {a2}
  TTD = 9
  Retain = 1
  MaxCrashes = 1
  MaxRewinds = 1
INVARIANTS
  MarkersSound
  CanonIsChain
  IndexesComplete
  HeadExecuted
PROPERTIES
  HeadNeverLighter
