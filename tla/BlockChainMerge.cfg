SPECIFICATION FairSpec
CONSTANTS
  g = g
  a1 = a1
  a2 = a2
  b1 = b1
  b2 = b2
  b3 = b3
  c2 = c2
  t = t
  u = u
  None = None
  Blocks = {g, a1, a2, b1, b2}
  Genesis = g
  Parent <- MCParent
  Num <- MCNum
  Chain <- MCChain
  TD <- MCMergeTD
  Root <- MCMeetingRoot
  Txs <- MCTxs
  Bad = {}
  TTD = 3
  Retain = 1
  MaxCrashes = 1
  MaxRewinds = 0
PROPERTIES
  PayloadKeepsHead
  HeadAsTold
  AllEnds
