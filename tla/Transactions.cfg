SPECIFICATION TransactionsSpec
CHECK_DEADLOCK FALSE
CONSTANTS
  Hashes = {h1, h2}
  Peers = {p1, p2}
  Nobody = Nobody
  Cheap = {h2}
  MaxTxAnnounces = 2
  MaxTxRetrievals = 2
  MaxMessages = 3
  MaxDrops = 1
  x = x
  y = y
  x0 = x0
  x1 = x1
  x2 = x2
  r1 = r1
  y0 = y0
  g = g
  a1 = a1
  b1 = b1
  b2 = b2
  Txs = {x0, x1, r1, x2, y0}
  From <- MCFrom
  TxNonce <- MCTxNonce
  Price <- MCPrice
  Cost <- MCCost
  Accounts = {x, y}
  PoolBlocks = {g, a1, b1, b2}
  FirstBlock = g
  Mother <- MCMother
  Line <- MCLine
  Height <- MCHeight
  BlockTxs <- MCBlockTxs
  Balance <- MCBalance
  PriceBump = 10
  ReorgDepth = 1
  AccountSlots = 1
  GlobalSlots = 2
  AccountQueue = 1
  GlobalQueue = 1
  Prices <- MCPrices
  NoReset = NoReset
  Panic = Panic
  MaxHeads = 2
  MaxAdds = 3
INVARIANTS
  FetcherSound
  PoolSound
  FollowsHead
