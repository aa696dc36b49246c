SPECIFICATION Spec
CONSTANTS
  blk = blk
  pre = pre
  rpc = rpc
  Evms <- MCPrefetchEvms
  Prefetch <- MCPrefetch
  Kind <- MCKind
  Values = {0}
  MaxDepth = 2
  WordSize = 16
  MaxCalls = 3
  MaxTxs = 2
CONSTRAINT OtherIsShort
INVARIANTS
  TypeOK
  RowsOK
  PlainRowsInOrder
  DocsOK
CHECK_DEADLOCK FALSE
