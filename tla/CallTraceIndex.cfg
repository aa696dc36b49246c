SPECIFICATION Spec
CONSTANTS
  blk = blk
  pre = pre
  rpc = rpc
  Evms <- MCEvms
  Prefetch <- MCPrefetch
  Kind <- MCKind
  Values = {0}
  MaxDepth = 1
  WordSize = 16
  MaxCalls = 3
  MaxTxs = 1
INVARIANTS
  IndexNamesOneCall
CHECK_DEADLOCK FALSE
