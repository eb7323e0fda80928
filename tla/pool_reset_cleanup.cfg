SPECIFICATION Spec
CONSTANTS
  PoolSize = 128
  PoolHdr = 64
  DataHdr = 32
  LargeHdr = 16
  CleanupHdr = 24
  Align = 8
  MaxFromPool = 4095
  Sizes = {20, 72}
  HeapAddrs = {a1}
  NULL = NULL
  MaxBlocks = 1
  MaxCleanupBlocks = 1
  MaxCleanups = 1
  ResetWithCleanups = TRUE
INVARIANTS RecordsNotReused
