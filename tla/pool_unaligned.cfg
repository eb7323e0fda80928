SPECIFICATION Spec
CONSTANTS
  PoolSize = 100
  PoolHdr = 64
  DataHdr = 32
  LargeHdr = 16
  CleanupHdr = 24
  Align = 8
  MaxFromPool = 4095
  Sizes = {20, 35}
  HeapAddrs = {}
  NULL = NULL
  MaxBlocks = 1
  MaxCleanupBlocks = 1
  MaxCleanups = 0
  ResetWithCleanups = FALSE
INVARIANTS LeftSpaceEnough
