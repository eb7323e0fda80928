SPECIFICATION FairSpec
CONSTANTS
  PoolSize = 128
  PoolHdr = 64
  DataHdr = 32
  LargeHdr = 16
  CleanupHdr = 24
  Align = 8
  MaxFromPool = 4095
  Sizes = {32, 72}
  HeapAddrs = {a1}
  NULL = NULL
  MaxBlocks = 8
  MaxCleanupBlocks = 1
  MaxCleanups = 2
  ResetWithCleanups = FALSE
INVARIANTS SkippedExhausted
PROPERTIES CleanupsRunOnce DestroyCompletes
