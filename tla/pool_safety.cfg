SPECIFICATION Spec
CONSTANTS
  PoolSize = 128
  PoolHdr = 64
  DataHdr = 32
  LargeHdr = 16
  CleanupHdr = 24
  Align = 8
  MaxFromPool = 4095
  Sizes = {20, 72}
  HeapAddrs = {a1, a2}
  NULL = NULL
  MaxBlocks = 2
  MaxCleanupBlocks = 2
  MaxCleanups = 1
  ResetWithCleanups = FALSE
SYMMETRY HeapSymmetry
INVARIANTS TypeOK InBounds NoOverlap HeapExact MetadataIntact
PROPERTIES RefinesArena
