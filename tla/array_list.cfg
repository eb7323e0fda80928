SPECIFICATION Spec
CONSTANTS
  Counts = {0, 1, 2, 3}
  MaxCells = 8
  IntMax = 15
  Values = {v1, v2}
  Undef = Undef
  NULL = NULL
  OK = OK
  FAILED = FAILED
INVARIANTS TypeOK Capacity
PROPERTIES RefinesList
