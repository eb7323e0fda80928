SPECIFICATION FairSpec
CONSTANTS
  Nodes = {1, 2, 3, 4, 5, 6, 7, 8, 9, 10, 11, 12}
  Mixed = {1, 2, 3, 4, 5}
  Grown = {1, 3, 5, 6, 7, 8, 9, 10, 11, 12}
  Key <- SomeShared
  Sentinel = Sentinel
  NULL = NULL
  Unset = Unset
INVARIANTS TypeOK ParentLinks RedBlack FixupDefined
PROPERTIES RefinesQueue RebalanceEnds
CHECK_DEADLOCK FALSE
