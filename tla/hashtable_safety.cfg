SPECIFICATION Spec
CONSTANTS
  x1 = x1  x2 = x2  y1 = y1  w1 = w1
  Nodes = {n1, n2, n3}
  ListHead = ListHead
  KeyObjs <- Keys
  Name <- Naming
  Hash <- Hashing
  ValueObjs = {u1, u2, u3, u4}
  Primes <- SmallPrimes
  NULL = NULL
  OK = OK
  ERROR = ERROR
SYMMETRY Interchangeable
INVARIANTS TypeOK ListIntact BucketsPartition OwnershipExact LoadBounded
PROPERTIES IterationComplete RefinesMap
CHECK_DEADLOCK FALSE
