SPECIFICATION Spec
CONSTANTS
  Heads = {h1, h2}
  Elems = {e1, e2, e3}
  NULL = NULL
  Junk = Junk
SYMMETRY Interchangeable
INVARIANTS TypeOK ChecksPass EndsAgree ForeachComplete
PROPERTIES RefinesQueues
