CONSTANTS
  Proc = {p1, p2}
  initproc = p1
  NOFILE = 2
  NFILE = 3
  Page = {k1, k2}
  NULL = NULL
SPECIFICATION Spec
SYMMETRY Pages
VIEW WithoutStale
INVARIANTS
  RefsCounted
  ObjectsOwned
CHECK_DEADLOCK FALSE
