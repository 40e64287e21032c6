CONSTANTS
  Procs = {p1, p2}
  NoProc = NoProc
  NoBlock = NoBlock
  Blocks = {k1, k2, k3}
  Written = {k1, k2}
  Vals = {v1, v2}
  NBUF = 2
SPECIFICATION FairSpec
INVARIANTS
  ReadsLatest
  QueueOwned
PROPERTY
  IoReturns
CHECK_DEADLOCK FALSE
