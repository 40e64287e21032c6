CONSTANTS
  Ops = {p1, p2}
  Blocks = {b1, b2}
  Vals = {v1, v2}
  MAXOPBLOCKS = 2
  OpBlocks = 2
  LOGSIZE = 4
  nlog = 4
SPECIFICATION Spec
SYMMETRY LogSymmetry
INVARIANTS
  CommitDurable
  Pinned
PROPERTY
  ImplementsTransactions
