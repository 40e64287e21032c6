CONSTANTS
  Ops = {p1, p2, p3}
  Blocks = {b1, b2, b3}
  Vals = {v1}
  MAXOPBLOCKS = 2
  OpBlocks = 1
  LOGSIZE = 4
  nlog = 4
SPECIFICATION FairSpec
INVARIANTS
  ReservationSuffices
PROPERTY
  SleepersWoken
