CONSTANTS
  Proc = {p1, p2}
  File = {f1, f2}
  FSSIZE = 15
  BSIZE = 2
  BPB = 13
  IPB = 4
  NDIRECT = 1
  NINODES = 4
  MAXOPBLOCKS = 6
  nlog = 1
  UINT = 64
  HostText <- HostCells
  Sizes = {5}
  MaxCalls = 2
SPECIFICATION Spec
SYMMETRY ContentSymmetry
INVARIANTS
  BlocksPartitioned
  DinodeCurrent
  ReadsBack
  TransactionFits
CHECK_DEADLOCK FALSE
