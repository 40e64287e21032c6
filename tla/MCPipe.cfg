CONSTANTS
  Procs = {p1, p2}
  Creator = p1
  Killable = {p2}
  NoProc = NoProc
  PIPESIZE = 2
  UINT = 4
  Bytes = {0, 1}
  MaxN = 3
SPECIFICATION FairSpec
INVARIANTS
  UnkilledMustWait
  NoUseAfterFree
PROPERTIES
  ImplementsFifo
  CloseUnblocks
CHECK_DEADLOCK FALSE
