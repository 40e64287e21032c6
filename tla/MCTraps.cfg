CONSTANTS
  Proc = {p1, p2}
  CPU = {c1, c2}
  cpu0 = c1
  INPUT_BUF = 2
  UINT = 4
  Keys <- MCKeys
  Naps <- MCNaps
  Reads = {2}
  NULL = NULL
SPECIFICATION Spec
SYMMETRY ProcSymmetry
INVARIANTS
  MaskNesting
  InputFaithful
  WaitersWoken
CHECK_DEADLOCK FALSE
VIEW UpToClock
