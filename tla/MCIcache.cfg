CONSTANTS
  Procs = {p1, p2}
  NoProc = NoProc
  Names = {a, b}
  Dot = Dot
  NINODES = 3
  NINODE = 2
SPECIFICATION Spec
SYMMETRY IcacheSymmetry
INVARIANTS
  RefsCounted
  CacheCoherent
  NotFreedInUse
  LinksCounted
CHECK_DEADLOCK FALSE
