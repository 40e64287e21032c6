CONSTANTS
  Proc = {p1, p2}
  initproc = p1
  NPAGES = 13
  PGSIZE = 2
  KERNPAGES = 4
  NPTENTRIES = 3
  UINT = 16
  NOTABLE = {6}
SPECIFICATION Spec
INVARIANTS
  PagesOwned
  SizeMatchesMap
  StackGuarded
CHECK_DEADLOCK FALSE
VIEW UpToRenaming
