CONSTANTS
  HEAPPAGES = 4
  REGIONS_PER_PAGE = 2
  PHYS = 5
  NPTENTRIES = 3
  l_pageSize = 20
  l_pageCount = 1
  MAJOR = 1
  MINOR = 1
  ALIGNMENT = 2
  ALIGN_INFO = 1
  MaxBlocks = 3
  ReqSizes = {1, 4, 16}
SPECIFICATION HeapSpec
INVARIANTS
  PagesAccounted
  MemoryDisjoint
  MajorsCounted
CHECK_DEADLOCK FALSE
