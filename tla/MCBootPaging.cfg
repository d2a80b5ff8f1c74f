SPECIFICATION PagingSpec
CONSTANTS
  Gigapage = 4
  TableEntries = 14
  WindowFirst = 7
  HighEntry = 12
  MaxAddress = 63
  Kernels = {0, 6}
  Dtbs <- MCDtbs
  MaxDtbSize = 15
  MaxCached = 2
  Stale = Stale
  RegionSizes = {1, 4}
  Frames <- MCFrames
  MaxFrame = 63
  None = None
INVARIANTS
  KernelStaysMapped
  DtbWindowWhole
  WindowExact
CHECK_DEADLOCK FALSE
