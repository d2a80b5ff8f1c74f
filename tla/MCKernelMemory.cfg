SPECIFICATION MemorySpec
CONSTANTS
  Fanout = 3
  Vpn <- MCVpn
  HighHalf = {1, 2}
  HeapSlot = 1
  HeapTop <- MCHeapTop
  NullPage <- MCNullPage
  FixmapTable <- MCFixmapTable
  FixmapFrame <- MCFixmapFrame
  MaxFrame = 30
  Layouts <- MCLayouts
  Targets <- MCTargets
  Supplies <- MCSupplies
  Empty = Empty
  PageSize = 2
  HeapLayouts <- MCHeapLayouts
  None = None
INVARIANTS
  EachFrameOnce
  UserIsolated
  ActiveComplete
  BlocksOwned
PROPERTIES
  ImplementsAddressSpace
  BackingFailsForFrames
CHECK_DEADLOCK FALSE
