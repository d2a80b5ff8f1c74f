SPECIFICATION FdtSpec
CONSTANTS
  MaxAddr = 3
  Pointers <- MCPointers
  Headers <- MCHeaders
  Explored <- MCExplored
  HeaderSize = 4
  BlobAlign = 8
  ReservationAlign = 4
  StructureAlign = 2
  ValueSize = 2
  MaxUsize = 40
  MaxSlice = 24
  Trees <- MCAllTrees
  Contents <- MCContents
  Radix = 2
  CellSize = 4
  None = None
  Malformed = Malformed
  Ragged = Ragged
INVARIANTS
  HeaderExact
  BlocksApart
  ReservationsExact
  SemanticsExact
  RangesExact
CHECK_DEADLOCK FALSE
