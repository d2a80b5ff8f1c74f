SPECIFICATION Spec
CONSTANTS
  PageSize = 4
  Fanout = 2
  AddressSpace = 64
  FlagSpace = 256
  PageNumbers = 8
  Images <- MCImages
  TableFrames <- MCTableFrames
  NoRoot = NoRoot
INVARIANTS
  TranslationExact
PROPERTIES
  SpansCheckedFirst
CHECK_DEADLOCK FALSE
