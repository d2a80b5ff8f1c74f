SPECIFICATION Spec
CONSTANTS
  PageSize = 4
  None = None
  Ranges <- MCRanges
  Layouts <- MCLayouts
INVARIANTS
  BackedIsSuffix
  BlocksDisjoint
  BlocksUsable
  PlacementIsExact
CHECK_DEADLOCK FALSE
