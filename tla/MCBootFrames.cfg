SPECIFICATION FairSpec
CONSTANTS
  FrameSize = 4
  MaxAddr = 23
  None = None
  Platforms <- MCPlatforms
INVARIANTS
  NoFrameIssuedTwice
PROPERTIES
  ImplementsFrameSupply
  AllocateReturns
