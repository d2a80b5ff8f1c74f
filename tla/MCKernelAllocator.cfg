SPECIFICATION FairSpec
CONSTANTS
  MaxDepth <- MCMaxDepth
  MaxGrants <- MCMaxGrants
  None = None
INVARIANTS
  GateExclusive
  RefusalIsRecursive
  GrantsDistinct
PROPERTIES
  InterruptsRestored
  CallsReturn
