SPECIFICATION Spec
CONSTANTS
  Documents <- MCDocuments
  Table <- MCTable
  MaxName = 3
INVARIANTS
  ReadsBack
  SlicesAlign
CHECK_DEADLOCK FALSE
