SPECIFICATION Spec
CONSTANTS
  NanosPerSecond = 4
  CounterSpace = 16
  Frequencies <- MCFrequencies
  Periods <- MCPeriods
  None = None
INVARIANTS
  PeriodKept
CHECK_DEADLOCK FALSE
