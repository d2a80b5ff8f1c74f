SPECIFICATION FairSpec
CONSTANTS
  MaxTicks <- MCMaxTicks
  None = None
INVARIANTS
  StackDiscipline
  NextTickComes
PROPERTIES
  ResumesInterrupted
  StartupEnds
  TimerServed
