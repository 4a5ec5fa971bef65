SPECIFICATION FairSpec
CONSTANTS
  MaxRuns = 2
  MaxFifo = 2
INVARIANTS
  TypeOK
  RunsBeginClean
  FramesAreAnnounced
PROPERTIES
  StopReturns
