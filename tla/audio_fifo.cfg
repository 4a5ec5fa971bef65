SPECIFICATION Spec
CONSTANTS
  MaxRuns = 2
  MaxFifo = 1
INVARIANTS
  FifoIsThere
