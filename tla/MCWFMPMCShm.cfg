CONSTANTS
  SIZE = 1
  THR_SIZE = 2
  Threads <- MCThreadsCollide
  Values = {v1}
  Raw = Raw
  MaxIdx = 3
  Cxx20 = FALSE
SPECIFICATION ShmSpec
PROPERTIES ImplementsWFMPMC SpinningEndsUnlessOrphaned InitEnds
CHECK_DEADLOCK FALSE
