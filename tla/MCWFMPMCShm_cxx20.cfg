CONSTANTS
  SIZE = 1
  THR_SIZE = 2
  Threads <- MCThreadsCollide
  Values = {v1}
  Raw = Raw
  MaxIdx = 3
  Cxx20 = TRUE
SPECIFICATION ShmSpec
INVARIANT ConstructedOnce
CHECK_DEADLOCK FALSE
