SPECIFICATION MemorySpec
CONSTANTS
  HEAD = 1
  RI = 1
  MAX_LOG2_SLT = 1
  MAX_MM_BIT = 5
  FirstRegion <- Wide
  MoreRegions <- NoMore
  Sizes = {1, 3, 6}
  Reallocs = TRUE
INVARIANTS
  HeapsSound
  BuffersSound
PROPERTIES
  BuffersAreFifo
CHECK_DEADLOCK FALSE
