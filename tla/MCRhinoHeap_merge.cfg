SPECIFICATION Spec
CONSTANTS
  HEAD = 1
  RI = 1
  MAX_LOG2_SLT = 1
  MAX_MM_BIT = 5
  FirstRegion <- High
  MoreRegions <- LowAndMiddle
  Sizes = {3, 5}
  Reallocs = FALSE
INVARIANT
  PrevBitRight
