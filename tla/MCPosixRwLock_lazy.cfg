SPECIFICATION Spec
CONSTANTS
  Thread = {t1, t2}
  None = none
  MaxCalls = 1
  Timed = FALSE
  Destroys = FALSE
  InitRaces = TRUE
INVARIANTS
  RefcountMeans
CHECK_DEADLOCK FALSE
