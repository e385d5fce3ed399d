SPECIFICATION ServicesSpec
CONSTANTS
  Sock = {s1, s2}
  Obj = {e1, e2}
  MaxWakes = 2
  Careful = TRUE
  ClosesEarly = FALSE
  SemFails = FALSE
INVARIANTS
  MonitorSound
  StoresSound
PROPERTIES
  KeptThrough
  ServicesServe
CHECK_DEADLOCK FALSE
