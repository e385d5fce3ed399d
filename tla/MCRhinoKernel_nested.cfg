SPECIFICATION Spec
CONSTANTS
  t1 = t1
  t2 = t2
  Idle = idle
  None = none
  Task = {t1, t2}
  IdlePri = 3
  Mutex = {m1}
  Sem = {}
  Application <- Programs
  MaxLock = 0
  MaxCount = 0
INVARIANTS
  UnlockReleases
CHECK_DEADLOCK FALSE
