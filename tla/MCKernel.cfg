SPECIFICATION Spec
CONSTANTS
  t1 = t1
  t2 = t2
  t3 = t3
  Idle = idle
  None = none
  Task = {t1, t2, t3}
  IdlePri = 4
  Mutex = {m1, m2}
  Sem = {o1}
  Application <- Programs
  MaxLock = 1
  MaxCount = 2
SYMMETRY MutexSymmetry
INVARIANTS
  KernelSound
  PriorityInherited
  WaitListsSorted
  OwnershipSound
  WaitersHaveCause
  HighestRuns
PROPERTIES
  HandoffToHighest
CHECK_DEADLOCK FALSE
