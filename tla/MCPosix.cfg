SPECIFICATION PosixSpec
CONSTANTS
  Thread = {t1, t2, t3}
  None = none
  MaxCalls = 2
  Timed = FALSE
  Destroys = FALSE
  InitRaces = FALSE
INVARIANTS
  RefcountMeans
  SleepersHaveCause
  ThreadsSound
  MqueueSound
PROPERTIES
  ImplementsRwLock
  WritersFirst
  TimedLockSound
  CallsEnd
CHECK_DEADLOCK FALSE
