SPECIFICATION TimersSpec
CONSTANTS
  Timer = {t1, t2}
  Dyn = {}
  Periodic = {t2}
  Task = {a, b}
  DefaultTicks = 2
  Intervals = {1, 2}
  Rounds = {0, 1, 2}
  Args = {0}
  MsgNum = 2
  MaxLate = 0
  MaxCalls = 6
  Urgent = FALSE
  Careful = TRUE
INVARIANTS
  ActiveIffListed
  TimersSound
PROPERTIES
  NeverEarly
  TimersFire
CHECK_DEADLOCK FALSE
