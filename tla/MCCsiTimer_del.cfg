SPECIFICATION CsiSpec
CONSTANTS
  Timer = {t1}
  Dyn = {}
  Periodic = {t1}
  Task = {a}
  DefaultTicks = 2
  Intervals = {1, 2}
  Rounds = {0, 1, 2}
  Args = {0}
  MsgNum = 2
  MaxLate = 0
  MaxCalls = 4
  Urgent = FALSE
  Careful = FALSE
PROPERTIES
  DeletedNeverRuns
