SPECIFICATION ObjectsSpec
CONSTANTS
  Task = {t1, t2}
  Flag = {f1, f2}
  Unwritten <- NotWritten
INVARIANTS
  EventSound
  QueuesSound
  WorksSound
PROPERTIES
  ObjectsServe
CHECK_DEADLOCK FALSE
