SPECIFICATION BusSpec
CONSTANTS
  QSize = 4
  LenAt = 2
  FrameLens = {2, 6}
  FixLens = {3}
  MaxBytes = 8
  Lag = 5
  Gaps = TRUE
  Drained = FALSE
INVARIANTS
  RingSound
  FramesApart
  UsbSound
PROPERTIES
  IsFifo
  
  BusesGoOn
CHECK_DEADLOCK FALSE
