SPECIFICATION FairSpec
CONSTANTS
  MaxFrames = 5
  MaxIdle = 3
  HostHonoursBusy = TRUE
  HostResets = TRUE
INVARIANTS
  CreditSafe
  NoFrameLost
PROPERTIES
  InOrder
  BusyReleased
CHECK_DEADLOCK FALSE
