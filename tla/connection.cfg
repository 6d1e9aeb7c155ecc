SPECIFICATION FairSpec
CONSTANTS
  e1 = e1
  e2 = e2
  None = None
  Endpoints <- Plcs
  MaxChanges = 2
  MaxFlips = 1
  Disturb <- Outside
CHECK_DEADLOCK FALSE
INVARIANTS
  WatchdogScope
  NothingStale
PROPERTIES
  InUse
  SwitchedOff
  ShutdownEnds
  LossShown
