SPECIFICATION FairSpec
CONSTANTS
  e1 = e1
  e2 = e2
  None = None
  Endpoints <- Plcs
  MaxChanges = 1
  MaxFlips = 0
  Disturb <- Window
PROPERTY InUse
