SPECIFICATION Spec
CONSTANTS
  Lines <- Texts
  MaxLines = 5
  BlockSizes = {1, 2}
  Thresholds = {0, 2}
CHECK_DEADLOCK FALSE
INVARIANTS
  BlocksCover
  SteadyShift
  DrawnAsSent
