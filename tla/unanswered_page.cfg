SPECIFICATION FairSpec
CONSTANTS
  c1 = c1
  c2 = c2
  None = None
  Pages <- OnePage
  MaxPosts = 1
  Steps = 2
  StopStride = 2
  Disturb <- Vanishing
CHECK_DEADLOCK FALSE
PROPERTY EveryJobEnds
