SPECIFICATION FairSpec
CONSTANTS
  c1 = c1
  c2 = c2
  None = None
  Pages <- TwoPages
  MaxPosts = 2
  Steps = 3
  StopStride = 2
  Disturb <- Anything
CHECK_DEADLOCK FALSE
INVARIANTS
  LatestShown
  FreshParams
  StopNotLost
  StopPrompt
PROPERTIES
  
  WaitEnds
  ShutdownEnds
