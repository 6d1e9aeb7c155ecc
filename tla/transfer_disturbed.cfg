SPECIFICATION FairSpec
CONSTANTS
  p1 = p1
  p2 = p2
  Projects <- OneProject
  NoName = NoName
  Blank = Blank
  MaxRecords = 2
  LenDataArray = 1
  ArrayLen = 1
  Patience = 1
  AckPatience = 1
  MaxFaults = 1
  Disturb <- Working
  AskWhen = "cleared"
CHECK_DEADLOCK FALSE
INVARIANTS
  InOrderUntilFault
PROPERTIES
  RequestAnswered
  StartedIsSignalled
