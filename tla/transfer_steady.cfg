SPECIFICATION Spec
CONSTANTS
  p1 = p1
  p2 = p2
  Projects <- TwoProjects
  NoName = NoName
  Blank = Blank
  MaxRecords = 5
  LenDataArray = 2
  ArrayLen = 2
  Patience = 1
  AckPatience = 1
  MaxFaults = 0
  Disturb <- Steady
  AskWhen = "cleared"
INVARIANTS
  RowsInOrder
  AnnouncedFits
  CompleteMeansDelivered
  NoRequestLost
  
PROPERTIES
  NoOverwrite
  DeliverySpec
