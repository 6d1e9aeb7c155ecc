SPECIFICATION Spec
CONSTANTS
  t1 = t1
  t2 = t2
  colour = colour
  address = address
  folder = folder
  v1 = v1
  v2 = v2
  Absent = Absent
  Free = Free
  Writers <- Threads
  Keys <- Settings
  LiveKeys <- Colours
  Values <- Contents
  Default = v1
  MaxPuts = 3
  MaxCrashes = 1
  MaxFaults = 1
CHECK_DEADLOCK FALSE
INVARIANTS
  Durable
  Counted
PROPERTIES
  AllOrNothing
