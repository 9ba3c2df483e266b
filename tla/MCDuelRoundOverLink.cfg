SPECIFICATION OverSpec
CONSTANTS
  FireTime = 2
  Limit = 4
  Bullets = 1
  QueueBound = 1
  MaxLag = 2
  MaxFaults = 1
INVARIANTS JudgedOverLink
CHECK_DEADLOCK FALSE
