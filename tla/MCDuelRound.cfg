SPECIFICATION Spec
CONSTANTS
  FireTime = 3
  Limit = 6
  Bullets = 2
  QueueBound = 1
  MaxLag = 2
INVARIANTS TypeOK Agreement RightWinner StartOnce ScoredOnce
PROPERTY KeepsContract
CHECK_DEADLOCK FALSE
