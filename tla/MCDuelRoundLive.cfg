SPECIFICATION FairSpec
CONSTANTS
  FireTime = 2
  Limit = 4
  Bullets = 1
  QueueBound = 1
  MaxLag = 2
PROPERTIES FoulSettles HitsSettle
CHECK_DEADLOCK FALSE
