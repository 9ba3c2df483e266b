SPECIFICATION Spec
CONSTANTS
  Money = 100
  RandomTimes = {0, 1}
  MaxTries = 0
CHECK_DEADLOCK FALSE
INVARIANT WinnerTakesFromLoser
