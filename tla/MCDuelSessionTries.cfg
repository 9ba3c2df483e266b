SPECIFICATION FairSpec
CONSTANTS
  Money = 100
  RandomTimes = {0}
  MaxTries = 3
CONSTRAINT Explored
PROPERTIES NextRoundStarts EndTakesBoth NotBothLockedOut
CHECK_DEADLOCK FALSE
