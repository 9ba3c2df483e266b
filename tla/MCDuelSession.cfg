SPECIFICATION Spec
CONSTANTS
  Money = 100
  RandomTimes = {0, 1}
  MaxTries = 1
INVARIANTS SettledOnce MoneyMoves FairRound MatchHolds
CHECK_DEADLOCK FALSE
