SPECIFICATION Services
CONSTANTS
  MaxCalls = 4
  MaxThreads = 3
  MaxItems = 2
  MaxRequests = 3
  MaxRestarts = 1
  DuelsToReport = 1
INVARIANTS ServersApart HostNoticesLoss TransactionsKept MoneyAgrees ServicesHold
PROPERTY FoundAgain
CHECK_DEADLOCK FALSE
