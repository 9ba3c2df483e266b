SPECIFICATION FairSpec
CONSTANTS
  Conn = {c1, c2}
  MaxDepth = 8
  Programs <- TwoPrograms
  Lives <- ThreeLives
  Serials = 8
  Start = 6
  MaxOut = 3
  MaxIn = 2
  MaxSends <- FiveOneWay
INVARIANTS InOrderOnce ReliableHolds SoftCloseLosesNothing NothingUsedAfterFree
PROPERTY AllConfirmed
CHECK_DEADLOCK FALSE
