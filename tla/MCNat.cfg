SPECIFICATION NatSpec
CONSTANTS
  Ports = {p1}
  MaxRetries = 0
  MaxMishaps = 1
  MaxDetections = 2
  MaxLost = 1
CONSTRAINTS QueueOnly SecondDevice
INVARIANTS SuccessMeansBothHeard CompletedOnce NeverMisled
PROPERTIES FirstFindsDevice
CHECK_DEADLOCK FALSE
