SPECIFICATION LiveSpec
CONSTANTS
  Number = {"ACCEL_STATE", "SHOT_TIME"}
  AccelState = "ACCEL_STATE"
  MaxTries = 1
  Pings = TRUE
  MaxSends <- GuestTwice
CONSTRAINT Explored
INVARIANTS LinkHolds NotTwice AckedMeansTaken
PROPERTIES KeepsLinkContract RepeatersEnd
CHECK_DEADLOCK FALSE
