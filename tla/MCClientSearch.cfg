SPECIFICATION MCSearchSpec
CONSTANTS
  Server = {s1, s2}
PROPERTY KeysCome
CHECK_DEADLOCK FALSE
