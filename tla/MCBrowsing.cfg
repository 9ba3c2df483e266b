SPECIFICATION BrowsingSpec
CONSTANTS
  FirstHbTime = 1
  MinStateChangedTime = 1
  HbTime = 3
  KaTime = 2
  MaxFirstCount = 3
  Recent = 5
  Window = 3
  Messages = 7
  Slots = 2
  MaxDuplicates = 0
  VerifyTime = 1
  Asker = {a, b}
  Challenges = 2
  Few = {s1, s2}
  Many = {s1, s2, s3}
  AtOnce = 2
  AuxCalls = 1
  Room = 7
  TypeRoom = 3
  Keys = 1
  Subs = 2
  MaxSize = 4
  SplitMax = 4
  Streams <- TwoStreams
INVARIANTS HostAnswersOnce ArrivesWhole QueuesSound
PROPERTY NobodyWaitsForEver
CHECK_DEADLOCK FALSE
