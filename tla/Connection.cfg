SPECIFICATION FairSpec
CONSTANTS
  MaxStreamBytes = 30
  MaxBulkBytes = 2
  MaxArrayElements = 3
  Sessions <- AllSessions
  Bytes <- AllBytes
  Number <- DigitText
  MaxLength = 9
  ReadSize = 14
  OrdinaryLimit = 2
  IsMaster = TRUE
  ReplName <- R
  HelloFrames <- Hellos
  Frames <- PollFrames
INVARIANTS ExecutedIsScript RepliesInOrder
PROPERTIES EveryCommandAnswered LeftPeerIsClosed
CHECK_DEADLOCK FALSE
