SPECIFICATION FairSpec
CONSTANTS
  Threshold = 10
  QueueLen = 2
  ErrorFrames <- MCErrorFrames
PROPERTIES
  SendsForever
