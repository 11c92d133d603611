SPECIFICATION FairSpec
CONSTANTS
  Pollers = 2
  MaxFrames = 3
  BufferSize = 2
  Empty = {1, 3}
  Zero = {1}
INVARIANTS
  TypeOK
  OnePoller
PROPERTIES
  FreshInOrder
  StopIsHeard
  PolledIsRead
CHECK_DEADLOCK FALSE
