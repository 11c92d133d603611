SPECIFICATION Spec
CONSTANTS
  Pollers = 1
  MaxFrames = 1
  BufferSize = 1
  Empty = {}
  Zero = {}
INVARIANTS
  SoftClosure
CHECK_DEADLOCK FALSE
