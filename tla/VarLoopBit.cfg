SPECIFICATION FairSpec
CONSTANTS
  TickRate = 2
  EventTime = 1
  MaxGap = 1
  MaxSleep = 1
  Modulus = 16
  Bits = 32
  TurnBit = 27
PROPERTIES
  MovingBitCrosses
