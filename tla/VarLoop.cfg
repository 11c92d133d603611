SPECIFICATION Spec
CONSTANTS
  TickRate = 4
  EventTime = 2
  MaxGap = 2
  MaxSleep = 10
  Modulus = 16
  Bits = 32
  TurnBit = 27
INVARIANTS
  TypeOK
PROPERTIES
  EveryUpdateIsSent
