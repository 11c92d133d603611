SPECIFICATION Spec
CONSTANTS
  Byte = {0, 1}
  Capacity = 3
  Width = 16
INVARIANTS
  TypeOK
  AckedIsStored
PROPERTIES
  ImplementsStore
