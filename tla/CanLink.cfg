SPECIFICATION Spec
CONSTANTS
  Rates = {r125, r250}
  Default = r250
  Unset = unset
INVARIANTS
  TypeOK
  EnableApplies
  FailureKeepsRate
  ClosedIsDown
