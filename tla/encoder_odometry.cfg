SPECIFICATION Spec
CONSTANTS
  WheelCount = 2
  Limit = 5
  MaxMove = 2
  MaxTravel = 2
  MaxFailures = 1
INVARIANTS
  OdomExact
  DriftBounded
