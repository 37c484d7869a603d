SPECIFICATION Spec
CONSTANTS
  Offsets = {2, 4}
  MaxPeriod = 2
  MaxStall = 1
  MaxTime = 7
INVARIANTS
  StampIsHonest
PROPERTIES
  TelemetrySpec
  InOrderOnTheWire
