SPECIFICATION Spec
CONSTANTS
  StaleTimeout = 1
  SequenceMod = 4
  Offsets = {2, 4}
  ConversionPeriod = 2
  MaxRead = 1
  MaxStall = 1
  MaxTime = 6
INVARIANTS
  StampIsHonest
  FreshWhenPublished
PROPERTIES
  TelemetrySpec
  GapsAreSeen
