SPECIFICATION FairSpec
CONSTANTS
  MaxRetry = 2
  DataReadyTimeout = 2
  I2cTimeout = 1
  PauseMin = 1
  PauseMax = 2
  WheelCount = 2
INVARIANTS
  TaskIsProvided
  NothingDangles
  PauseServedSoon
  VerdictIsFirst
  StartsOrStops
PROPERTIES
  KeeperSpec
  StationSettles
