SPECIFICATION FairSpec
CONSTANTS
  ChassisMode = FALSE
  PingPeriod = 2
  FailureLimit = 2
  CommandTimeout = 1
  SyncPeriod = 4
  SyncRetry = 3
  MaxSpin = 1
  MaxSync = 1
  MaxPing = 1
  MaxFaults = 1
  MayVanish = FALSE
PROPERTIES
  RestartNoticed
