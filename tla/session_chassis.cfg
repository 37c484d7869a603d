SPECIFICATION FairSpec
CONSTANTS
  ChassisMode = TRUE
  PingPeriod = 1
  FailureLimit = 3
  CommandTimeout = 1
  SyncPeriod = 5
  SyncRetry = 5
  MaxSpin = 2
  MaxSync = 2
  MaxPing = 1
  MaxFaults = 3
  MayVanish = TRUE
INVARIANTS
  CompleteSession
  NothingLeft
  CacheIsCurrent
  EpochIsRecent
  SilenceBounded
PROPERTIES
  LifecycleSpec
  LinkSpec
  LossEndsSession
  Recovers
CHECK_DEADLOCK FALSE
