SPECIFICATION FairSpec
CONSTANTS
  Callers = {micro_ros}
  Timeout = 2
  SequenceMod = 4
  MaxPeriod = 2
  MaxCalls = 4
  LastCall = 3
  MaxTime = 8
INVARIANTS
  MotionIsFresh
  NoFutureCommand
  NewestIsShown
PROPERTIES
  DeadManSpec
  SilenceStops
