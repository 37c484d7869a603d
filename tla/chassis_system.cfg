SPECIFICATION SystemFairSpec
CONSTANTS
  Wheels = {w1, w2}
  MaxTarget = 1
  MaxOutput = 1
  IntegralLimit = 1
  GainScale = 2
  CommandTimeout = 1
  StallSteps = 1
  ClockMod = 3
  IntMin <- MCIntMin
  QueueLength = 2
  MaxPeriod = 1
  MaxLines = 1
  MaxSends = 1
  TwistTargets <- MCTurnTwists
  RunTargets <- MCNoLine
  GainChoices <- MCNoLine
  InitialGains <- MCInitialGains
  Deltas <- MCStandOrMove
  FailSets <- MCOneFailure
  MayFallSilent = TRUE
INVARIANTS
  NothingOutlivesSession
PROPERTIES
  LossStopQueued
  SilenceStops
  StopServed
