SPECIFICATION Spec
CONSTANTS
  Wheels = {w1}
  MaxTarget = 1
  MaxOutput = 1
  IntegralLimit = 2
  GainScale = 2
  CommandTimeout = 1
  StallSteps = 2
  ClockMod = 4
  IntMin <- MCIntMin
  QueueLength = 1
  MaxPeriod = 1
  MaxLines = 1
  MaxSends = 2
  TwistTargets <- MCStraightTwists
  RunTargets <- MCRunTargets
  GainChoices <- MCOneGain
  InitialGains <- MCInitialGains
  Deltas <- MCStandOrMove
  FailSets <- MCNoFailure
  MayFallSilent = FALSE
PROPERTIES
  FaultWaitsForZero
