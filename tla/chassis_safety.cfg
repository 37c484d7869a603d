SPECIFICATION Spec
CONSTANTS
  Wheels = {w1}
  MaxTarget = 1
  MaxOutput = 1
  IntegralLimit = 2
  GainScale = 2
  CommandTimeout = 1
  StallSteps = 2
  ClockMod = 4
  IntMin <- MCIntMin
  QueueLength = 2
  MaxPeriod = 1
  MaxLines = 1
  MaxSends = 2
  TwistTargets <- MCTwistTargets
  RunTargets <- MCRunTargets
  GainChoices <- MCOneGain
  InitialGains <- MCInitialGains
  Deltas <- MCDeltas
  FailSets <- MCFailures
  MayFallSilent = TRUE
INVARIANTS
  QuietUnlessArmed
  HardLimits
  DrivenOnlyWhenArmed
  FreshWhileArmed
PROPERTIES
  GateSpec
  StopsGoFirst
