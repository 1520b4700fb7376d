\* Every outcome of a heartbeat, under usual and extreme schedules.
CONSTANTS
  MaxInt = 255
  Second = 3
  immediateInformDelay = 1
  maximumControllerInformInterval = 20
  Configs <- MCConfigs
  HintSeconds <- MCHintSeconds
  MaxFailures = 3
  MillisPerSecond = 2
  ServerMillis <- MCServerMillis
  LocalSeconds <- MCLocalSeconds
  Blocks = {b1}
  NoBlocks = NoBlocks
  NoServerTime = NoServerTime
  NoStatus = NoStatus
SPECIFICATION MCSpec
INVARIANTS
  EffectiveWithinPolicy DelayWithinBounds BackoffIsExponential ImmediateNeverTwice
  ResetForgetsController ClockOffsetSaturates
 
