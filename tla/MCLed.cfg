CONSTANTS
  NumLeds = 2
  RotateNumLeds = 2
  QueueDepth = 2
  BreathePeriod = 60
  PwmPeriod = 20
  PwmLeds <- FirstPwm
  Cmds <- AllCmds
  MaxCmds = 3
SPECIFICATION FairSpec
CHECK_DEADLOCK FALSE
INVARIANTS NoLostWakeup TimersOwned RotateOwnsLeds OffIsDark BreatheRamp
PROPERTIES CommandsDrain EffectsKeepMoving
