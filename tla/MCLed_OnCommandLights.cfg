CONSTANTS
  NumLeds = 2
  RotateNumLeds = 2
  QueueDepth = 2
  BreathePeriod = 60
  PwmPeriod = 20
  PwmLeds <- NoPwm
  Cmds <- AllCmds
  MaxCmds = 4
SPECIFICATION Spec
CHECK_DEADLOCK FALSE
PROPERTY OnCommandLights
