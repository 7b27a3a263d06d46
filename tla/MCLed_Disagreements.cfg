\* Where the code disagrees with its documents (README).  Each of these
\* properties is violated: leave one of the lines uncommented at a time.
SPECIFICATION Spec
CONSTANTS
  NumLeds = 2
  RotateNumLeds = 2
  QueueDepth = 2
  BreathePeriod = 60
  PwmPeriod = 20
  PwmLeds <- FirstPwm
  Cmds <- AllCmds
  MaxCmds = 4
CHECK_DEADLOCK FALSE
PROPERTY OffCommandDarkens
\* PROPERTY BreatheStartsDark
\* INVARIANT EffectsResume
\* PROPERTY StaticCommandPublishes
