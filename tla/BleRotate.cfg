CONSTANTS
  MaxCreds = 4
  Unloadable = TRUE
  Changes = 3
SPECIFICATION RotateFairSpec
CHECK_DEADLOCK FALSE
INVARIANT RoundRobin
PROPERTY LoadableCycled
