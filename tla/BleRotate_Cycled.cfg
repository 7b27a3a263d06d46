CONSTANTS
  MaxCreds = 3
  Unloadable = TRUE
  Changes = 0
SPECIFICATION RotateFairSpec
CHECK_DEADLOCK FALSE
PROPERTY Cycled
