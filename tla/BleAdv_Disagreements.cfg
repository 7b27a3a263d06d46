\* Where the code disagrees with its documents (README).  Each of these
\* properties is violated: leave one of the lines uncommented at a time.
SPECIFICATION AdvSpec
CONSTANTS
  Modes = {"sta"}
  Budget = 3
  AdvDataUpdate = TRUE
  AppTells = TRUE
CHECK_DEADLOCK FALSE
PROPERTY ToggleToggles
\* INVARIANT SlowAfterProvisioning
