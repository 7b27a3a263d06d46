\* Where the template does not do what the brick's document asks (README): the
\* advertised link state goes stale.
SPECIFICATION AdvSpec
CONSTANTS
  Modes = {"sta"}
  Budget = 3
  AdvDataUpdate = FALSE
  AppTells = FALSE
INVARIANT AdvFollows
CHECK_DEADLOCK FALSE
