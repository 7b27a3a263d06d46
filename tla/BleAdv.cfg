SPECIFICATION AdvFairSpec
CONSTANTS
  Modes = {"sta", "gc"}
  Budget = 3
  AdvDataUpdate = FALSE
  AppTells = TRUE
INVARIANTS ShowsLast SwitchDecides AdvFollows
CHECK_DEADLOCK FALSE
PROPERTY ShowsEventually
