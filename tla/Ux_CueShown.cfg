SPECIFICATION Spec
CONSTANTS
  Modes = {"gc"}
  Budget = 4
INVARIANT CueShown
CHECK_DEADLOCK FALSE
