SPECIFICATION Spec
CONSTANTS
  Modes = {"sta", "gc"}
  Budget = 3
PROPERTY AckShown
CHECK_DEADLOCK FALSE
