CONSTANTS
  Buttons = {b1}
  LongPressMs = 3
  MaxPresses = 1
  MaxTime = 2
  MaxLag = 1
SPECIFICATION Spec
CHECK_DEADLOCK FALSE
PROPERTIES SingleClickDuration
