CONSTANTS
  Buttons = {b1, b2}
  LongPressMs = 3
  MaxPresses = 3
  MaxTime = 1
  MaxLag = 1
SPECIFICATION FairSpec
CHECK_DEADLOCK FALSE
INVARIANTS TimersOwned HeldMatchesLevel PressesAccounted
PROPERTY ImplementsEvents
