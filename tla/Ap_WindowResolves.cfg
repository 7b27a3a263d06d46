SPECIFICATION ApSpec
CONSTANTS
  Modes = {"go"}
  Budget = 2
  Macs = {a, b}
  NoMac = NoMac
  Slots = 2
  MaxEvents = 2
INVARIANTS WindowResolves
CHECK_DEADLOCK FALSE
