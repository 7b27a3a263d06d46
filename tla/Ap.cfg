SPECIFICATION ApSpec
CONSTANTS
  Modes = {"softap", "go"}
  Budget = 4
  Macs = {a, b, c}
  NoMac = NoMac
  Slots = 2
  MaxEvents = 3
INVARIANTS TableFollows ShowsClients StaysConnectable
CHECK_DEADLOCK FALSE
