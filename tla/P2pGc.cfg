CONSTANTS
  GOs = {g1, g2}
  Phones = {ph}
  NoPeer = NoPeer
  Faults = {"refuse_find", "refuse_connect", "refuse_disconnect", "nvs", "manual", "hasty", "late"}
  Budget = 5
  MaxEvents = 2
SPECIFICATION FairSpec
INVARIANTS RetryPending BelievesGroup RepairableInOrder
PROPERTIES SavesJoined Reconnects
