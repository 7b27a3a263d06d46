CONSTANTS
  NumAddrs = 1
  Faults = {"refuse_connect", "pre_scan", "status_query", "creds"}
  Budget = 3
  MaxEvents = 3
  BleProv = TRUE
SPECIFICATION SpecBle
INVARIANTS CycleKeepsWork RetryPending NoRebootWithLease
