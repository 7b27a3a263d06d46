SPECIFICATION AppFairSpec
CONSTANTS
  MaxConnects = 4
  NumAddrs = 2
  Faults = {"refuse_connect", "refuse_disconnect", "pre_scan", "status_query", "creds"}
  Budget = 2
  MaxEvents = 3
  BleProv = FALSE
INVARIANTS QueryArmed OnlineAgrees
PROPERTY TimeInTheEnd
CHECK_DEADLOCK FALSE
