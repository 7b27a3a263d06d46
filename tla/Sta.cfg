CONSTANTS
  NumAddrs = 2
  Faults = {"refuse_connect", "refuse_disconnect", "pre_scan", "status_query", "creds"}
  Budget = 4
  MaxEvents = 4
  BleProv = FALSE
SPECIFICATION FairSpec
CHECK_DEADLOCK FALSE
INVARIANTS RecoveryPending BelievesLease AppTold
PROPERTY Recovers
