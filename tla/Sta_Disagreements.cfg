\* Where the code disagrees with its documents (README).  Each of these
\* properties is violated: leave one of the lines uncommented at a time.
SPECIFICATION Spec
CONSTANTS
  NumAddrs = 1
  Faults = {"refuse_disconnect"}
  Budget = 3
  MaxEvents = 4
  BleProv = FALSE
CHECK_DEADLOCK FALSE
PROPERTY WatchdogSparesLease
\* INVARIANT NoHalfConnected
