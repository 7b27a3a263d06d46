\* Where the code disagrees with its documents (README).  Each of these
\* properties is violated: leave one of the lines uncommented at a time.
SPECIFICATION SpecBle
CONSTANTS
  NumAddrs = 1
  Faults = {"refuse_connect"}
  Budget = 3
  MaxEvents = 3
  BleProv = TRUE
PROPERTY BeaconLossRetried
\* INVARIANT BootRetried
\* INVARIANT StaleStatusRetried
