\* Where the code disagrees with its documents (README).  Each of these
\* properties is violated: leave one of the lines uncommented at a time.
SPECIFICATION Spec
CONSTANTS
  Readers = {r1}
  CacheSize = 1
  MaxCycles = 2
INVARIANT EveryCycleAnnounced
CHECK_DEADLOCK FALSE
