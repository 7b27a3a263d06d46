SPECIFICATION FairSpec
CONSTANTS
  Readers = {r1}
  CacheSize = 2
  MaxCycles = 2
INVARIANT CopiesAreNews
PROPERTY KeepsSampling
CHECK_DEADLOCK FALSE
