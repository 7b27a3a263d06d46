\* Where the code disagrees with its documents (README).  Each of these
\* properties is violated: leave one of the lines uncommented at a time.
SPECIFICATION Spec
CONSTANTS
  GOs = {g1, g2}
  Phones = {ph}
  NoPeer = NoPeer
  Faults = {"manual", "refuse_disconnect"}
  Budget = 3
  MaxEvents = 2
PROPERTY ManualNotSaved
\* INVARIANT AutoPairs
\* INVARIANT DoubleClickHeard
\* INVARIANT PairingEnds
\* INVARIANT Repairable
