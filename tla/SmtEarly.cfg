CONSTANTS
  Conv = {c1}
  MaxSeq = 3
  Caps = {6}
  PruneAfter = 1
  MaxEpoch = 0
  MaxMishaps = 1
  MaxQueued = 1
  Faults = {"early"}
SPECIFICATION Spec
INVARIANT NothingLost
CHECK_DEADLOCK FALSE
