CONSTANTS
  Conv = {c1, c2}
  MaxSeq = 3
  Caps = {4, 6}
  PruneAfter = 1
  MaxEpoch = 2
  MaxMishaps = 1
  MaxQueued = 1
  Faults = {}
SPECIFICATION FairSpec
INVARIANTS ReplayAgrees FrozenHasProof
PROPERTIES AllDurable
CHECK_DEADLOCK FALSE
