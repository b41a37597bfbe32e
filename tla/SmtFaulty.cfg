CONSTANTS
  Conv = {c1}
  MaxSeq = 3
  Caps = {4, 6}
  PruneAfter = 1
  MaxEpoch = 1
  MaxMishaps = 2
  MaxQueued = 1
  Faults = {"torn", "idle", "again", "shrink", "wipe"}
SPECIFICATION Spec
INVARIANTS NothingLost CursorHonest
PROPERTY DurableLeavesKept
CHECK_DEADLOCK FALSE
