CONSTANTS
  k1 = k1
  k2 = k2
  v1 = v1
  v2 = v2
  Keys <- TwoKeys
  Values <- TwoValues
  NodeWeight = 1
  LRU_MAX_MEMORY = 5
  Commands <- AllCommands
  REWRITE_THRESHOLD = 1
  DiskFull = TRUE
  MaxCommands = 3
  MaxTime = 2
  MaxCrashes = 0
SPECIFICATION Spec
INVARIANT Recoverable
CHECK_DEADLOCK FALSE
