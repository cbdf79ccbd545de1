CONSTANTS
  k1 = k1
  k2 = k2
  v1 = v1
  v2 = v2
  Keys <- TwoKeys
  Values <- TwoValues
  NodeWeight = 1
  LRU_MAX_MEMORY = 5
  Commands <- AllCommands
  REWRITE_THRESHOLD = 5
  DiskFull = FALSE
  MaxCommands = 3
  MaxTime = 2
  MaxCrashes = 0
SPECIFICATION Spec
INVARIANT OverwritesLogged
CHECK_DEADLOCK FALSE
