CONSTANTS
  k1 = k1
  k2 = k2
  v1 = v1
  v2 = v2
  Keys <- TwoKeys
  Values <- TwoValues
  NodeWeight = 1
  LRU_MAX_MEMORY = 5
  Commands <- SomeCommands
  REWRITE_THRESHOLD = 1
  DiskFull = FALSE
  MaxCommands = 3
  MaxTime = 2
  MaxCrashes = 2
SPECIFICATION Spec
PROPERTY Durability
\* the commands are bounded
CHECK_DEADLOCK FALSE
