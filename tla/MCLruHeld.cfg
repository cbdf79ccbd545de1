CONSTANTS
  Key = {k1, k2, k3}
  NULL = NULL
  Usages = {1, 2, 3}
  LRU_MAX_MEMORY = 6
  HashKey = {}
  SizeT = 16
  MaxHashWrites = 2
SPECIFICATION Spec
INVARIANT NoUseAfterFree
CHECK_DEADLOCK FALSE
