\* The counter of a hash wraps, and with it the memory counter of the store.
CONSTANTS
  Key = {k1, k2}
  NULL = NULL
  Usages = {1, 2, 3}
  LRU_MAX_MEMORY = 6
  HashKey = {k1}
  SizeT = 16
  MaxHashWrites = 2
SPECIFICATION Spec
INVARIANT AlwaysWithinLimit
CHECK_DEADLOCK FALSE
