CONSTANTS
  Key = {k1, k2, k3, k4}
  NULL = NULL
  Usages = {1, 3, 7}
  LRU_MAX_MEMORY = 5
  HashKey = {k1}
  SizeT = 16
  MaxHashWrites = 2
SPECIFICATION Spec
INVARIANTS TypeOK ListOK MemoryExact WithinLimit
PROPERTIES NewestSurvives HandlerEnds EvictsLeastRecent
\* the process may die on undefined behaviour
CHECK_DEADLOCK FALSE
