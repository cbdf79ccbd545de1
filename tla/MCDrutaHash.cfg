CONSTANTS
  f1 = f1
  f2 = f2
  f3 = f3
  small = small
  large = large
  Field = {f1, f2, f3}
  Value = {small, large}
  length <- MCLength
  SSO = 2
  DRUTA_MAX_KEY = 2
  STRING_OBJ_OVERHEAD = 1
  MAP_NODE_OVERHEAD = 1
  NodeSize = 4
  OtherKeys = 10
  SizeT = 256
  MaxPairs = 2
  MaxCommands = 5
SPECIFICATION Spec
INVARIANTS TypeOK HoldsContents RepliesExact ShortStringsExact
\* the number of commands is bounded
CHECK_DEADLOCK FALSE
