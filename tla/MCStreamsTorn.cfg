CONSTANTS
  Digits <- Binary
  Commands <- FewCommands
  RecvBuffer = 20
  REWRITE_THRESHOLD = 40
  MaxCommands = 3
  MaxCrashes = 1
  MaxClients = 0
SPECIFICATION Spec
INVARIANT RestartExact
CHECK_DEADLOCK FALSE
