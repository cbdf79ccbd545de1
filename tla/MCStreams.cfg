CONSTANTS
  Digits <- Binary
  Commands <- FewCommands
  RecvBuffer = 20
  REWRITE_THRESHOLD = 15
  MaxCommands = 2
  MaxCrashes = 2
  MaxClients = 1
SPECIFICATION Spec
INVARIANTS TypeOK ExecutesWhatArrived LogDecodes TornTailIgnored
PROPERTY SentIsExecuted
\* the commands are bounded
CHECK_DEADLOCK FALSE
