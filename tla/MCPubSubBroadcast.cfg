CONSTANTS
  Fd = {1, 2}
  server_fd = 0
  Channel = {a, b}
  MAX_SUBSCRIPTIONS_PER_CLIENT = 1
  MaxArgs = 2
  Pipe = 1
  Window = 1
  Backlog = 1
SPECIFICATION Spec
INVARIANT BroadcastSurvives
CHECK_DEADLOCK FALSE
