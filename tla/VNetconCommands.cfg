CONSTANTS
  Fds = {5}
  MaxConnects = 1
SPECIFICATION Spec
INVARIANT CommandsMatched
CHECK_DEADLOCK FALSE
