CONSTANTS
  Fds = {5}
  MaxConnects = 2
SPECIFICATION FairSpec
PROPERTY Reconnects
CHECK_DEADLOCK FALSE
