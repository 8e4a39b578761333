CONSTANTS
  w1 = w1
  w2 = w2
  Workers <- MCWorkers
  Fds <- MCFds
  NoFd <- MCNoFd
  ListenFd = 3
  Timeout = 1
  MaxSize = 2
  MaxInserts = 0
  MaxTime = 20
  MaxSockets = 3
  MaxEvents = 2
  AcceptAsCoded = FALSE
SPECIFICATION Spec
INVARIANT ListedIsArmed
CHECK_DEADLOCK FALSE
