CONSTANTS
  w1 = w1
  w2 = w2
  Workers <- MCWorkers
  Fds <- MCFds
  NoFd <- MCNoFd
  ListenFd = 3
  Timeout = 1
  MaxSize = 2
  MaxInserts = 0
  MaxTime = 20
  MaxSockets = 3
  MaxEvents = 3
  AcceptAsCoded = FALSE
SPECIFICATION FairSpec
INVARIANT TypeOK
INVARIANT OneHandlerUnlessStale
INVARIANT InFlightOwned
INVARIANT TimerExact
INVARIANT Accounted
INVARIANT AlarmChain
PROPERTY ListedLeaves
CHECK_DEADLOCK FALSE
