\* Two workers; every handler returns.  The destructor's wake-up can be lost.
CONSTANTS
  w1 = w1
  w2 = w2
  w3 = w3
  Free = Free
  Workers <- MCTwoWorkers
  MaxTasks = 1
  Stuck = {}
SPECIFICATION FairSpec
PROPERTY StopEndsWorkers
CHECK_DEADLOCK FALSE
