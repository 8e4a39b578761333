\* Three workers, four tasks, one handler that never returns.
CONSTANTS
  w1 = w1
  w2 = w2
  w3 = w3
  Free = Free
  Workers <- MCWorkers
  MaxTasks = 4
  Stuck = {2}
SPECIFICATION FairSpec
INVARIANT TypeOK
INVARIANT TakeFindsTask
INVARIANT ExactlyOnce
INVARIANT WorkConserving
INVARIANT AtMostOneLateTask
PROPERTY ImplementsDispatcher
PROPERTY EveryTaskTaken
PROPERTY BackloggedStopEnds
CHECK_DEADLOCK FALSE
