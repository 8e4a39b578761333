\* Three descriptors, four insertions, any calls in any order.
CONSTANTS
  f1 = f1
  f2 = f2
  f3 = f3
  Fds <- MCFds
  Timeout = 1
  MaxSize = 2
  MaxInserts = 4
  MaxTime = 3
SPECIFICATION TimerSpec
SYMMETRY FdSymmetry
INVARIANT TimerTypeOK
INVARIANT IteratorsValid
INVARIANT ListSorted
INVARIANT NeverPastTheEnd
CHECK_DEADLOCK FALSE
