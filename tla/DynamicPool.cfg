\* Two workers at first, three at most: the manager may create one and want two to
\* leave.
CONSTANTS
  MinNum = 2
  MaxNum = 3
  MaxTasks = 3
SPECIFICATION FairSpec
INVARIANT TypeOK
INVARIANT CountersExact
INVARIANT SizeFixedWhileOpen
INVARIANT NobodyOversleeps
PROPERTY CallsComplete
CHECK_DEADLOCK FALSE
