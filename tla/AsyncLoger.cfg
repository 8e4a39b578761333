\* The server's four buffers, with room or with none; write may fail.
CONSTANTS
  NumBuffers = 4
  Sizes <- MCSizes
  FreshEnds <- MCFreshEnds
  MaxLines = 5
SPECIFICATION FairSpec
INVARIANT TypeOK
INVARIANT BuffersConserved
INVARIANT NoLineLost
INVARIANT RefusesOnlyWhenDoomed
INVARIANT OverflowHasCause
INVARIANT StopFlushes
PROPERTY ImplementsLogFile
PROPERTY EveryLineWritten
CHECK_DEADLOCK FALSE
