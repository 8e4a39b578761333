CONSTANTS
  NumBuffers = 4
  Sizes <- MCSizes
  FreshEnds <- MCFreshEnds
  MaxLines = 5
SPECIFICATION Spec
INVARIANT WriterSurvives
CHECK_DEADLOCK FALSE
