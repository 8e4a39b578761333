CONSTANTS
  h1 = h1
  h2 = h2
  server = server
  Handlers <- MCHandlersSet
  Streams <- MCStreams
  BufferSize = 2
  LineSize = 6
  WithEquals <- MCWithEquals
  Numeral <- MCNumeral
  Query <- MCQuery
  Server = server
  Files <- MCFiles
  ResourceType <- MCResourceType
  Programs <- MCPrograms
  PageSize = 2
  PipeCap = 2
SPECIFICATION FairSpec
INVARIANT TypeOK
INVARIANT ReadAsSent
INVARIANT DiesOnlyOf
INVARIANT AskedInVain
INVARIANT LeavesBehind
INVARIANT OutputComplete
PROPERTY CgiEnds
CHECK_DEADLOCK FALSE
