CONSTANTS
  Lines = 7
  Descs = 3
  QueueSize = 4
  Longest = 6
  Modes <- MCModes
  Tokens <- MCTokens
  Methods = {"GET", "POST"}
  Handlers <- MCHandlers
  Requests <- MCRequests
  BufMax = 4
  MaxConns = 2
  MaxFrames = 2
SPECIFICATION MCFairSpec
INVARIANTS
  QuietWhenIdle
  LinesWhole
  RequestHandled
  RequestTold
  HeadersOwn
PROPERTIES
  FrameWhole
  RunReturns
  ConnectionEnds
CHECK_DEADLOCK FALSE
