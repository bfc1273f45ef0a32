CONSTANTS
  Tokens <- MCTokens
  Methods = {"GET", "POST"}
  Handlers <- MCHandlers
  Requests <- MCRequests
  BufMax = 4
  MaxConns = 1
  MaxFrames = 2
SPECIFICATION HttpSpec
INVARIANTS
  FrameConstant
CHECK_DEADLOCK FALSE
