CONSTANTS
  Tokens <- MCTokens
  Methods = {"GET", "POST"}
  Handlers <- MCHandlers
  Requests <- MCRequests
  BufMax = 4
  MaxConns = 1
  MaxFrames = 1
SPECIFICATION HttpSpec
INVARIANTS
  MatchingHandled
CHECK_DEADLOCK FALSE
