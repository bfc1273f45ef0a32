CONSTANTS
  p1 = p1
  p2 = p2
  d1 = d1
  d2 = d2
  None = None
  Uart <- MCUart
  Button <- MCNoButton
  Players <- MCPlayers
  Decoders <- MCDecoders
  MaxChunks = 2
  RingCap = 1
  MallocFails = FALSE
  PromptDecoder = TRUE
SPECIFICATION FairSpec
INVARIANTS
  SendOnLiveRing
  NoStaleStop
  NoStalePause
PROPERTIES
  SessionSpec
