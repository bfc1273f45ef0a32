CONSTANTS
  p1 = p1
  p2 = p2
  d1 = d1
  d2 = d2
  None = None
  Uart <- MCUart
  Button <- MCButton
  Players <- MCPlayers
  Decoders <- MCDecoders
  MaxChunks = 1
  RingCap = 1
  MallocFails = TRUE
  PromptDecoder = FALSE
SPECIFICATION Spec
SYMMETRY SlotSymmetry
INVARIANTS
  OneSession
  OneDecoder
