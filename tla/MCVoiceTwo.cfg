CONSTANTS
  w1 = w1
  w2 = w2
  Uart <- MCUart
  Commands <- MCFileCommands
  Button <- MCButton
  Writers <- MCWriters
  ServerCodes <- MCErrorCode
  MaxBlocks = 1
  TimeLimit = 1
  Trailing = TRUE
  EarlyClose = TRUE
SPECIFICATION TwoSpec
VIEW LockView
SYMMETRY WriterSymmetry
CHECK_DEADLOCK FALSE
INVARIANTS
  PlayBitComesBack
