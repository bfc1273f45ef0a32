CONSTANTS
  w1 = w1
  w2 = w2
  Uart <- MCUart
  Commands <- MCCommands
  Button <- MCNoButton
  Writers <- MCWriters
  ServerCodes <- MCCodes
  MaxBlocks = 3
  TimeLimit = 1
  Trailing = FALSE
  EarlyClose = FALSE
SPECIFICATION OneSpec
INVARIANTS
  OneUser
  FlashHoldsRecording
PROPERTIES
  ResultNotLost
  EveryRequestEnds
