CONSTANTS
  MaxVolume = 2
  Commands = 4
  Losses = 1
  Messages = 2
SPECIFICATION FairSpec
INVARIANTS
  CommandsWhole
PROPERTIES
  StackInPlace
  WifiComesBack
CHECK_DEADLOCK FALSE
