CONSTANTS
  Chunk = 1
  RingSize = 2
  EventSlots = 2
  Loads <- MCLoads
  Links = 2
SPECIFICATION FairSpec
INVARIANTS
  LinkTransparent
PROPERTIES
  LinkLives
CHECK_DEADLOCK FALSE
