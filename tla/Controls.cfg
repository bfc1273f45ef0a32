CONSTANTS
  MaxSets = 2
  Failures = 1
  Averaged = 3
  OneG = 10
  QueueSize = 3
  Attributes = 2
  Tracks = 3
  Switches = 6
  Prime = 97
  Root = 28
  Order = 32
  Sizes = {4, 8, 12, 16, 32}
  Characters = {"/", "?", "a", "x", "y"}
  Uris <- MCUris
  Bodies = {0, 2}
  FormFields = {0, 1}
  Recordings <- MCRecordings
  Failing = {"connect", "timeout", "write", "short", "read", "malloc"}
SPECIFICATION MCSpec
INVARIANTS
  TransfersAgree
  Levelled
  PhoneKnown
  TransformExact
  RequestWhole
PROPERTIES
  Debounces
  HeldIsReported
CHECK_DEADLOCK FALSE
