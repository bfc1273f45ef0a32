CONSTANTS
  Streams <- MCStreams
  MAINBUF_SIZE = 1940
  RING_BUF_SIZE = 6144
  Portions = {0, 150, 700}
SPECIFICATION StreamSpec
INVARIANT UnderflowAtEnd
CHECK_DEADLOCK FALSE
