CONSTANTS
  MaxCalls = 2
  Rates = {3, 5, 8}
  Volumes = {0, 63}
  VolumeRequests = 1
  MicRequests = 2
  Lost = 1
  ReaderBytes = {0, 1, 3, 6}
  Draws = {0, 1, 5, 9, 13, 31}
  FactorCodes = {0, 9, 15, 47, 210, 399, 400, 458, 499, 500, 505, 511}
  FactorOffsets = {0, 5}
  PairTables <- MCPairTables
  CodeBits <- MCCodeBits
  RegionTables <- MCRegionTables
  Offsets = {0, 5}
  PairCounts = {2, 6}
  Bands = {"mpeg1_44", "mpeg25_8"}
  Spectra <- MCSpectra
  MaxGranules = 2
  MaxBlocks = 40
  Streams <- MCStreams
  MAINBUF_SIZE = 1940
  RING_BUF_SIZE = 6144
  Portions = {0, 150, 700}
SPECIFICATION MCSpec
INVARIANTS
  RegistersHold
  RateKept
  MicPath
  FieldsInOrder
  CodesExact
  SpectrumKept
  TapsInOrder
  MainDataKept
  EveryFramePlayed
CHECK_DEADLOCK FALSE
