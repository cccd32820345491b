SPECIFICATION PartsSpec
CONSTANTS
  p1 = p1
  p2 = p2
  byteA = byteA
  byteB = byteB
  Proc <- TwoProcs
  Byte <- TwoBytes
  PIPESIZE = 2
  WORD = 4
  MaxWrite = 3
  MaxRead = 3
  CPUs = {1, 2}
  Locks = {1, 2}
  HSIZE = 2
  MINCORE = 4
  TOP = 10
  UINT = 32
  Sizes = {0, 3, 9}
  HoleLens = {1}
  Token = {"a", "m", "<", ">", "|", "&", ";", "(", ")"}
  MaxLine = 4
  MAXARGS = 3
  NFD = 6
  Patterns <- MCPatterns
  Inputs <- MCInputs
  GBUF = 5
  BSIZE = 4
  NDIRECT = 2
  DSIZE = 2
  NMETA = 3
  FSSIZE = 22
  BITS = 20
  FileLens = {0, 1, 4, 9, 24, 25}
  MaxFiles = 4
  Mems <- MCMems
  INTW = 256
  ADDRW = 32
  INTSIZE = 4
  Formats <- MCFormats
  SECTSIZE = 4
  Images <- MCImages
INVARIANTS PipeSafe SpinSafe LinesMean GrepSelects ImageSound 
PROPERTIES ImplementsByteStream ImplementsHeap
SYMMETRY PipeSymmetry
CHECK_DEADLOCK FALSE
