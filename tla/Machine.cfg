SPECIFICATION MachineSpec
CONSTANTS
  p1 = p1
  p2 = p2
  b1 = b1
  b2 = b2
  b3 = b3
  v1 = v1
  v2 = v2
  NoProc = NoProc
  NoBlock = NoBlock
  NoVal = NoVal
  Proc <- TwoProcs
  Block <- ThreeBlocks
  Val <- TwoVals
  NBUF = 2
  DiskErrors = FALSE
  Tables <- MCTables
  BSP = 1
  NCPU = 3
  LOWFRAMES = 4
  NFRAMES = 6
  MaxTasks = 2
INVARIANT CacheSound
PROPERTIES ImplementsBlockStore DiskAnswers BootsUp
