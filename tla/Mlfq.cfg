CONSTANTS
  NPROC = 3
  CPU <- TwoCpus
  BootCPU = 101
  BOOST = 5
  QBASE = 1
  QSTEP = 0
  PRIO = 0
  Priorities = {1}
  Syscalls = {"fork", "exit", "wait", "kill", "sleep", "setPriority", "yield", "schedulerLock", "schedulerUnlock"}
SPECIFICATION MCSpec
INVARIANTS
  TypeOK
  
  OneCpuEach
  SlotOwned
  NoLostWakeup
  NoOrphan
  PromisesKept
PROPERTIES
  OrderKept
  BoostReachesAll
  LockExclusive
