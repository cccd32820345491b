CONSTANTS
  NPROC = 3
  CPU = {101}
  BootCPU = 101
  BOOST = 3
  QBASE = 1
  QSTEP = 0
  PRIO = 1
  Priorities = {0}
  Syscalls = {"fork", "sleep", "wait", "kill", "kill0"}
SPECIFICATION FairSpec
PROPERTIES
  StarvationFree
  KilledExits
