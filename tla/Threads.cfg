SPECIFICATION MCSpec
CONSTANTS
  NPROC = 4
  CPU <- OneCpu
  Syscalls = {"fork","exit","wait","block","exec","spawn","kill","thread_exit","thread_join"}
  Preemptible <- Interrupted
INVARIANTS WaitersWoken 
PROPERTY ZombieStays
