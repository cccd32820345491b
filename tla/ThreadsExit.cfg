SPECIFICATION Spec
CONSTANTS
  NPROC = 4
  CPU = {101}
  Syscalls = {"fork","exit","spawn","thread_exit","thread_join"}
  Preemptible = {"user", "kernel", "fork", "forked", "thread", "exit", "thread_exit"}
PROPERTY ExitEndsAll
