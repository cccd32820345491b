SPECIFICATION ManagedSpec
CONSTANTS
  NPROC = 3
  Sizes = {12, 15, 17}
  PGSIZE = 2
  NPT = 2
  KTAB = 1
  KERNBASE = 9
  WORD = 16
  Pids = {1, 2}
  PmWords = {"list", "kill", "execute", "memlim", "exit", "1", "2", ""}
  MaxWords = 3
  MaxCmds = 2
  SbrkArgs <- Sbrks
  Limits = {5, 7}
  Stacks = {0, 1}
  Programs <- MCPrograms
  Projects = {2}
INVARIANT WaitFrees
CHECK_DEADLOCK FALSE
