CONSTANTS
  NPROC = 3
  PRIO = 1
  Priorities = {0, 1}
  Chan = {c1, c2}
SYMMETRY ChanSymmetry
SPECIFICATION MCSpec
PROPERTY ImplementsQueues
