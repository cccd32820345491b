SPECIFICATION Spec
CONSTANTS
  Proc = {p1, p2, p3}
  Block = {b1, b2, b3}
  Val = {v1, v2}
  MAXOPBLOCKS = 2
  LOGSIZE = 4
  NLOG = 4
  NoVal = NoVal
  NoBlock = NoBlock
SYMMETRY LogSymmetry
INVARIANT LogSafe
PROPERTY ImplementsAtomicDisk
