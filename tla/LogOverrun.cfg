SPECIFICATION Spec
CONSTANTS
  Proc = {p1, p2, p3, p4}
  Block = {b1, b2, b3, b4}
  Val = {v1}
  MAXOPBLOCKS = 1
  LOGSIZE = 3
  NLOG = 3
  NoVal = NoVal
  NoBlock = NoBlock
SYMMETRY LogSymmetry
INVARIANTS LogFits
