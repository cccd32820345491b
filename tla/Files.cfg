SPECIFICATION DescSpec
CONSTANTS
  Proc = {"p1", "p2"}
  MaxRace = 3
  Tester = "p1"
  NINODES = 5
  NINODE = 5
  NOFILE = 2
  Alias <- MCAlias
  Calls <- AllCalls
  Tests <- MCTests
  Writer = {1, 2}
  File = {f, g}
  NDIRECT = 1
  NINDIRECT = 2
  BSIZE = 2
  NBLOCKS = 4
  MaxOp = 2
  WORD = 16
  WriteLens = {1, 3}
  ReadLens = {2, 15}
  MaxCalls = 5
  Reader = {"r1", "r2"}
  INPUT_BUF = 2
  IWORD = 4
  MaxAsk = 2
INVARIANTS  CountsExact BlocksExact
PROPERTIES ImplementsNameSpace ImplementsByteFile ImplementsLines
SYMMETRY FileSymmetry
CHECK_DEADLOCK FALSE
