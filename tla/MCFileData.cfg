SPECIFICATION Spec
CONSTANTS
  Procs = {p1, p2}
  Inodes = {i1, i2}
  Files = {f1, f2}
  NBLOCKS = 6
  BSIZE = 2
  NDIRECT = 2
  NINDIRECT = 2
  MAXOPBLOCKS = 6
  MaxCalls = 3
  Lengths = {3, 8}
  None = None
INVARIANTS DataInv ReadsBack TransactionFits
SYMMETRY Symmetry
CHECK_DEADLOCK FALSE
