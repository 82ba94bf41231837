CONSTANTS
  Procs = {p1, p2}
  InitProc = p1
  NFILE = 3
  NOFILE = 2
  Inodes = {i1}
  Pipes = {g1}
  Modes = {"O_RDWR"}
  None = None
SPECIFICATION Spec
INVARIANTS
  TableInv
  OnlyMemoReadPanics
CHECK_DEADLOCK FALSE
