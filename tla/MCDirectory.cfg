CONSTANTS
  Procs = {p1, p2}
  ninodes = 5
  Names = {"a", "b"}
  Calls <- MCCalls
  MaxCalls = 3
  None = None
SPECIFICATION Spec
INVARIANTS
  InodeInv
  LinksExact
  HeldExist
  OnlyKnownFailures
SYMMETRY Symmetry
CHECK_DEADLOCK FALSE
