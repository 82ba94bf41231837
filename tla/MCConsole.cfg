SPECIFICATION Spec
CONSTANTS
  Procs = {p1, p2}
  INPUT_BUF = 3
  UINT = 6
  MAXWINDOWS = 2
  Sizes = {1, 2, 4}
  Budgets <- MCBudgets
INVARIANT WindowsKept
PROPERTIES
  ImplementsLines
  LinesAreRead
CHECK_DEADLOCK FALSE
