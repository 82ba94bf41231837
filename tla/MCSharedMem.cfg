CONSTANTS
  Slots = {p1, p2}
  Boot = p1
  Keys = {0, 1}
  Pages = {g1, g2, g3, g4}
  None = None
  Others = 1
  MaxRecs = 2
SYMMETRY Symmetric
CONSTRAINT Undisturbed
SPECIFICATION Spec
INVARIANTS
  ShareInv
  HoldersShare
CHECK_DEADLOCK FALSE
