SPECIFICATION Spec
CONSTANTS
  Names = {a}
  Inodes = {i1, i2}
  Pids = {p1, p2, p3, p4}
  Pipes = {q1, q2}
  None = None
  SERVICES = 2
  MaxFails = 1
  StatMayFail = FALSE
  ReuseInodes = TRUE
SYMMETRY MCSymmetry
INVARIANTS
  ChildrenTabled
  PipesKept
PROPERTY PresentKept
