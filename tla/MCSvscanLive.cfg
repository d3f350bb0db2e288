SPECIFICATION LiveSpec
CONSTANTS
  Names = {a, b}
  Inodes = {i1, i2}
  Pids = {p1, p2}
  Pipes = {q1}
  None = None
  SERVICES = 1
  MaxFails = 1
  StatMayFail = TRUE
  ReuseInodes = FALSE
INVARIANT TypeOK
PROPERTY GetsSupervises
