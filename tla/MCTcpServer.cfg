SPECIFICATION LiveSpec
CHECK_DEADLOCK FALSE
CONSTANTS
  Conns = {c1, c2, c3}
  Pids = {p1, p2, p3, p4}
  Inherited = {p1}
  None = None
  limit = 2
  MaxFails = 1
INVARIANT CountHolds
PROPERTY NeverStuck
