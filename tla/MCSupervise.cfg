SPECIFICATION Spec
CONSTANTS
  Pids = {p1, p2}
  NoPid = NoPid
  CommandLines <- MCAllLines
  MaxFifo = 1
  MaxForkFails = 1
  MaxCrashes = 1
  DiskMayFail = TRUE
SYMMETRY MCSymmetry
INVARIANTS
  PidTracksChild
  WakeupPending
  StatusFresh
  FlagsTrue
PROPERTY NoStartAfterExit
