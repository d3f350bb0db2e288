SPECIFICATION LiveSpec
CONSTANTS
  Pids = {p1, p2}
  NoPid = NoPid
  CommandLines <- MCLiveLines
  MaxFifo = 2
  MaxForkFails = 0
  MaxCrashes = 0
  DiskMayFail = FALSE
PROPERTIES
  Restarts
  DownGoesDown
  ExitsWhenDown
