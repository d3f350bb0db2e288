SPECIFICATION LiveSpec
CONSTANTS
  Clients = {c1, c2}
  Conns = {d1, d2}
  None = None
  MAXUDP = 2
  MAXTCP = 1
  MaxLen = 2
  MaxQueries = 3
INVARIANTS TablesSound
PROPERTIES DropsOldest QueriesEnd SilenceEnds
