CONSTANTS
  Names <- MCNames  Root = "."  Parent <- MCParent  None = None
  Special <- MCSpecial  Addrs <- MCAddrs  Servers <- MCServers  Packets <- MCPackets  Solid <- MCSolid
  Data <- MCData  Exist <- MCExist  Hosts <- MCHosts  Loops <- MCLoops  Freed = {".", None}
  Clients = {q1, q2}  Asked <- MCAsked  flagforwardonly = FALSE
  QUERY_MAXLEVEL = 3  QUERY_MIN_USE_ROOTS_LEVEL = 2  QUERY_MAXALIAS = 2
  QUERY_MAXNS = 2  QUERY_MAXNS_ADDR = 2  MaxNames = 14  MaxPackets = 11
  MaxQueries = 2  MaxForgets = 1  MaxFails = 1
SPECIFICATION LiveSpec
INVARIANT StackKept AnswersTrue SolidAnswered
PROPERTY Ends
CHECK_DEADLOCK FALSE
