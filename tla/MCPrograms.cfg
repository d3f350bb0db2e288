SPECIFICATION Spec
CONSTANTS
  None = None
  Bogus = Bogus
INVARIANTS NamesServed FilesServed ClientsJudged StreamsKept Connected
CHECK_DEADLOCK FALSE
