SPECIFICATION LiveSpec
CONSTANTS
  Keys = {"a", "b", "c"}
  Data = {"small", "big", "huge", "refused"}
  KeyLen <- MCKeyLen
  DataLen <- MCDataLen
  hash <- MCHash
  size = 128
  hsize = 8
  Header = 20
  xor <- MCXor
  MAXKEYLEN = 1000
  MAXDATALEN = 150
  Ttls = {0, 1}
  MAXTTL = 1
  Times = {0, 2}
  MaxLoop = 2
  Slack = 60
  Miss = Miss
INVARIANT MemorySound
PROPERTIES
  CallsReturn
  ImplementsFifo
