SPECIFICATION LiveSpec
CONSTANTS
  Input = 7
  Newlines = {1, 5, 6}
  InBuf = 3
  MaxLine = 3
  OutBuf = 2
  Size = 3
  Slack = 1
  Num = 2
  Processors = {TRUE, FALSE}
  MaxCrashes = 2
  MaxSignals = 1
  MaxFails = 1
INVARIANTS Kept InOrder OldFiles HandedOn
PROPERTY LinesLand
