CONSTANTS
  Streams = {s1, s2}
  None = None
  Periods = 1
  Width <- OnlyTwo
  SeekKinds = {"flush", "set"}
  Faults = {}
  MaxCalls = 1
  MaxErrors = 0
SPECIFICATION FairSpec
PROPERTIES
  CallsEnd
  PrerollEnds
