SPECIFICATION Spec
CONSTANTS
  Cuts <- MCCuts
  Segments <- MCSegments
  TemplateDuration = 2
  PeriodStart = 0
  PeriodLength = 7
  MoovSize = 1
  SidxSize = 1
  MoofSize = 1
  MdatSize = 2
  MaxBuffer = 2
  Starts <- MCStarts
  Faults = {"refused", "start", "server"}
  RefetchOk = {1}
  MaxErrors = 1
  MaxFaults = 2
  MaxSwitches = 2
INVARIANTS
  PushedTrue
  RightEntry
  SeekHonoured
  Retried
PROPERTIES
  Plays
  Ends
