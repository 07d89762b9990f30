CONSTANTS
  Streams = {s1, s2, s3, s4, s5}
  None = None
  Periods = 2
  Width <- TwoThenOne
  SeekKinds = {"flush", "set"}
  Faults = {"error"}
  MaxCalls = 1
  MaxErrors = 1
SPECIFICATION Spec
SYMMETRY Symmetry
INVARIANTS
  TypeOK
  OneOwner
  DeadIsQuiet
  ExposeOnlyPrerolled
  LastReleases
  NoLostWakeup
  CallsAtRest
  Resumed
  NeverRefused
PROPERTY
  PeriodAdvances
