CONSTANTS
  Streams = {s1, s2, s3, s4}
  None = None
  Periods = 2
  Width <- OneThenOne
  SeekKinds = {"flush", "set"}
  Faults = {"lateError"}
  MaxCalls = 1
  MaxErrors = 1
SPECIFICATION Spec
INVARIANT
  ManifestReleased
