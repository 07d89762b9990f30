CONSTANTS
  Streams = {s1, s2, s3, s4}
  None = None
  Periods = 3
  Width <- TwoThenOneEach
  SeekKinds = {"set"}
  Faults = {}
  MaxCalls = 1
  MaxErrors = 0
SPECIFICATION Spec
SYMMETRY Symmetry
INVARIANT
  NeverRefused
