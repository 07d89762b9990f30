CONSTANTS
  Faults <- MCFaults
  MaxRequests = 3
  MaxFlushes = 2
  MaxItems = 7
SPECIFICATION FairSpec
INVARIANTS TypeOK OneDecoder HookFindsWork NextIsReached DecoderFed SomebodySignals FlushPaired EventsPass
PROPERTIES FlushWaitEnds
CHECK_DEADLOCK FALSE
