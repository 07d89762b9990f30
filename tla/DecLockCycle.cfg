CONSTANTS
  Faults <- NoFaults
  MaxRequests = 1
  MaxFlushes = 1
  MaxItems = 3
SPECIFICATION Spec
INVARIANTS NoLockCycle
CHECK_DEADLOCK FALSE
