SPECIFICATION Spec
CONSTANTS
  MaxRetries = 0
  MaxEntries = 8
  MaxCrashes = 0
INVARIANTS NoTurnFaults
CHECK_DEADLOCK FALSE
