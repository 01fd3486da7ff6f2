SPECIFICATION Spec
CONSTANTS
  MaxInputs = 3
  MaxCalls = 2
  Safe = {2}
  MaxRounds = 1
  MaxDisruptions = 1
INVARIANT NothingStranded
CHECK_DEADLOCK FALSE
