SPECIFICATION FairSpec
CONSTANTS
  MaxRetries = 1
  MaxEntries = 5
  MaxCrashes = 1
INVARIANTS TypeOK BoundedCalls
PROPERTIES NothingComesBack RecentStays LateHeadWins CollapseEnds
CHECK_DEADLOCK FALSE
