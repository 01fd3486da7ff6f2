SPECIFICATION FairSpec
CONSTANTS
  MaxRetries = 0
  MaxEntries = 8
  MaxCrashes = 0
PROPERTIES KeptSuffixStays
CHECK_DEADLOCK FALSE
