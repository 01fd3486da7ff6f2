SPECIFICATION FairSpec
CONSTANTS
  Client = {c1, c2}
  Session = {s1, s2}
  MaxHosts = 2
  MaxAttachments = 2
  MaxRequests = 2
  MaxCalls = 1
  MaxCrashes = 1
INVARIANTS TypeOK HeldIsRouted ReleasedQuiet ViewFollows CloseReleasesAll
PROPERTIES LossReleasesUnlessLate RequestsEnd
CHECK_DEADLOCK FALSE
