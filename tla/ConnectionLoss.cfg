SPECIFICATION OpenedSpec
CONSTANTS
  Client = {c1, c2}
  Session = {s1}
  MaxHosts = 2
  MaxAttachments = 2
  MaxRequests = 2
  MaxCalls = 1
  MaxCrashes = 1
PROPERTY ConnectionLossReleases
CHECK_DEADLOCK FALSE
