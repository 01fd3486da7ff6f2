SPECIFICATION FairSpec
CONSTANTS
  MaxInputs = 3
  MaxCalls = 2
  Safe = {2}
  MaxRounds = 1
  MaxDisruptions = 1
INVARIANTS TypeOK InboxIsQueued OwnedOnce OwnedVisible AnswerSeesInput StrandedBehindReset ResultsFollowCalls UnsafeToolOnce
PROPERTIES FollowsInputLifecycle AcceptedSettles
CHECK_DEADLOCK FALSE
