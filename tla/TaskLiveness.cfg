SPECIFICATION FairSpec
CONSTANTS
  Task = {t1}
  Background = {}
  Waiter = {w1}
  Idle = Idle
  MaxDisruptions = 2
  Strays = TRUE
INVARIANT WaitersWoken
PROPERTIES MarkedEnds ReadyStarts
CHECK_DEADLOCK FALSE
