SPECIFICATION FairSpec
CONSTANTS
  Task = {t1, t2}
  Background = {t2}
  Waiter = {w1}
  Idle = Idle
  MaxDisruptions = 0
  Strays = FALSE
INVARIANT WaitersWoken
PROPERTY ReadyStarts
CHECK_DEADLOCK FALSE
