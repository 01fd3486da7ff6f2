SPECIFICATION Spec
CONSTANTS
  Task = {t1, t2}
  Background = {}
  Waiter = {}
  Idle = Idle
  MaxDisruptions = 2
  Strays = TRUE
INVARIANTS TypeOK HandlersSeeStoredState EffectRemembered NothingOverlooked StoppedMeansStopped
PROPERTIES ExecutionsJoin CheckpointByHandler FollowsLifecycle
SYMMETRY TaskSymmetry
CHECK_DEADLOCK FALSE
