SPECIFICATION Spec
CONSTANTS
  MaxConns = 3
  MaxPosts = 1
  MaxFaults = 2
  UserKinds = {"Command", "Disconnect"}
INVARIANTS Watched IdleExclusive ClosedOnce
PROPERTY WorkerResponds
CHECK_DEADLOCK FALSE
