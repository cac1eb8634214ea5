SPECIFICATION Spec
CONSTANTS
  MaxConns = 2
  MaxPosts = 1
  MaxFaults = 0
  UserKinds = {"Command"}
PROPERTY KeepsHealthy
CHECK_DEADLOCK FALSE
