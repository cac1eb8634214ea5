SPECIFICATION MCSpec
CONSTANTS
  Kinds <- MCKinds
  MaxTabs = 4
  MaxHistory = 4
  MaxSteps = 4
  N = 3
  Encrypted = {2}
  Unloaded = {3}
  MaxSlots = 2
  MaxViews = 5
  ListUids = {1, 2, 3}
  ReverseOrder = FALSE
  Threaded = TRUE
  MaxMoves = 4
  ComposerKinds = {"new", "reply", "recall"}
  CopyTo = {"sent"}
  Parent = "inbox"
  CopyToReplied = TRUE
  Refusals = {"unsupported"}
  MaxFailures = 2
  Processes = {1, 2, 3}
  Launches <- MCLaunches
  MaxCrashes = 1
INVARIANTS
  ComposerRight SendingRight TabsRight ViewersRight TransfersRight SelectionRight
  TreesRight PatchesRight InputRight InstancesRight
CHECK_DEADLOCK FALSE
