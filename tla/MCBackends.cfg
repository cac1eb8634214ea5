SPECIFICATION MCSpec
CONSTANTS
  MaxWaits = {0, 30, 90}
  MaxRetries = 40
  MaxLosses = 1
  MaxUser = 1
  BoxNames = {"a", "b", "c"}
  Files <- MCFiles
  Contents = {"m1", "m2"}
  MaxActions = 3
  Dirs = {"a", "b"}
  Keys = {"k1", "k2"}
  InitialNew <- MCInitialNew
  MaxForeign = 1
  MaxCommands = 3
INVARIANTS
  WaitRight KeepsTrying CountsFresh JmapRight QueriesRight
PROPERTIES
  MailKept
CHECK_DEADLOCK FALSE
