SPECIFICATION Spec
CONSTANTS
  Dirs = {inbox}
  FirstDir = inbox
  InitialBoxes <- TwoUids
  MaxUid = 7
  Servers <- FittingServers
  UserKinds = {"delete"}
  Filters = {FALSE}
  UpdatesCap = 50
  MaxOps = 1
  MaxNav = 0
  MaxMails = 0
  MaxForeign = 1
  MaxFaults = 0
INVARIANT ShowsNoGone
CHECK_DEADLOCK FALSE
